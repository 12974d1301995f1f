-------------------------- MODULE BookDecodeProofs --------------------------
(***************************************************************************)
(* Where bytes have 8 bits and an ogg_uint32_t 4 of them, the walk of a    *)
(* packed table, along whatever a packet holds, stays in what was written  *)
(* of it and finds the entry whose codeword is next in the packet          *)
(* (codebook.c).                                                           *)
(***************************************************************************)
EXTENDS CodebookProofs, FiniteSetTheorems, TLAPS

(* The longest codeword, where there is one.                               *)

Longest ==
  /\ s.dec_maxlength \in 0..MaxLength
  /\ pc \in {"params", "ordering"} => s.dec_maxlength = 0
  /\ s.dec_maxlength > 0 => s.used_entries > 0
  /\ pc \in Growing \cup Listed /\ unused =>
       \/ s.dec_maxlength = 0
       \/ \E e \in 1..Len(lengthlist) : lengthlist[e] = s.dec_maxlength

LEMMA MaxOfTwo ==
  ASSUME NEW a \in Nat, NEW b \in Nat
  PROVE  Max({a, b}) \in {a, b} /\ Max({a, b}) >= a /\ Max({a, b}) >= b
<1>1. \E x \in {a, b} : \A y \in {a, b} : x >= y
  <2>1. a >= b \/ b >= a
    OBVIOUS
  <2> QED
    BY <2>1
<1>2. Max({a, b}) = CHOOSE x \in {a, b} : \A y \in {a, b} : x >= y
  BY DEF Max
<1> QED
  BY <1>1, <1>2

(* Once the lengths are read they stay, and what was counted of them.      *)
LengthsKept ==
  /\ s'.dec_maxlength = s.dec_maxlength /\ s'.used_entries = s.used_entries
  /\ s'.entries = s.entries /\ UNCHANGED <<lengthlist, unused>>
  /\ pc' = pc \/ (pc \notin {"params", "ordering"} \cup Growing
                    /\ pc' \notin {"params", "ordering"} \cup Growing)
  /\ pc' \in Listed => pc \in Listed
Gone == s' = NoBook /\ pc' \in {"refused", "cleared"}

LEMMA KeepsLengths ==
  ASSUME DOMAIN s = DOMAIN NoBook, [DecodeNext]_allVars
  PROVE  \/ ReadParameters \/ ReadOrdering \/ ReadLength \/ ReadRun
         \/ Gone \/ LengthsKept
<1>0. DOMAIN s = DOMAIN NoBook
  OBVIOUS
<1> DEFINE Same(b, c) == /\ b.dec_maxlength = c.dec_maxlength
                         /\ b.used_entries = c.used_entries
                         /\ b.entries = c.entries
           Later == /\ pc \in {"mapping", "values", "lattice", "table", "words",
                               "quantvals", "pack", "scalars", "end"}
                    /\ pc' \notin {"params", "ordering"} \cup Growing
                    /\ pc' \in Listed => pc \in Listed
                    /\ UNCHANGED <<lengthlist, unused>>
<1>1. ASSUME NEW h, NEW listed, Refuse(h, listed) PROVE Gone
  BY <1>1 DEF Refuse, Gone
<1>2. ASSUME RefuseWords PROVE Gone
  BY <1>1, <1>2 DEF RefuseWords
<1>3. ASSUME Later, Same(s', s) PROVE LengthsKept
  BY <1>3 DEF LengthsKept, Growing
<1> HIDE DEF Later
<1>9. CASE ReadMapping
  <2>1. CASE ~Refuse(heap, TRUE)
    <3>1. /\ pc = "mapping" /\ sent.maptype \in 0..2
          /\ pc' = IF sent.maptype = 1 THEN "quantvals" ELSE "table"
          /\ UNCHANGED <<lengthlist, unused>>
          /\ \E bits, type, width :
               \/ s' = [s EXCEPT !.q_bits = bits]
               \/ s' = Sized([s EXCEPT !.q_bits = bits], type, width)
      <4>1. PICK bits : s' =
              CASE sent.maptype = 0 ->
                     Sized([s EXCEPT !.q_bits = bits], 0,
                           (ilog(s.entries) \div ByteBits) + 1)
                [] sent.maptype = 1 -> [s EXCEPT !.q_bits = bits]
                [] sent.maptype = 2 /\ PackedWidth([s EXCEPT !.q_bits = bits]) <= 4 ->
                     Sized([s EXCEPT !.q_bits = bits], 1,
                           PackedWidth([s EXCEPT !.q_bits = bits]))
                [] OTHER ->
                     Sized([s EXCEPT !.q_bits = bits], 3,
                       (ilog((s.used_entries - 1) % 2 ^ WordBits)
                          \div ByteBits) + 1)
        BY <1>9, <2>1 DEF ReadMapping
      <4>2. /\ pc = "mapping" /\ sent.maptype \in 0..2
            /\ pc' = IF sent.maptype = 1 THEN "quantvals" ELSE "table"
            /\ UNCHANGED <<lengthlist, unused>>
        BY <1>9, <2>1 DEF ReadMapping
      <4> DEFINE book == [s EXCEPT !.q_bits = bits]
      <4> HIDE DEF book
      <4>3. s' = book \/ \E type, width : s' = Sized(book, type, width)
        BY <4>1, <4>2 DEF book
      <4> QED
        BY <4>2, <4>3 DEF book
    <3>2. PICK bits, type, width :
               \/ s' = [s EXCEPT !.q_bits = bits]
               \/ s' = Sized([s EXCEPT !.q_bits = bits], type, width)
      BY <3>1
    <3> DEFINE book == [s EXCEPT !.q_bits = bits]
    <3>3. DOMAIN book = DOMAIN NoBook /\ Same(book, s)
      BY <1>0, BookFields
    <3>4. s' = book \/ s' = Sized(book, type, width)
      BY <3>2
    <3> HIDE DEF book
    <3>5. Same(s', s)
      BY <3>3, <3>4, SizedFields
    <3>6. Later
      BY <3>1 DEF Later, Growing, Listed
    <3> QED
      BY <1>3, <3>5, <3>6
  <2> QED
    BY <1>1, <2>1
<1>10. CASE PolishQuantvals
  <2>1. Later /\ s' = s
    BY <1>10 DEF PolishQuantvals, Later, Growing, Listed
  <2> QED
    BY <1>3, <2>1
<1>11. CASE AllocLattice
  <2>1. CASE ~Refuse(heap, TRUE)
    <3>1. s' = [s EXCEPT !.q_val = TRUE] /\ Later
      BY <1>11, <2>1 DEF AllocLattice, Later, Growing, Listed
    <3>2. Same(s', s)
      BY <1>0, <3>1, BookFields
    <3> QED
      BY <1>3, <3>1, <3>2
  <2> QED
    BY <1>1, <2>1
<1>12. CASE ReadLattice
  <2>1. CASE ~Refuse(heap, TRUE)
    <3>1. /\ Later
          /\ s' = IF LatticePacked THEN Sized(s, 1, PackedWidth(s))
                  ELSE Sized([s EXCEPT !.q_pack = LatticePack], 2,
                             LeafBytes(LatticePack * s.dim))
      BY <1>12, <2>1 DEF ReadLattice, Later, Growing, Listed
    <3> DEFINE book == [s EXCEPT !.q_pack = LatticePack]
    <3>2. DOMAIN book = DOMAIN NoBook /\ Same(book, s)
      BY <1>0, BookFields
    <3>3. \/ \E width : s' = Sized(s, 1, width)
          \/ \E width : s' = Sized(book, 2, width)
      BY <3>1
    <3> HIDE DEF book
    <3>4. Same(s', s)
      BY <1>0, <3>2, <3>3, SizedFields
    <3> QED
      BY <1>3, <3>1, <3>4
  <2> QED
    BY <1>1, <2>1
<1>13. CASE AllocWords
  <2>1. CASE ~Refuse(heap, TRUE)
    <3>1. s' = [s EXCEPT !.dec_table = InPlace] /\ Later
      BY <1>13, <2>1 DEF AllocWords, Later, Growing, Listed
    <3>2. Same(s', s)
      BY <1>0, <3>1, BookFields
    <3> QED
      BY <1>3, <3>1, <3>2
  <2> QED
    BY <1>1, <2>1
<1>14. CASE SkipEntry \/ ChaseTree \/ PlantLeaf \/ EndWords
  <2>1. CASE ~RefuseWords
    <3>1. s' = s /\ Later
      BY <1>14, <2>1 DEF SkipEntry, ChaseTree, PlantLeaf, EndWords, Later,
                         Growing, Listed
    <3> QED
      BY <1>3, <3>1
  <2> QED
    BY <1>2, <2>1
<1>16. CASE PackTable
  <2>1. CASE ~RefuseWords
    <3>1. Later /\ \E x : s' = [s EXCEPT !.dec_table = TRUE, !.q_val = x]
      BY <1>16, <2>1, Zenon DEF PackTable, Later, Growing, Listed
    <3>2. Same(s', s)
      BY <1>0, <3>1, BookFields
    <3> QED
      BY <1>3, <3>1, <3>2
  <2> QED
    BY <1>2, <2>1
<1>17. CASE ReadScalars
  <2>1. CASE ~Refuse(heap, TRUE)
    <3>1. Later /\ \E x : s' = [s EXCEPT !.q_val = TRUE, !.q_pack = x]
      BY <1>17, <2>1, Zenon DEF ReadScalars, Later, Growing, Listed
    <3>2. Same(s', s)
      BY <1>0, <3>1, BookFields
    <3> QED
      BY <1>3, <3>1, <3>2
  <2> QED
    BY <1>1, <2>1
<1>18. CASE Finish
  <2>1. CASE ~Refuse(heap, TRUE)
    <3>1. s' = s /\ Later
      BY <1>18, <2>1 DEF Finish, Later, Growing, Listed
    <3> QED
      BY <1>3, <3>1
  <2> QED
    BY <1>1, <2>1
<1>19. CASE Clear
  BY <1>19 DEF Clear, vorbis_book_clear, Gone
<1>20. CASE \/ StartCall \/ NextVector \/ LookAhead \/ WalkBit \/ WalkEnds
            \/ UseEntry \/ UNCHANGED allVars
  <2>1. UNCHANGED <<pc, s, lengthlist, unused>>
    BY <1>20, Zenon DEF StartCall, NextVector, LookAhead, WalkBit, WalkEnds, UseEntry,
                 Return, vars, allVars
  <2> QED
    BY <2>1 DEF LengthsKept
<1> QED
  BY <1>9, <1>10, <1>11, <1>12, <1>13, <1>14, <1>16, <1>17, <1>18, <1>19, <1>20
     DEF DecodeNext, Unpack, vorbis_book_unpack

LEMMA LongestStep ==
  ASSUME BInv, Lists, Longest, [DecodeNext]_allVars
  PROVE  Longest'
<1>0. DOMAIN s = DOMAIN NoBook /\ MaxLength \in 1..32
  BY LengthsFit DEF BInv, Pointers
<1>1. ASSUME s' = NoBook, pc' \in {"refused", "cleared"} PROVE Longest'
  BY <1>0, <1>1 DEF Longest, NoBook, Growing, Listed
<1>2. ASSUME NEW h, NEW listed, Refuse(h, listed) PROVE Longest'
  BY <1>1, <1>2 DEF Refuse
<1>3. CASE LengthsKept
  BY <1>3 DEF LengthsKept, Longest
<1>4. CASE ReadParameters
  <2>1. CASE ~Refuse(heap, FALSE)
    <3>1. /\ pc = "params" /\ pc' = "ordering"
          /\ s' = [s EXCEPT !.dim = sent.dim, !.entries = sent.entries]
      BY <1>4, <2>1 DEF ReadParameters
    <3>2. /\ s'.dec_maxlength = s.dec_maxlength
          /\ s'.used_entries = s.used_entries
      BY <1>0, <3>1, BookFields
    <3> QED
      BY <3>1, <3>2 DEF Longest, Growing, Listed
  <2> QED
    BY <1>2, <2>1, Zenon
<1>5. CASE ReadOrdering
  <2>1. CASE ~Refuse(heap, FALSE)
    <3>1. /\ pc = "ordering" /\ pc' \notin {"params", "ordering"}
          /\ \E x : s' = [s EXCEPT !.used_entries = x]
      BY <1>5, <2>1 DEF ReadOrdering
    <3>2. s'.dec_maxlength = s.dec_maxlength
      BY <1>0, <3>1, BookFields
    <3> QED
      BY <3>1, <3>2 DEF Longest
  <2> QED
    BY <1>2, <2>1, Zenon
<1>6. ASSUME pc \in Growing
      PROVE  /\ s.used_entries \in Nat /\ lengthlist \in Seq(Lengths)
             /\ ~unused => s.used_entries > 0
  <2>1. /\ lengthlist \in Seq(Lengths) /\ Len(lengthlist) < s.entries
        /\ s.entries \in Nat
        /\ IF unused THEN Tally(lengthlist, Len(lengthlist), s.used_entries)
           ELSE s.used_entries = s.entries
    BY <1>6 DEF Lists
  <2>2. Len(lengthlist) \in Nat
    BY <2>1
  <2>3. Tally(lengthlist, Len(lengthlist), s.used_entries)
          => s.used_entries \in Nat
    BY <2>2, WordsAreFinite DEF Tally
  <2> QED
    BY <2>1, <2>2, <2>3
<1>7. CASE ReadLength
  <2>1. CASE ~Refuse(heap, TRUE)
    <3>1. /\ pc = "lengths" /\ pc \in Growing /\ UNCHANGED unused
          /\ pc' = NextListed(lengthlist')
      BY <1>7, <2>1, Zenon DEF ReadLength, Growing
    <3>2. PICK len \in sent.lengths \cup (IF unused THEN {0} ELSE {}) :
               /\ lengthlist' = Append(lengthlist, len)
               /\ s' = [s EXCEPT
                 !.used_entries = IF unused /\ len > 0 THEN @ + 1 ELSE @,
                 !.dec_maxlength = Max({@, len})]
      BY <1>7, <2>1, Zenon DEF ReadLength
    <3>3. len \in 0..MaxLength
      <4>1. sent.lengths \subseteq 1..MaxLength /\ MaxLength \in 1..32
        BY SentLengths, LengthsFit DEF Lists
      <4> QED
        BY <4>1
    <3> DEFINE u == IF unused /\ len > 0 THEN s.used_entries + 1
                    ELSE s.used_entries
               m == Max({s.dec_maxlength, len})
    <3>4. s' = [s EXCEPT !.used_entries = u, !.dec_maxlength = m]
      BY <3>2
    <3>5. m = s.dec_maxlength \/ m = len
      <4>1. len \in Nat /\ s.dec_maxlength \in Nat
        BY <1>0, <3>3 DEF Longest
      <4> QED
        BY <4>1, MaxOfTwo
    <3> HIDE DEF m
    <3>6. m \in 0..MaxLength /\ (m > 0 => u > 0)
      BY <1>6, <3>1, <3>3, <3>5 DEF Longest
    <3> HIDE DEF u
    <3>7. s'.dec_maxlength = m /\ s'.used_entries = u
      BY <1>0, <3>4, BookFields
    <3>8. pc' \notin {"params", "ordering"}
      BY <3>1 DEF NextListed
    <3> DEFINE n == Len(lengthlist)
    <3>9. /\ n \in Nat /\ Len(lengthlist') = n + 1 /\ lengthlist'[n + 1] = len
          /\ \A e \in 1..n : lengthlist'[e] = lengthlist[e]
      BY <1>6, <3>1, <3>2
    <3> HIDE DEF n
    <3>10. ASSUME unused
           PROVE  m = 0 \/ \E e \in 1..Len(lengthlist') : lengthlist'[e] = m
      <4>1. CASE m = len
        <5>1. n + 1 \in 1..Len(lengthlist')
          BY <3>9
        <5> QED
          BY <3>9, <4>1, <5>1
      <4>2. CASE m = s.dec_maxlength /\ m # 0
        <5>1. PICK e \in 1..n : lengthlist[e] = m
          BY <3>1, <3>10, <4>2 DEF Longest, n
        <5>2. e \in 1..Len(lengthlist')
          BY <3>9
        <5> QED
          BY <3>9, <5>1, <5>2
      <4> QED
        BY <3>5, <4>1, <4>2
    <3> QED
      BY <3>1, <3>6, <3>7, <3>8, <3>10 DEF Longest
  <2> QED
    BY <1>2, <2>1, Zenon
<1>8. CASE ReadRun
  <2>1. CASE ~Refuse(heap, TRUE)
    <3>1. /\ pc = "runs" /\ s' = [s EXCEPT !.dec_maxlength = length]
          /\ pc' = NextListed(lengthlist') /\ UNCHANGED unused
          /\ \E num : ~RunTooLong(num)
      BY <1>8, <2>1 DEF ReadRun
    <3>2. s'.dec_maxlength = length /\ s'.used_entries = s.used_entries
      BY <1>0, <3>1, BookFields
    <3>3. length \in 0..MaxLength /\ s.used_entries > 0 /\ ~unused
      <4>1. ~unused /\ length \in 1..(MaxLength + 1) /\ pc \in Growing
        BY <3>1 DEF Lists, Growing
      <4>2. ~(length > MaxLength)
        BY <3>1 DEF RunTooLong
      <4> QED
        BY <1>0, <1>6, <4>1, <4>2
    <3>4. pc' \notin {"params", "ordering"}
      BY <3>1 DEF NextListed
    <3> QED
      BY <3>1, <3>2, <3>3, <3>4 DEF Longest
  <2> QED
    BY <1>2, <2>1, Zenon
<1> QED
  BY <1>0, <1>1, <1>3, <1>4, <1>5, <1>7, <1>8, KeepsLengths DEF Gone

-----------------------------------------------------------------------------
(* What the mapping decides on.                                            *)

Making == {"table", "words", "pack"}

(* The nodes of a book have a word for each side, or they are packed, and  *)
(* then their cells can tell them apart: the nodes by their number where a *)
(* leaf needs no more bits than an entry, and by their place.              *)
NodeSized(book) ==
  \/ book.dec_nodeb = 4
  \/ /\ book.used_entries >= 2 /\ book.dec_nodeb \in {1, 2}
     /\ book.dec_leafw = 1
     /\ book.dec_type \in {0, 3} =>
          book.used_entries - 2 < TwoTo(book.dec_nodeb * ByteBits - 1)
  \/ /\ book.used_entries >= 2 /\ book.dec_nodeb \in {1, 2}
     /\ book.dec_leafw = 2
     /\ ilog(3 * book.used_entries - 6) < book.dec_nodeb * ByteBits

Sizing ==
  /\ pc \in {"ordering"} \cup Growing \cup Listed \cup {"pack"} =>
       s.dim = sent.dim /\ s.entries = sent.entries /\ s.dim # 0
  /\ pc \in {"quantvals", "lattice", "values"} \cup Making => s.q_bits \in Nat
  /\ pc = "values" =>
       /\ quantvals \in Nat \ {0}
       /\ s.entries > 0 => Power(quantvals, s.dim) <= s.entries
  /\ pc \in Making =>
       /\ s.used_entries \in Nat /\ s.used_entries <= s.entries
       /\ s.dec_type = 1 => s.q_bits * s.dim <= 31
       /\ s.dec_type = 2 /\ s.entries > 0 =>
            s.q_pack \in Nat /\ s.q_pack * s.dim <= 32
       /\ sent.maptype = 1 => /\ quantvals \in Nat \ {0}
                              /\ vals = ValuesRead(quantvals)
                              /\ s.entries > 0 => quantvals <= s.entries
       /\ NodeSized(s)

LEMMA SizedNodes ==
  ASSUME RealWidths, NEW book, DOMAIN book = DOMAIN NoBook,
         book.used_entries \in Nat, book.used_entries < TwoTo(24),
         NEW type, NEW width \in 1..4,
         type \in {0, 3} =>
           book.used_entries < 2
             \/ book.used_entries - 2 < TwoTo(width * ByteBits - 1)
  PROVE  NodeSized(Sized(book, type, width))
<1> DEFINE b == Sized(book, type, width)
           u == book.used_entries
           nodeb == determine_node_bytes(u, width)
           leafw == determine_leaf_words(nodeb, width)
<1>1. /\ b.used_entries = u /\ b.dec_type = type /\ b.dec_nodeb = nodeb
      /\ b.dec_leafw = leafw
  BY SizedFields
<1>2. u \in Nat /\ u < TwoTo(24)
  OBVIOUS
<1>3. type \in {0, 3} => u < 2 \/ u - 2 < TwoTo(width * ByteBits - 1)
  OBVIOUS
<1> HIDE DEF b, u
<1>4. \/ nodeb = 4
      \/ u >= 2 /\ nodeb \in {1, 2} /\ leafw = 1 /\ nodeb = width
      \/ /\ u >= 2 /\ nodeb \in {1, 2} /\ leafw = 2
         /\ ilog(3 * u - 6) < nodeb * ByteBits
  BY <1>2, NodeSizes
<1> HIDE DEF nodeb, leafw
<1>5. u >= 2 => ~(u < 2)
  BY <1>2
<1>6. NodeSized(b)
  BY <1>1, <1>3, <1>4, <1>5 DEF NodeSized
<1> QED
  BY <1>6 DEF b

(* Values that are packed into a leaf fill less than a word.               *)
LEMMA LeafWidth ==
  ASSUME RealWidths, NEW bits \in Nat
  PROVE  /\ LeafBytes(bits) \in Nat \ {0}
         /\ LeafBytes(bits) <= 4 <=> bits <= 31
<1>1. LeafBytes(bits) = (bits + 8) \div 8
  BY DEF RealWidths, LeafBytes
<1> QED
  BY <1>1

(* Bytes that hold a number have room for those below it.                  *)
LEMMA BytesHold ==
  ASSUME RealWidths, NEW v \in Nat, v < TwoTo(24), NEW n \in Nat, n <= v
  PROVE  LET width == (ilog(v) \div ByteBits) + 1
         IN  /\ width \in 1..4 /\ n < TwoTo(width * ByteBits - 1)
<1> DEFINE i == ilog(v)
           width == (i \div 8) + 1
<1>0. ByteBits = 8
  BY DEF RealWidths
<1>1. TwoTo(24) = 16777216 /\ TwoTo(30) = 1073741824
  BY Thirty
<1>2. v < TwoTo(30)
  BY <1>1
<1>3. i \in 0..30
  BY <1>2, IlogSmall
<1>4. width \in 1..4 /\ i <= width * 8 - 1 /\ width * 8 - 1 \in 0..32
  <2> HIDE DEF i
  <2> QED
    BY <1>3
<1>5. v < TwoTo(width * 8 - 1)
  <2> DEFINE w == width * 8 - 1
  <2>1. w \in 0..32 /\ ilog(v) <= w
    BY <1>4
  <2> HIDE DEF w
  <2>2. v < TwoTo(w)
    BY <1>2, <2>1, WidthBounds
  <2> QED
    BY <2>2 DEF w
<1>6. n < TwoTo(width * 8 - 1)
  <2> DEFINE z == TwoTo(width * 8 - 1)
  <2>1. z \in Nat
    BY <1>4, Doubling
  <2>2. v < z
    BY <1>5
  <2> HIDE DEF z
  <2>3. n < z
    BY <2>1, <2>2
  <2> QED
    BY <2>3 DEF z
<1>7. width = (ilog(v) \div ByteBits) + 1
  BY <1>0
<1> HIDE DEF width
<1> QED
  BY <1>0, <1>4, <1>6, <1>7

LEMMA PowerGrows ==
  ASSUME NEW v \in Nat \ {0}, NEW n \in Nat \ {0}
  PROVE  Power(v, n) \in Nat /\ v <= Power(v, n)
<1>1. PICK p : /\ p \in [0..n -> Nat] /\ p[n] = Power(v, n) /\ p[0] = 1
               /\ \A i \in 1..n : p[i] = p[i - 1] * v
  BY PowerEquation
<1> DEFINE T == {i \in Nat : i + 1 <= n => p[i + 1] >= v}
<1>2. 0 \in T
  BY <1>1
<1>3. ASSUME NEW i \in Nat, i \in T PROVE i + 1 \in T
  <2> SUFFICES ASSUME i + 2 <= n PROVE p[i + 2] >= v
    BY <1>3
  <2>1. p[i + 2] = p[i + 1] * v /\ p[i + 1] >= v /\ p[i + 1] \in Nat
    <3>1. i + 2 \in 1..n /\ (i + 2) - 1 = i + 1 /\ i + 1 \in 0..n
      OBVIOUS
    <3> QED
      BY <1>1, <1>3, <3>1
  <2> DEFINE x == p[i + 1]
  <2>2. x \in Nat /\ x >= v /\ p[i + 2] = x * v
    BY <2>1
  <2> HIDE DEF x
  <2>3. x * v >= v
    <3>1. (x - 1) * v >= 0 /\ x * v = (x - 1) * v + v
      BY <2>2
    <3> QED
      BY <2>2, <3>1
  <2> QED
    BY <2>2, <2>3
<1> HIDE DEF T
<1>4. n - 1 \in Nat /\ n - 1 \in T
  BY <1>2, <1>3, InductiveSet
<1> QED
  BY <1>1, <1>4 DEF T

(* What the list has in use.                                               *)
LEMMA FewEntries ==
  ASSUME Lists, Sizing, pc \in Listed
  PROVE  /\ s.used_entries \in Nat /\ s.entries \in Nat
         /\ s.used_entries <= s.entries /\ s.entries < TwoTo(24)
         /\ s.used_entries < TwoTo(24)
         /\ s.dim \in Nat \ {0}
<1>1. /\ Tally(lengthlist, Len(lengthlist), s.used_entries)
      /\ s.used_entries \in Nat
  BY ListedTally
<1>2. Len(lengthlist) = s.entries /\ s.entries \in Nat /\ sent \in Shapes
  BY DEF Lists
<1>3. s.used_entries <= s.entries
  <2> DEFINE n == Len(lengthlist)
             W == {e \in 1..n : lengthlist[e] > 0}
  <2>1. IsFiniteSet(1..n) /\ Cardinality(1..n) = n
    <3>1. n \in Nat /\ 1 \in Int /\ n \in Int
      BY <1>2
    <3> HIDE DEF n
    <3>2. /\ IsFiniteSet(1..n)
          /\ Cardinality(1..n) = IF 1 > n THEN 0 ELSE n - 1 + 1
      BY <3>1, FS_Interval
    <3> QED
      BY <3>1, <3>2
  <2>2. W \in SUBSET (1..n)
    OBVIOUS
  <2>3. s.used_entries = Cardinality(W)
    BY <1>1 DEF Tally
  <2>4. n = s.entries
    BY <1>2
  <2> HIDE DEF n, W
  <2>5. Cardinality(W) <= Cardinality(1..n)
    BY <2>1, <2>2, FS_Subset
  <2> QED
    BY <2>1, <2>3, <2>4, <2>5
<1>4. s.dim = sent.dim /\ s.entries = sent.entries /\ s.dim # 0
  BY DEF Sizing
<1>5. sent.dim \in Nat /\ sent.entries \in Sizes
  BY <1>2, SentFits
<1>6. s.entries < 16777216
  BY <1>4, <1>5, SizesAre, SMT
<1>7. TwoTo(24) = 16777216
  BY Thirty
<1>8. s.entries < TwoTo(24)
  BY <1>6, <1>7
<1>9. s.used_entries < TwoTo(24)
  BY <1>1, <1>2, <1>3, <1>6, <1>7, SMT
<1> QED
  BY <1>1, <1>2, <1>3, <1>4, <1>5, <1>8, <1>9

LEMMA SentMapping ==
  ASSUME RealWidths, sent \in Shapes
  PROVE  /\ sent.q_bits \in Nat /\ sent.maptype \in 0..3
         /\ \A n \in DOMAIN Values : Values[n] \in Nat
         /\ 0..(sent.entries * sent.dim - 1) \subseteq DOMAIN Values
<1>1. sent.q_bits \in 1..(2 * ByteBits) /\ sent.maptype \in 0..3
  BY ShapeAssumption, Zenon
<1>2. 0..(sent.entries * sent.dim - 1) \subseteq DOMAIN Values
  BY ShapeAssumption, Zenon
<1>3. \A n \in DOMAIN Values : Values[n] \in Nat
  BY ShapeAssumption, Zenon
<1>4. ByteBits \in Nat
  BY DEF RealWidths
<1> QED
  BY <1>1, <1>2, <1>3, <1>4

LEMMA SizingMaps ==
  ASSUME RealWidths, DOMAIN s = DOMAIN NoBook, Lists, Sizing, ReadMapping,
         ~Refuse(heap, TRUE)
  PROVE  Sizing'
<1> DEFINE with(bits) == [s EXCEPT !.q_bits = bits]
           plain(bits) ==
             Sized(with(bits), 0, (ilog(s.entries) \div ByteBits) + 1)
           narrow(bits) == PackedWidth(with(bits)) <= 4
           leaves(bits) == Sized(with(bits), 1, PackedWidth(with(bits)))
           numbers(bits) ==
             Sized(with(bits), 3, (ilog((s.used_entries - 1) % 2 ^ WordBits)
                                     \div ByteBits) + 1)
           to(bits) == CASE sent.maptype = 0 -> plain(bits)
                         [] sent.maptype = 1 -> with(bits)
                         [] sent.maptype = 2 /\ narrow(bits) -> leaves(bits)
                         [] OTHER -> numbers(bits)
<1>0. ASSUME NEW bits
      PROVE  /\ sent.maptype = 0 => to(bits) = plain(bits)
             /\ sent.maptype = 1 => to(bits) = with(bits)
             /\ sent.maptype = 2 /\ narrow(bits) => to(bits) = leaves(bits)
             /\ sent.maptype = 2 /\ ~narrow(bits) => to(bits) = numbers(bits)
  <2> HIDE DEF with, plain, narrow, leaves, numbers
  <2> QED
    BY SMT
<1>1. /\ pc = "mapping" /\ sent.maptype \in 0..2
      /\ pc' = IF sent.maptype = 1 THEN "quantvals" ELSE "table"
      /\ UNCHANGED <<sent, vals>>
  BY DEF ReadMapping
<1>2. PICK bits \in {0, sent.q_bits} : s' = to(bits)
  <2>1. \E bits \in {0, sent.q_bits} :
          LET book == [s EXCEPT !.q_bits = bits]
          IN  /\ bits = 0 => sent.maptype = 0 \/ opb'
              /\ bits > 0 => sent.maptype > 0
              /\ s' = CASE sent.maptype = 0 ->
                             Sized(book, 0, (ilog(s.entries) \div ByteBits) + 1)
                        [] sent.maptype = 1 -> book
                        [] sent.maptype = 2 /\ PackedWidth(book) <= 4 ->
                             Sized(book, 1, PackedWidth(book))
                        [] OTHER ->
                             Sized(book, 3,
                               (ilog((s.used_entries - 1) % 2 ^ WordBits)
                                  \div ByteBits) + 1)
    BY Zenon DEF ReadMapping
  <2> QED
    BY <2>1
<1> DEFINE book == [s EXCEPT !.q_bits = bits]
<1>3. /\ DOMAIN book = DOMAIN NoBook /\ book.dim = s.dim
      /\ book.entries = s.entries /\ book.used_entries = s.used_entries
      /\ book.q_bits = bits
  BY BookFields
<1> HIDE DEF book
<1>12. /\ sent.maptype = 0 =>
            s' = Sized(book, 0, (ilog(s.entries) \div ByteBits) + 1)
       /\ sent.maptype = 1 => s' = book
       /\ sent.maptype = 2 /\ PackedWidth(book) <= 4 =>
            s' = Sized(book, 1, PackedWidth(book))
       /\ sent.maptype = 2 /\ ~(PackedWidth(book) <= 4) =>
            s' = Sized(book, 3, (ilog((s.used_entries - 1) % 2 ^ WordBits)
                                   \div ByteBits) + 1)
  <2> HIDE DEF to
  <2>1. /\ sent.maptype = 0 => s' = plain(bits)
        /\ sent.maptype = 1 => s' = with(bits)
        /\ sent.maptype = 2 /\ narrow(bits) => s' = leaves(bits)
        /\ sent.maptype = 2 /\ ~narrow(bits) => s' = numbers(bits)
    BY <1>0, <1>2
  <2> QED
    BY <2>1 DEF book
<1> HIDE DEF to, with, plain, narrow, leaves, numbers
<1>4. bits \in Nat
  <2>1. sent.q_bits \in Nat
    BY SentMapping DEF Lists
  <2> QED
    BY <2>1
<1>5. /\ s.used_entries \in Nat /\ s.entries \in Nat
      /\ s.used_entries <= s.entries /\ s.entries < TwoTo(24)
      /\ s.used_entries < TwoTo(24) /\ s.dim \in Nat \ {0}
  BY <1>1, FewEntries DEF Listed
<1>6. s.dim = sent.dim /\ s.entries = sent.entries /\ s.dim # 0
  BY <1>1 DEF Sizing, Listed
<1>7. CASE sent.maptype = 1
  <2>1. s' = book
    BY <1>7, <1>12
  <2>2. pc' = "quantvals"
    BY <1>1, <1>7
  <2> QED
    BY <1>1, <1>3, <1>4, <1>6, <2>1, <2>2 DEF Sizing, Making
<1>8. ASSUME NEW type \in {0, 1, 3}, NEW width \in 1..4,
             s' = Sized(book, type, width), sent.maptype # 1,
             type = 1 => bits * s.dim <= 31,
             type \in {0, 3} =>
               s.used_entries < 2
                 \/ s.used_entries - 2 < TwoTo(width * ByteBits - 1)
      PROVE  Sizing'
  <2>1. pc' = "table" /\ sent' = sent
    BY <1>1, <1>8
  <2>2. /\ s'.dim = s.dim /\ s'.entries = s.entries
        /\ s'.used_entries = s.used_entries /\ s'.q_bits = bits
        /\ s'.dec_type = type
    BY <1>3, <1>8, SizedFields
  <2>3. NodeSized(s')
    BY <1>3, <1>5, <1>8, SizedNodes
  <2>4. NodeSized(s)'
    BY <2>3 DEF NodeSized
  <2> QED
    BY <1>4, <1>5, <1>6, <1>8, <2>1, <2>2, <2>4 DEF Sizing, Making
<1>9. CASE sent.maptype = 0
  <2> DEFINE width == (ilog(s.entries) \div ByteBits) + 1
  <2>1. s' = Sized(book, 0, width)
    BY <1>9, <1>12
  <2>2. width \in 1..4 /\ s.used_entries < TwoTo(width * ByteBits - 1)
    BY <1>5, BytesHold
  <2>3. s.used_entries - 2 < TwoTo(width * ByteBits - 1)
    <3> DEFINE z == TwoTo(width * ByteBits - 1)
    <3>1. z \in Int
      <4>1. width * ByteBits - 1 \in 0..32
        BY <2>2 DEF RealWidths
      <4> QED
        BY <4>1, Doubling
    <3>2. s.used_entries < z
      BY <2>2
    <3> HIDE DEF z
    <3>3. s.used_entries - 2 < z
      BY <1>5, <3>1, <3>2
    <3> QED
      BY <3>3 DEF z
  <2> HIDE DEF width
  <2> QED
    BY <1>8, <1>9, <2>1, <2>2, <2>3
<1>10. CASE sent.maptype = 2 /\ PackedWidth(book) <= 4
  <2> DEFINE width == PackedWidth(book)
  <2>1. s' = Sized(book, 1, width)
    BY <1>10, <1>12
  <2>2. bits * s.dim \in Nat
    BY <1>4, <1>5
  <2>3. width = LeafBytes(bits * s.dim)
    BY <1>3 DEF PackedWidth
  <2>4. width \in Nat \ {0} /\ (width <= 4 <=> bits * s.dim <= 31)
    BY <2>2, <2>3, LeafWidth
  <2>5. width \in 1..4 /\ bits * s.dim <= 31
    BY <1>10, <2>4
  <2> HIDE DEF width
  <2> QED
    BY <1>8, <1>10, <2>1, <2>5
<1>11. CASE sent.maptype = 2 /\ ~(PackedWidth(book) <= 4)
  <2> DEFINE v == (s.used_entries - 1) % 2 ^ WordBits
             width == (ilog(v) \div ByteBits) + 1
  <2>1. s' = Sized(book, 3, width)
    BY <1>11, <1>12
  <2>2. CASE s.used_entries < 2
    <3>1. pc' = "table" /\ sent' = sent
      BY <1>1, <1>11
    <3>2. /\ s'.dim = s.dim /\ s'.entries = s.entries
          /\ s'.used_entries = s.used_entries /\ s'.q_bits = bits
          /\ s'.dec_type = 3
          /\ s'.dec_nodeb = determine_node_bytes(s.used_entries, width)
      BY <1>3, <2>1, SizedFields
    <3>3. s'.dec_nodeb = 4
      BY <2>2, <3>2 DEF determine_node_bytes
    <3>4. NodeSized(s)'
      BY <3>3 DEF NodeSized
    <3> QED
      BY <1>4, <1>5, <1>6, <1>11, <3>1, <3>2, <3>4 DEF Sizing, Making
  <2>3. CASE s.used_entries >= 2
    <3>1. v = s.used_entries - 1
      <4>1. 2 ^ WordBits = 4294967296
        <5>1. WordBits = 32
          BY DEF RealWidths, WordBits
        <5>2. 2 ^ 32 = 4294967296
          BY SMT
        <5> QED
          BY <5>1, <5>2, SMT
      <4>2. TwoTo(24) = 16777216
        BY Thirty
      <4> DEFINE z == 2 ^ WordBits
                 x == s.used_entries - 1
      <4>3. x \in Nat /\ z \in Nat /\ x < z /\ x >= 0
        BY <1>5, <2>3, <4>1, <4>2, SMT
      <4> HIDE DEF z, x
      <4>4. x % z = x
        BY <4>3
      <4> QED
        BY <4>4 DEF x, z
    <3>2. v \in Nat /\ v < TwoTo(24) /\ s.used_entries - 2 \in Nat
          /\ s.used_entries - 2 <= v
      <4>1. TwoTo(24) = 16777216
        BY Thirty
      <4> HIDE DEF v
      <4> QED
        BY <1>5, <2>3, <3>1, <4>1
    <3> HIDE DEF v
    <3>3. /\ width \in 1..4
          /\ s.used_entries - 2 < TwoTo(width * ByteBits - 1)
      BY <3>2, BytesHold
    <3> HIDE DEF width
    <3> QED
      BY <1>8, <1>11, <2>1, <3>3
  <2> QED
    BY <1>5, <2>2, <2>3
<1> QED
  BY <1>1, <1>7, <1>9, <1>10, <1>11
LEMMA SizingValues ==
  ASSUME RealWidths, DOMAIN s = DOMAIN NoBook, Lists, Sizing, ReadLattice,
         ~Refuse(heap, TRUE), BInv
  PROVE  Sizing'
<1>1. /\ pc = "values" /\ pc' = "table" /\ UNCHANGED <<sent, quantvals>>
      /\ LatticePacked \/ LatticePack * s.dim <= WordBits
      /\ s' = IF LatticePacked THEN Sized(s, 1, PackedWidth(s))
              ELSE Sized([s EXCEPT !.q_pack = LatticePack], 2,
                         LeafBytes(LatticePack * s.dim))
      /\ vals' = ValuesRead(quantvals)
  BY DEF ReadLattice
<1>2. /\ s.used_entries \in Nat /\ s.entries \in Nat
      /\ s.used_entries <= s.entries /\ s.entries < TwoTo(24)
      /\ s.used_entries < TwoTo(24) /\ s.dim \in Nat \ {0}
  BY <1>1, FewEntries DEF Listed
<1>3. /\ s.dim = sent.dim /\ s.entries = sent.entries /\ s.dim # 0
      /\ s.q_bits \in Nat /\ quantvals \in Nat \ {0}
      /\ s.entries > 0 => Power(quantvals, s.dim) <= s.entries
  BY <1>1 DEF Sizing, Listed
<1>4. sent.maptype = 1
  BY <1>1 DEF BInv, Pointers
<1>5. s.entries > 0 => quantvals <= s.entries
  <2> DEFINE w == Power(quantvals, s.dim)
  <2>1. w \in Nat /\ quantvals <= w
    BY <1>2, <1>3, PowerGrows
  <2>2. s.entries > 0 => w <= s.entries
    BY <1>3
  <2> HIDE DEF w
  <2> QED
    BY <1>2, <1>3, <2>1, <2>2
<1>6. ASSUME NEW book, DOMAIN book = DOMAIN NoBook, book.dim = s.dim,
             book.entries = s.entries, book.used_entries = s.used_entries,
             book.q_bits = s.q_bits,
             NEW type \in {1, 2}, NEW width, s' = Sized(book, type, width),
             s.used_entries >= 2 => width \in 1..4,
             type = 1 => s.q_bits * s.dim <= 31,
             type = 2 /\ s.entries > 0 =>
               book.q_pack \in Nat /\ book.q_pack * s.dim <= 32
      PROVE  Sizing'
  <2>1. /\ s'.dim = s.dim /\ s'.entries = s.entries
        /\ s'.used_entries = s.used_entries /\ s'.q_bits = s.q_bits
        /\ s'.q_pack = book.q_pack /\ s'.dec_type = type
        /\ s'.dec_nodeb = determine_node_bytes(s.used_entries, width)
    BY <1>6, SizedFields
  <2>2. NodeSized(s')
    <3>1. CASE s.used_entries < 2
      <4>1. s'.dec_nodeb = 4
        BY <2>1, <3>1 DEF determine_node_bytes
      <4> QED
        BY <4>1 DEF NodeSized
    <3>2. CASE ~(s.used_entries < 2)
      <4>1. width \in 1..4
        BY <1>2, <1>6, <3>2
      <4> QED
        BY <1>2, <1>6, <4>1, SizedNodes
    <3> QED
      BY <3>1, <3>2
  <2>3. NodeSized(s)'
    BY <2>2 DEF NodeSized
  <2>4. vals' = ValuesRead(quantvals)'
    BY <1>1, <2>1 DEF ValuesRead
  <2> QED
    BY <1>1, <1>2, <1>3, <1>4, <1>5, <1>6, <2>1, <2>3, <2>4 DEF Sizing, Making
<1>7. CASE LatticePacked
  <2>1. s' = Sized(s, 1, PackedWidth(s)) /\ PackedWidth(s) <= 4
    BY <1>1, <1>7 DEF LatticePacked
  <2>2. s.q_bits * s.dim \in Nat
    BY <1>2, <1>3
  <2>3. PackedWidth(s) = LeafBytes(s.q_bits * s.dim)
    BY DEF PackedWidth
  <2>4. PackedWidth(s) \in 1..4 /\ s.q_bits * s.dim <= 31
    <3> DEFINE w == PackedWidth(s)
    <3>1. w \in Nat \ {0} /\ w <= 4 /\ (w <= 4 <=> s.q_bits * s.dim <= 31)
      BY <2>1, <2>2, <2>3, LeafWidth
    <3> HIDE DEF w
    <3>2. w \in 1..4 /\ s.q_bits * s.dim <= 31
      BY <3>1
    <3> QED
      BY <3>2 DEF w
  <2> DEFINE width == PackedWidth(s)
  <2> HIDE DEF width
  <2>5. s' = Sized(s, 1, width) /\ width \in 1..4
    BY <2>1, <2>4 DEF width
  <2> QED
    BY <1>6, <2>4, <2>5
<1>8. CASE ~LatticePacked
  <2> DEFINE k == LatticePack
             book == [s EXCEPT !.q_pack = k]
             width == LeafBytes(k * s.dim)
  <2>1. s' = Sized(book, 2, width) /\ k * s.dim <= 32
    <3>1. WordBits = 32
      BY DEF RealWidths, WordBits
    <3> QED
      BY <1>1, <1>8, <3>1
  <2>2. /\ DOMAIN book = DOMAIN NoBook /\ book.dim = s.dim
        /\ book.entries = s.entries /\ book.used_entries = s.used_entries
        /\ book.q_bits = s.q_bits /\ book.q_pack = k
    <3> HIDE DEF k
    <3> QED
      BY BookFields
  <2>3. ASSUME s.entries > 0 PROVE k \in Nat /\ k * s.dim <= 31
    <3> DEFINE q == quantvals
               d == s.dim
    <3>1. /\ q \in Nat \ {0} /\ q < TwoTo(24) /\ d \in Nat \ {0}
          /\ TwoTo(24) \in Nat
      BY <1>2, <1>3, <1>5, <2>3, Thirty
    <3>2. Power(q, d) < TwoTo(24) /\ ilog(q - 1) * d <= 32
      <4>1. Power(q, d) \in Nat
        BY <3>1, PowerGrows
      <4>2. Power(q, d) <= s.entries
        BY <1>3, <2>3
      <4> DEFINE w == Power(q, d)
      <4> HIDE DEF w
      <4>3. w < TwoTo(24)
        BY <1>2, <3>1, <4>1, <4>2 DEF w
      <4> QED
        BY <2>1, <4>3 DEF w, LatticePack
    <3> HIDE DEF q, d
    <3>3. ilog(q - 1) * d <= 31
      BY <3>1, <3>2, LatticeFits
    <3>4. ilog(q - 1) \in 0..30
      <4>1. q - 1 \in Nat /\ q - 1 < TwoTo(30)
        BY <3>1, Thirty
      <4> DEFINE v == q - 1
      <4> HIDE DEF v
      <4>2. ilog(v) \in 0..30
        BY <4>1, IlogSmall DEF v
      <4> QED
        BY <4>2 DEF v
    <3> QED
      BY <3>3, <3>4 DEF q, d, LatticePack
  <2>4. s.entries > 0 => width \in 1..4
    <3> SUFFICES ASSUME s.entries > 0 PROVE width \in 1..4
      OBVIOUS
    <3> DEFINE x == k * s.dim
    <3>1. x \in Nat /\ x <= 31
      <4> HIDE DEF k
      <4> QED
        BY <1>2, <2>3
    <3> HIDE DEF x
    <3>2. LeafBytes(x) \in Nat \ {0} /\ LeafBytes(x) <= 4
      BY <3>1, LeafWidth
    <3>3. LeafBytes(x) \in 1..4
      BY <3>2
    <3> QED
      BY <3>3 DEF x
  <2> HIDE DEF book, k, width
  <2>5. s.used_entries >= 2 => s.entries > 0
    BY <1>2
  <2>6. s.entries > 0 => k * s.dim <= 32 /\ k \in Nat
    BY <1>2, <2>1, <2>3
  <2> QED
    BY <1>6, <2>1, <2>2, <2>4, <2>5, <2>6
<1> QED
  BY <1>7, <1>8

LEMMA SizingStep ==
  ASSUME RealWidths, BInv, Lists, Searching, Sizing, [DecodeNext]_allVars
  PROVE  Sizing'
<1>0. DOMAIN s = DOMAIN NoBook
  BY DEF BInv, Pointers
<1>1. ASSUME NEW h, NEW listed, Refuse(h, listed) PROVE Sizing'
  BY <1>1 DEF Refuse, Sizing, Growing, Listed, Making
<1>2. ASSUME RefuseWords PROVE Sizing'
  BY <1>1, <1>2, Zenon DEF RefuseWords
<1>3. ASSUME pc' \notin {"ordering", "pack"} \cup Growing \cup Listed
      PROVE  Sizing'
  BY <1>3 DEF Sizing, Growing, Listed, Making
(* Nothing it says is changed.                                             *)
<1>4. ASSUME pc \in Making, pc' \in Making, UNCHANGED <<sent, quantvals, vals>>,
             \/ s' = s
             \/ s' = [s EXCEPT !.dec_table = InPlace]
      PROVE  Sizing'
  <2>1. /\ s'.dim = s.dim /\ s'.entries = s.entries
        /\ s'.used_entries = s.used_entries /\ s'.q_bits = s.q_bits
        /\ s'.q_pack = s.q_pack /\ s'.dec_type = s.dec_type
        /\ s'.dec_nodeb = s.dec_nodeb /\ s'.dec_leafw = s.dec_leafw
    BY <1>0, <1>4, BookFields
  <2>2. NodeSized(s)' <=> NodeSized(s)
    BY <2>1 DEF NodeSized
  <2>3. ValuesRead(quantvals)' = ValuesRead(quantvals)
    BY <1>4, <2>1 DEF ValuesRead
  <2>4. /\ s.dim = sent.dim /\ s.entries = sent.entries /\ s.dim # 0
        /\ s.q_bits \in Nat
        /\ s.used_entries \in Nat /\ s.used_entries <= s.entries
        /\ s.dec_type = 1 => s.q_bits * s.dim <= 31
        /\ s.dec_type = 2 /\ s.entries > 0 =>
             s.q_pack \in Nat /\ s.q_pack * s.dim <= 32
        /\ sent.maptype = 1 => /\ quantvals \in Nat \ {0}
                               /\ vals = ValuesRead(quantvals)
                               /\ s.entries > 0 => quantvals <= s.entries
        /\ NodeSized(s)
    BY <1>4 DEF Sizing, Making, Listed
  <2>5. /\ s'.dim = sent'.dim /\ s'.entries = sent'.entries /\ s'.dim # 0
        /\ s'.q_bits \in Nat
    BY <1>4, <2>1, <2>4
  <2>6. /\ s'.used_entries \in Nat /\ s'.used_entries <= s'.entries
        /\ s'.dec_type = 1 => s'.q_bits * s'.dim <= 31
        /\ s'.dec_type = 2 /\ s'.entries > 0 =>
             s'.q_pack \in Nat /\ s'.q_pack * s'.dim <= 32
    BY <2>1, <2>4
  <2>7. sent'.maptype = 1 => /\ quantvals' \in Nat \ {0}
                             /\ vals' = ValuesRead(quantvals)'
                             /\ s'.entries > 0 => quantvals' <= s'.entries
    BY <1>4, <2>1, <2>3, <2>4
  <2>8. pc' # "values"
    BY <1>4 DEF Making
  <2> QED
    BY <2>2, <2>4, <2>5, <2>6, <2>7, <2>8 DEF Sizing
<1>5. CASE ReadParameters
  <2>1. CASE ~Refuse(heap, FALSE)
    <3>1. /\ pc' = "ordering" /\ sent' = sent /\ sent.dim >= 1
          /\ s' = [s EXCEPT !.dim = sent.dim, !.entries = sent.entries]
      BY <1>5, <2>1 DEF ReadParameters
    <3>2. s'.dim = sent.dim /\ s'.entries = sent.entries
      BY <1>0, <3>1, BookFields
    <3>3. sent.dim # 0
      BY <3>1
    <3> QED
      BY <3>1, <3>2, <3>3 DEF Sizing, Making
  <2> QED
    BY <1>1, <2>1, Zenon
<1>6. ASSUME pc \in {"ordering"} \cup Growing \cup Listed,
             pc' \in Growing \cup {"mapping"}, sent' = sent,
             s'.dim = s.dim, s'.entries = s.entries
      PROVE  Sizing'
  <2>1. /\ pc' \notin {"quantvals", "lattice", "values"} \cup Making
        /\ pc' # "values" /\ pc' \notin Making
    BY <1>6 DEF Growing, Making
  <2> QED
    BY <1>6, <2>1 DEF Sizing
<1>7. CASE ReadOrdering
  <2>1. CASE ~Refuse(heap, FALSE)
    <3>1. /\ pc = "ordering" /\ sent' = sent
          /\ pc' \in {"mapping", "runs", "lengths"}
          /\ \E x : s' = [s EXCEPT !.used_entries = x]
      BY <1>7, <2>1 DEF ReadOrdering
    <3>2. s'.dim = s.dim /\ s'.entries = s.entries
      BY <1>0, <3>1, BookFields
    <3> QED
      BY <1>6, <3>1, <3>2 DEF Growing
  <2> QED
    BY <1>1, <2>1, Zenon
<1>8. CASE ReadLength
  <2>1. CASE ~Refuse(heap, TRUE)
    <3>1. /\ pc = "lengths" /\ sent' = sent /\ pc' \in {"mapping", "lengths"}
          /\ \E x, y : s' = [s EXCEPT !.used_entries = x, !.dec_maxlength = y]
      BY <1>8, <2>1, Zenon DEF ReadLength, NextListed
    <3>2. s'.dim = s.dim /\ s'.entries = s.entries
      BY <1>0, <3>1, BookFields
    <3> QED
      BY <1>6, <3>1, <3>2 DEF Growing
  <2> QED
    BY <1>1, <2>1, Zenon
<1>9. CASE ReadRun
  <2>1. CASE ~Refuse(heap, TRUE)
    <3>1. /\ pc = "runs" /\ sent' = sent /\ pc' \in {"mapping", "runs"}
          /\ s' = [s EXCEPT !.dec_maxlength = length]
      BY <1>9, <2>1 DEF ReadRun, NextListed
    <3>2. s'.dim = s.dim /\ s'.entries = s.entries
      BY <1>0, <3>1, BookFields
    <3> QED
      BY <1>6, <3>1, <3>2 DEF Growing
  <2> QED
    BY <1>1, <2>1, Zenon
<1>10. CASE ReadMapping
  BY <1>0, <1>1, <1>10, SizingMaps
<1>11. CASE PolishQuantvals
  <2>1. /\ pc = "quantvals" /\ pc' \in {"quantvals", "lattice"}
        /\ UNCHANGED <<sent, s>>
    BY <1>11 DEF PolishQuantvals
  <2>2. /\ s.dim = sent.dim /\ s.entries = sent.entries /\ s.dim # 0
        /\ s.q_bits \in Nat
    BY <2>1 DEF Sizing, Listed
  <2> QED
    BY <2>1, <2>2 DEF Sizing, Making
<1>12. CASE AllocLattice
  <2>1. CASE ~Refuse(heap, TRUE)
    <3>1. /\ pc = "lattice" /\ pc' = "values" /\ UNCHANGED <<sent, quantvals>>
          /\ s' = [s EXCEPT !.q_val = TRUE]
      BY <1>12, <2>1 DEF AllocLattice
    <3>2. s'.dim = s.dim /\ s'.entries = s.entries /\ s'.q_bits = s.q_bits
      BY <1>0, <3>1, BookFields
    <3>3. /\ s.dim = sent.dim /\ s.entries = sent.entries /\ s.dim # 0
          /\ s.q_bits \in Nat
      BY <3>1 DEF Sizing, Listed
    <3>4. quantvals \in Nat \ {0}
      BY <3>1 DEF Searching
    <3>5. s.entries > 0 => Power(quantvals, s.dim) <= s.entries
      BY <3>1, SearchTells DEF QuantvalsExact
    <3> QED
      BY <3>1, <3>2, <3>3, <3>4, <3>5 DEF Sizing, Making
  <2> QED
    BY <1>1, <2>1, Zenon
<1>13. CASE ReadLattice
  BY <1>0, <1>1, <1>13, SizingValues
<1>14. CASE AllocWords
  <2>1. CASE ~Refuse(heap, TRUE)
    <3>1. /\ pc = "table" /\ pc' \in {"words", "pack"}
          /\ s' = [s EXCEPT !.dec_table = InPlace]
          /\ UNCHANGED <<sent, quantvals, vals>>
      BY <1>14, <2>1 DEF AllocWords
    <3> QED
      BY <1>4, <3>1 DEF Making
  <2> QED
    BY <1>1, <2>1, Zenon
<1>15. CASE SkipEntry \/ ChaseTree \/ PlantLeaf \/ EndWords
  <2>1. CASE ~RefuseWords
    <3>1. /\ pc = "words" /\ pc' \in {"words", "pack"} /\ s' = s
          /\ UNCHANGED <<sent, quantvals, vals>>
      BY <1>15, <2>1 DEF SkipEntry, ChaseTree, PlantLeaf, EndWords
    <3> QED
      BY <1>4, <3>1 DEF Making
  <2> QED
    BY <1>2, <2>1
<1>16. CASE PackTable \/ ReadScalars \/ Finish \/ Clear
  <2>1. pc' \in {"scalars", "end", "ok", "refused", "cleared"}
    BY <1>16 DEF PackTable, ReadScalars, Finish, Clear, vorbis_book_clear,
                 RefuseWords, Refuse
  <2> QED
    BY <1>3, <2>1 DEF Growing, Listed
<1>17. CASE \/ StartCall \/ NextVector \/ LookAhead \/ WalkBit \/ WalkEnds
            \/ UseEntry \/ UNCHANGED allVars
  <2>1. UNCHANGED <<sent, pc, s, quantvals, vals>>
    BY <1>17, Zenon DEF StartCall, NextVector, LookAhead, WalkBit, WalkEnds, UseEntry,
                 Return, vars, allVars
  <2>2. NodeSized(s)' <=> NodeSized(s)
    BY <2>1 DEF NodeSized
  <2>3. ValuesRead(quantvals)' = ValuesRead(quantvals)
    BY <2>1 DEF ValuesRead
  <2> QED
    BY <2>1, <2>2, <2>3 DEF Sizing
<1> QED
  BY <1>5, <1>7, <1>8, <1>9, <1>10, <1>11, <1>12, <1>13, <1>14, <1>15, <1>16,
     <1>17 DEF DecodeNext, Unpack, vorbis_book_unpack
-----------------------------------------------------------------------------
(* The tree while its words are planted, and when they all are.            *)

LEMMA WordTop ==
  ASSUME RealWidths
  PROVE  TopBit(WordBits) = 2147483648 /\ WordBits = 32
<1>1. WordBits = 32 /\ 32 - 1 = 31
  BY DEF RealWidths, WordBits
<1>2. TwoTo(31) = 2147483648
  BY SMT DEF TwoTo
<1>3. TopBit(WordBits) = TwoTo(31)
  BY <1>1 DEF TopBit, TwoTo
<1> QED
  BY <1>1, <1>2, <1>3, SMT

LEMMA FieldsAreNat ==
  ASSUME NEW d, s.dim = d, d \in Nat, NEW v, v \in [0..(d - 1) -> Nat],
         NEW bits, bits \in Nat, bits * d <= 32
  PROVE  Fields(v, bits) \in Nat
<1>1. s.dim \in Nat /\ v \in [0..(s.dim - 1) -> Nat] /\ bits * s.dim <= 32
  BY Zenon
<1>2. \E p : p \in [0..s.dim -> Nat] /\ Fields(v, bits) = p[s.dim]
  BY <1>1, FieldsEquation, Zenon
<1>3. s.dim \in 0..s.dim
  BY <1>1
<1> QED
  BY <1>2, <1>3

(* A leaf is a number, whatever its entry stands for.                      *)
LEMMA LeafIsNat ==
  ASSUME RealWidths, sent \in Shapes, Typed, s.dim \in Nat \ {0},
         s.dim = sent.dim, s.entries = sent.entries, s.entries \in Nat,
         s.q_bits \in Nat, s.dec_type = 1 => s.q_bits * s.dim <= 31,
         s.dec_type = 2 => s.q_pack \in Nat /\ s.q_pack * s.dim <= 32,
         sent.maptype = 1 => /\ quantvals \in Nat \ {0}
                             /\ vals = ValuesRead(quantvals)
                             /\ quantvals <= s.entries,
         NEW e \in Nat, NEW c \in Nat, c < s.entries, NEW spoilt
  PROVE  decpack(e, c, spoilt) \in Nat
<1> DEFINE d == s.dim
           offsets == [j \in 0..(d - 1) |-> Offset(e, j)]
           packed  == [j \in 0..(d - 1) |->
                        IF sent.maptype = 1 THEN vals[offsets[j]]
                        ELSE Values[c * d + j] % 2 ^ s.q_bits]
           a == IF spoilt THEN 0 ELSE Fields(packed, s.q_bits)
           b == Fields(offsets, s.q_pack)
<1>1. decpack(e, c, spoilt) = CASE s.dec_type = 0 -> e
                                [] s.dec_type = 1 -> a
                                [] s.dec_type = 2 -> b
                                [] s.dec_type = 3 -> c
  BY SMT DEF decpack
<1>2. ASSUME sent.maptype = 1, NEW j \in 0..(d - 1)
      PROVE  Offset(e, j) \in 0..(quantvals - 1)
  <2>1. j \in Nat /\ quantvals \in Nat \ {0}
    BY <1>2
  <2>2. Offset(e, j) \in Nat /\ Offset(e, j) < quantvals
    BY <2>1, OffsetIn
  <2> QED
    BY <2>1, <2>2
<1>3. d \in Nat \ {0} /\ d = s.dim
  OBVIOUS
<1>4. /\ \A n \in DOMAIN Values : Values[n] \in Nat
      /\ 0..(s.entries * d - 1) \subseteq DOMAIN Values
  BY SentMapping
<1>5. ASSUME s.dec_type = 1 PROVE a \in Nat
  <2>1. s.q_bits \in 0..32 /\ s.q_bits * d <= 32
    <3> DEFINE p == s.q_bits * d
    <3>1. p >= s.q_bits /\ p <= 31 /\ p \in Nat /\ s.q_bits \in Nat
      <4>1. s.q_bits * (d - 1) >= 0 /\ s.q_bits * d = s.q_bits * (d - 1) + s.q_bits
        BY <1>3
      <4> QED
        BY <1>3, <1>5, <4>1
    <3> HIDE DEF p
    <3>2. s.q_bits \in 0..32 /\ p <= 32
      BY <3>1
    <3> QED
      BY <3>2 DEF p
  <2>2. TwoTo(s.q_bits) \in Nat \ {0}
    BY <2>1, Doubling
  <2>3. ASSUME NEW n \in 0..(s.entries * d - 1)
        PROVE  Values[n] % 2 ^ s.q_bits \in Nat
    <3>1. Values[n] \in Nat
      BY <1>4
    <3>2. 2 ^ s.q_bits = TwoTo(s.q_bits)
      BY DEF TwoTo
    <3> DEFINE z == TwoTo(s.q_bits)
    <3>3. z \in Nat \ {0}
      BY <2>2
    <3> HIDE DEF z
    <3>4. Values[n] % z \in Nat
      BY <3>1, <3>3
    <3> QED
      BY <3>2, <3>4 DEF z
  <2>4. ASSUME NEW j \in 0..(d - 1) PROVE packed[j] \in Nat
    <3>1. CASE sent.maptype = 1
      <4>1. offsets[j] = Offset(e, j) /\ Offset(e, j) \in 0..(quantvals - 1)
        BY <1>2, <3>1
      <4> DEFINE n == Offset(e, j)
      <4>2. packed[j] = vals[n]
        BY <3>1, <4>1
      <4>3. vals[n] = Values[n] % 2 ^ s.q_bits
        BY <3>1, <4>1 DEF ValuesRead
      <4>4. n \in 0..(s.entries * d - 1)
        <5>1. n \in Nat /\ n < s.entries
          BY <3>1, <4>1
        <5> HIDE DEF n
        <5>2. s.entries * d >= s.entries
          <6>1. /\ s.entries * (d - 1) >= 0
                /\ s.entries * d = s.entries * (d - 1) + s.entries
            BY <1>3
          <6> QED
            BY <1>3, <6>1
        <5>3. s.entries * d \in Nat
          BY <1>3
        <5> QED
          BY <5>1, <5>2, <5>3
      <4> QED
        BY <2>3, <4>2, <4>3, <4>4
    <3>2. CASE sent.maptype # 1
      <4> DEFINE n == c * d + j
      <4>1. n \in 0..(s.entries * d - 1)
        <5>1. (s.entries - c - 1) * d >= 0
          BY <1>3
        <5>2. (s.entries - c - 1) * d = s.entries * d - c * d - d
          BY <1>3
        <5>3. c * d \in Nat /\ s.entries * d \in Nat /\ j < d /\ j \in Nat
          BY <1>3
        <5> QED
          BY <1>3, <5>1, <5>2, <5>3
      <4>2. packed[j] = Values[n] % 2 ^ s.q_bits
        BY <3>2
      <4> QED
        BY <2>3, <4>1, <4>2
    <3> QED
      BY <3>1, <3>2
  <2> HIDE DEF d
  <2>5. packed \in [0..(d - 1) -> Nat]
    BY <2>4
  <2> HIDE DEF packed
  <2>6. s.dim = d /\ s.q_bits \in Nat /\ d \in Nat
    BY <1>3
  <2> QED
    BY <2>1, <2>5, <2>6, FieldsAreNat, Zenon
<1>6. ASSUME s.dec_type = 2 PROVE b \in Nat
  <2>1. sent.maptype = 1
    BY <1>6 DEF Typed
  <2>2. offsets \in [0..(d - 1) -> Nat]
    <3> HIDE DEF d
    <3>1. \A j \in 0..(d - 1) : Offset(e, j) \in Nat
      BY <1>2, <2>1
    <3> QED
      BY <3>1
  <2>3. s.q_pack \in Nat /\ s.q_pack * d <= 32
    BY <1>6
  <2> HIDE DEF d, offsets
  <2>4. s.dim = d /\ d \in Nat
    BY <1>3
  <2> QED
    BY <2>2, <2>3, <2>4, FieldsAreNat, Zenon
<1>7. s.dec_type \in {0, 1, 2, 3}
  BY DEF Typed
<1> HIDE DEF a, b
<1> QED
  BY <1>1, <1>5, <1>6, <1>7
-----------------------------------------------------------------------------
(* The tree has its shape while the words are planted.                     *)

Shaped ==
  /\ pc = "words" => Grown(tree)
  /\ pc = "pack" /\ s.entries > 1 =>
       /\ tree.chase = 0 /\ tree.top \in Nat /\ tree.count = s.used_entries
       /\ Cells(tree, Room) /\ Grown(tree)
       /\ s.used_entries >= 2 => tree.top = s.used_entries - 1

LEMMA NoneGrown ==
  ASSUME NEW t, t.top = 0, t.count = 0, t.chase = 0
  PROVE  Grown(t)
<1>1. LeafCells(t.r, 2 * t.top) = {} /\ Holes(t.r, 2 * t.top) = {}
  BY DEF LeafCells, Holes
<1>2. /\ Cardinality(LeafCells(t.r, 2 * t.top)) = 0
      /\ Cardinality(Holes(t.r, 2 * t.top)) = 0
  BY <1>1, FS_EmptySet
<1>3. \A k : k \notin 0..(t.top - 1)
  OBVIOUS
<1> QED
  BY <1>2, <1>3 DEF Grown

LEMMA GrownAlike ==
  ASSUME NEW t, NEW u, Grown(t), u.r = t.r, u.top = t.top, u.chase = t.chase,
         u.count = t.count
  PROVE  Grown(u)
BY DEF Grown

(* Where the current word has led.                                         *)
LEMMA CellReached ==
  ASSUME Lists, Planting, Growth, pc = "words", tree.i < s.entries, ~Unfit,
         CurrentLength > 0, ~NoRoom
  PROVE  /\ tree.count \in Nat /\ tree.chase \in Nat /\ tree.top \in Nat
         /\ CurrentBit \in {0, 1}
         /\ tree.chase < tree.top \/ (tree.chase = tree.top /\ CurrentBit = 0)
         /\ tree.chase < tree.top =>
              /\ tree.r[2 * tree.chase + CurrentBit] \in Nat
              /\ tree.r[2 * tree.chase + CurrentBit] < tree.top
              /\ tree.j = CurrentLength - 1 =>
                   tree.r[2 * tree.chase + CurrentBit] = 0
         /\ Cells(tree, Room) /\ 2 * tree.chase + 1 < Room
<1>1. CurrentLength \in 1..MaxLength
  BY Reaching
<1>2. PICK stop, ways : Placed(tree, ways, stop)
                          /\ Chased(tree, ways, CurrentLength, stop)
  BY Reaching
<1>3. tree.count \in Nat
  <2>1. tree.i \in Nat /\ Tally(lengthlist, tree.i, tree.count)
    BY NextEntry DEF Planting
  <2> QED
    BY <2>1, WordsAreFinite DEF Tally
<1>4. /\ tree.chase \in Nat /\ tree.top \in Nat /\ CurrentBit \in {0, 1}
      /\ tree.chase < tree.top \/ (tree.chase = tree.top /\ CurrentBit = 0)
      /\ tree.chase < tree.top =>
           /\ tree.r[2 * tree.chase + CurrentBit] \in Nat
           /\ tree.r[2 * tree.chase + CurrentBit] < tree.top
      /\ tree.chase < tree.top /\ tree.j = CurrentLength - 1 =>
           tree.r[2 * tree.chase + CurrentBit] = 0
  <2> DEFINE L == CurrentLength
  <2>1. L \in 1..MaxLength /\ Chased(tree, ways, L, stop)
    BY <1>1, <1>2
  <2> HIDE DEF L
  <2>2. LET bit == Bit(tree.marker[L], L, tree.j)
            w   == tree.r[2 * tree.chase + bit]
        IN  /\ tree.chase \in Nat /\ tree.top \in Nat /\ bit \in {0, 1}
            /\ tree.chase < tree.top \/ (tree.chase = tree.top /\ bit = 0)
            /\ tree.chase < tree.top => w \in Nat /\ w < tree.top
            /\ tree.chase < tree.top /\ tree.j = L - 1 => w = 0
    BY <1>2, <1>3, <2>1, ReachedCell
  <2>3. CurrentBit = Bit(tree.marker[L], L, tree.j)
    BY CurrentBitIs DEF L
  <2> HIDE DEF CurrentBit
  <2> QED
    BY <2>2, <2>3 DEF L
<1>5. Cells(tree, Room)
  BY DEF Growth
<1>6. 2 * tree.chase + 1 < Room
  <2>1. Room \in Int /\ tree.chase \in Nat
    BY <1>4, <1>5 DEF Cells
  <2> QED
    BY <2>1 DEF NoRoom
<1> HIDE DEF CurrentBit, CurrentLength
<1> QED
  BY <1>3, <1>4, <1>5, <1>6, Zenon

LEMMA WordIsLong ==
  ASSUME Lists, Planting, pc = "words", tree.i < s.entries,
         tree.j < CurrentLength - 1 \/ tree.j = CurrentLength - 1
  PROVE  CurrentLength > 0
<1>1. CurrentLength \in Lengths
  BY NextEntry
<1>2. CurrentLength \in Nat /\ tree.j \in Nat
  BY <1>1, LengthsFit DEF Lengths, Planting
<1> HIDE DEF CurrentLength
<1> QED
  BY <1>2

LEMMA ShapedChases ==
  ASSUME RealWidths, Lists, Planting, Growth, Sizing, Shaped, ChaseTree,
         ~RefuseWords
  PROVE  Grown(tree')
<1>1. /\ pc = "words" /\ tree.i < s.entries /\ ~NoRoom /\ ~Unfit
      /\ tree.j < CurrentLength - 1
  BY DEF ChaseTree
<1>2. DOMAIN tree = DOMAIN NoTree /\ tree.j \in Nat
  BY DEF Planting
<1>3. Goes(tree, tree', CurrentBit)
  BY <1>2, ChaseGoes
<1>4. CurrentLength > 0
  BY <1>1, WordIsLong
<1>5. /\ tree.count \in Nat /\ tree.chase \in Nat /\ tree.top \in Nat
      /\ CurrentBit \in {0, 1}
      /\ tree.chase < tree.top \/ (tree.chase = tree.top /\ CurrentBit = 0)
      /\ tree.chase < tree.top =>
           /\ tree.r[2 * tree.chase + CurrentBit] \in Nat
           /\ tree.r[2 * tree.chase + CurrentBit] < tree.top
      /\ Cells(tree, Room) /\ 2 * tree.chase + 1 < Room
  BY <1>1, <1>4, CellReached
<1>6. TopBit(WordBits) \in Nat /\ tree.top + 1 < TopBit(WordBits)
  <2>1. s.used_entries \in Nat /\ s.used_entries < TwoTo(24)
    BY <1>1, FewEntries DEF Listed
  <2>2. TwoTo(24) = 16777216 /\ TopBit(WordBits) = 2147483648
    BY Thirty, WordTop
  <2>3. Room <= 2 * s.used_entries + 1
    BY <2>1 DEF Room
  <2>4. tree.top > 0 => 2 * tree.top <= Room
    BY <1>5 DEF Cells
  <2>5. Room \in Int
    BY <1>5 DEF Cells
  <2> QED
    BY <1>5, <2>1, <2>2, <2>3, <2>4, <2>5
<1>7. Grown(tree)
  BY <1>1 DEF Shaped
<1> DEFINE bit == CurrentBit
<1> HIDE DEF bit
<1>8. /\ bit \in {0, 1} /\ Goes(tree, tree', bit)
      /\ tree.chase < tree.top \/ (tree.chase = tree.top /\ bit = 0)
      /\ tree.chase < tree.top => /\ tree.r[2 * tree.chase + bit] \in Nat
                                  /\ tree.r[2 * tree.chase + bit] < tree.top
  BY <1>3, <1>5 DEF bit
<1> QED
  BY <1>5, <1>6, <1>7, <1>8, GrownChases
LEMMA ShapedPlants ==
  ASSUME RealWidths, BInv, Lists, Planting, Growth, Sizing, Shaped, PlantLeaf,
         ~RefuseWords
  PROVE  Grown(tree')
<1> DEFINE leaf == LeafOf(decpack(tree.i, tree.count, opb'))
           bit == CurrentBit
<1>1. /\ pc = "words" /\ tree.i < s.entries /\ ~NoRoom /\ ~Unfit
      /\ tree.j = CurrentLength - 1
  BY DEF PlantLeaf
<1>2. DOMAIN tree = DOMAIN NoTree
  BY DEF Planting
<1>3. Plants(tree, tree', CurrentLength, CurrentBit, leaf) /\ tree'.chase = 0
  BY <1>2, LeafPlants
<1>4. CurrentLength > 0
  BY <1>1, WordIsLong
<1>5. /\ tree.count \in Nat /\ tree.chase \in Nat /\ tree.top \in Nat
      /\ CurrentBit \in {0, 1}
      /\ tree.chase < tree.top \/ (tree.chase = tree.top /\ CurrentBit = 0)
      /\ tree.chase < tree.top => tree.r[2 * tree.chase + CurrentBit] = 0
      /\ Cells(tree, Room) /\ 2 * tree.chase + 1 < Room
  BY <1>1, <1>4, CellReached
<1>6. /\ s.entries \in Nat /\ s.dim \in Nat \ {0} /\ sent \in Shapes
      /\ Typed /\ s.dim = sent.dim /\ s.entries = sent.entries
      /\ s.q_bits \in Nat /\ (s.dec_type = 1 => s.q_bits * s.dim <= 31)
      /\ s.dec_type = 2 => s.q_pack \in Nat /\ s.q_pack * s.dim <= 32
      /\ sent.maptype = 1 => /\ quantvals \in Nat \ {0}
                             /\ vals = ValuesRead(quantvals)
                             /\ quantvals <= s.entries
  <2>1. s.entries \in Nat /\ s.dim \in Nat \ {0}
    BY <1>1, FewEntries DEF Listed
  <2>2. s.entries > 0
    BY <1>1, <2>1 DEF Planting
  <2>3. sent \in Shapes /\ Typed
    BY <1>1 DEF Lists, BInv, Pointers
  <2> QED
    BY <1>1, <2>1, <2>2, <2>3 DEF Sizing, Making, Listed
<1>7. tree.i \in Nat /\ tree.count < s.entries
  <2> DEFINE n == tree.i
             used == {e \in 1..n : lengthlist[e] > 0}
  <2>1. n \in Nat /\ Tally(lengthlist, n, tree.count)
    BY <1>1, NextEntry DEF Planting
  <2>2. used \subseteq 1..n /\ tree.count = Cardinality(used)
    BY <2>1 DEF Tally
  <2> HIDE DEF n, used
  <2>3. IsFiniteSet(1..n) /\ Cardinality(1..n) = n
    <3>1. 1 \in Int /\ n \in Int
      BY <2>1
    <3>2. /\ IsFiniteSet(1..n)
          /\ Cardinality(1..n) = IF 1 > n THEN 0 ELSE n - 1 + 1
      BY <3>1, FS_Interval
    <3> QED
      BY <2>1, <3>2
  <2>4. Cardinality(used) <= Cardinality(1..n)
    BY <2>2, <2>3, FS_Subset
  <2>5. tree.count <= n
    BY <2>2, <2>3, <2>4
  <2>6. n < s.entries
    BY <1>1 DEF n
  <2> QED
    BY <1>5, <1>6, <2>1, <2>5, <2>6 DEF n
<1>8. leaf \in Nat /\ IsLeaf(leaf)
  <2>1. decpack(tree.i, tree.count, opb') \in Nat
    BY <1>5, <1>6, <1>7, LeafIsNat
  <2>2. TopBit(WordBits) = 2147483648
    BY WordTop
  <2> DEFINE v == decpack(tree.i, tree.count, opb')
  <2>3. leaf = TopBit(WordBits) + v
    BY DEF LeafOf
  <2> HIDE DEF v
  <2>4. v \in Nat
    BY <2>1 DEF v
  <2> QED
    BY <2>2, <2>3, <2>4 DEF IsLeaf
<1>9. TopBit(WordBits) \in Nat /\ TopBit(WordBits) > 0
  BY WordTop
<1>10. Grown(tree)
  BY <1>1 DEF Shaped
<1>11. Plants(tree, tree', CurrentLength, bit, leaf)
  BY <1>3
<1> HIDE DEF leaf, bit
<1>12. /\ bit \in {0, 1}
       /\ tree.chase < tree.top \/ (tree.chase = tree.top /\ bit = 0)
       /\ tree.chase < tree.top => tree.r[2 * tree.chase + bit] = 0
  BY <1>5 DEF bit
<1> QED
  BY <1>3, <1>5, <1>8, <1>9, <1>10, <1>11, <1>12, GrownPlants

(* When the words are all planted no place is left over.                   *)
LEMMA ShapedEnds ==
  ASSUME Lists, Planting, Growth, Shaped, pc = "words", tree.j = 0, ~Unfit,
         tree.i = s.entries
  PROVE  /\ tree.chase = 0 /\ tree.top \in Nat /\ tree.count = s.used_entries
         /\ Cells(tree, Room) /\ Grown(tree)
         /\ s.used_entries >= 2 => tree.top = s.used_entries - 1
<1>1. tree.chase = 0 /\ tree.top = Base(tree) /\ Cells(tree, Room)
  BY DEF Growth
<1>2. Grown(tree)
  BY DEF Shaped
<1>3. /\ Tally(lengthlist, Len(lengthlist), s.used_entries)
      /\ s.used_entries \in Nat
  BY UsedTally
<1>4. Len(lengthlist) = s.entries
  BY DEF Lists, Listed
<1>5. tree.count = s.used_entries
  BY <1>3, <1>4 DEF Tally, Planting
<1>6. ASSUME s.used_entries >= 2
      PROVE  tree.top = s.used_entries - 1
  <2>1. Good(tree.marker)
    BY <1>3, <1>5, <1>6 DEF Planting
  <2>2. ~Underpopulated(tree.marker)
    BY <1>3, <1>5, <1>6 DEF Unfit
  <2>3. ASSUME NEW j \in 1..MaxLength, tree.marker[j] % 2 = 1
        PROVE  FALSE
    <3> DEFINE v == tree.marker[j]
               z == TwoTo(j)
    <3>1. j \in 0..MaxLength /\ j \in Nat
      BY LengthsFit
    <3>2. v \in Nat /\ v < z
      BY <2>1, <3>1, MarkerFits
    <3>3. v % z = 0
      BY <2>2 DEF Underpopulated, TwoTo
    <3>4. z \in Nat
      <4>1. j \in 0..32
        BY LengthsFit
      <4> QED
        BY <4>1, Doubling
    <3>5. v % 2 = 1
      BY <2>3
    <3> HIDE DEF v, z
    <3>6. v % z = v
      BY <3>2, <3>4
    <3> QED
      BY <3>3, <3>5, <3>6
  <2>4. Odd(tree.marker) = {}
    BY <2>3 DEF Odd
  <2>5. Cardinality(Odd(tree.marker)) = 0
    BY <2>4, FS_EmptySet
  <2> QED
    BY <1>1, <1>3, <1>5, <1>6, <2>5 DEF Base
<1>7. tree.top \in Nat
  BY <1>1 DEF Cells
<1> QED
  BY <1>1, <1>2, <1>5, <1>6, <1>7
LEMMA ShapedStarts ==
  ASSUME DOMAIN s = DOMAIN NoBook, Lists, AllocWords, ~Refuse(heap, TRUE)
  PROVE  Shaped'
<1> DEFINE cells == [a \in 0..(Room - 1) |->
                       IF s.entries < 2 /\ a = 0 THEN LeafOf(0) ELSE Unset]
<1>1. /\ pc = "table" /\ s' = [s EXCEPT !.dec_table = InPlace]
      /\ tree' = [NoTree EXCEPT !.r = cells]
      /\ pc' = IF s.entries < 2 THEN "pack" ELSE "words"
  BY DEF AllocWords
<1> HIDE DEF cells
<1>2. tree'.top = 0 /\ tree'.count = 0 /\ tree'.chase = 0
  BY <1>1 DEF NoTree
<1>3. Grown(tree')
  BY <1>2, NoneGrown
<1>4. s.entries \in Nat
  BY <1>1 DEF Lists, Listed
<1>5. s'.entries = s.entries
  BY <1>1, BookFields
<1>6. pc' = "pack" => ~(s'.entries > 1)
  BY <1>1, <1>4, <1>5
<1> QED
  BY <1>3, <1>6 DEF Shaped

LEMMA ShapedStep ==
  ASSUME RealWidths, BInv, Lists, Trees, Growth, Sizing, Shaped,
         [DecodeNext]_allVars
  PROVE  Shaped'
<1>0. DOMAIN s = DOMAIN NoBook
  BY DEF BInv, Pointers
<1>1. ASSUME pc' \notin {"words", "pack"} PROVE Shaped'
  BY <1>1 DEF Shaped
<1>2. ASSUME NEW h, NEW listed, Refuse(h, listed) PROVE Shaped'
  BY <1>1, <1>2 DEF Refuse
<1>3. ASSUME RefuseWords PROVE Shaped'
  BY <1>2, <1>3, Zenon DEF RefuseWords
<1>4. CASE \/ ReadParameters \/ ReadOrdering \/ ReadLength \/ ReadRun
           \/ ReadMapping \/ PolishQuantvals \/ AllocLattice \/ ReadLattice
  <2>1. pc' \notin {"words", "pack"}
    BY <1>4, Zenon
       DEF ReadParameters, ReadOrdering, ReadLength, ReadRun, ReadMapping,
                PolishQuantvals, AllocLattice, ReadLattice, NextListed, Refuse
  <2> QED
    BY <1>1, <2>1
<1>5. CASE AllocWords
  BY <1>0, <1>2, <1>5, ShapedStarts
<1>6. CASE SkipEntry
  <2>1. /\ pc = "words" /\ tree' = [tree EXCEPT !.i = @ + 1] /\ pc' = pc
        /\ DOMAIN tree = DOMAIN NoTree
    BY <1>6 DEF SkipEntry, Trees, Planting
  <2>2. /\ tree'.r = tree.r /\ tree'.top = tree.top
        /\ tree'.chase = tree.chase /\ tree'.count = tree.count
    BY <2>1, TreeFields
  <2>3. Grown(tree')
    BY <2>1, <2>2, GrownAlike DEF Shaped
  <2> QED
    BY <2>1, <2>3 DEF Shaped
<1>7. CASE ChaseTree \/ PlantLeaf
  <2>1. pc = "words"
    BY <1>7 DEF ChaseTree, PlantLeaf
  <2>2. RefuseWords \/ pc' = "words"
    BY <1>7, <2>1 DEF ChaseTree, PlantLeaf
  <2>3. RefuseWords \/ Grown(tree')
    BY <1>7, <2>1, ShapedChases, ShapedPlants DEF Trees
  <2> QED
    BY <1>3, <2>2, <2>3 DEF Shaped
<1>8. CASE EndWords
  <2> SUFFICES ASSUME ~RefuseWords PROVE Shaped'
    BY <1>3
  <2>1. /\ pc = "words" /\ tree.j = 0 /\ ~Unfit /\ tree.i = s.entries
        /\ pc' = "pack" /\ s' = s /\ tree' = tree
    BY <1>8 DEF EndWords
  <2>2. /\ tree.chase = 0 /\ tree.top \in Nat /\ tree.count = s.used_entries
        /\ Cells(tree, Room) /\ Grown(tree)
        /\ s.used_entries >= 2 => tree.top = s.used_entries - 1
    BY <2>1, ShapedEnds DEF Trees
  <2>3. Room' = Room
    BY <2>1 DEF Room, InPlace
  <2> QED
    BY <2>1, <2>2, <2>3 DEF Shaped
<1>9. CASE PackTable \/ ReadScalars \/ Finish \/ Clear
  <2>1. pc' \notin {"words", "pack"}
    BY <1>9 DEF PackTable, ReadScalars, Finish, Clear, vorbis_book_clear,
                RefuseWords, Refuse
  <2> QED
    BY <1>1, <2>1
<1>10. CASE \/ StartCall \/ NextVector \/ LookAhead \/ WalkBit \/ WalkEnds
            \/ UseEntry \/ UNCHANGED allVars
  <2>1. UNCHANGED <<pc, s, tree>>
    BY <1>10, Zenon DEF StartCall, NextVector, LookAhead, WalkBit, WalkEnds, UseEntry,
                 Return, vars, allVars
  <2>2. Room' = Room
    BY <2>1 DEF Room, InPlace
  <2> QED
    BY <2>1, <2>2 DEF Shaped
<1> QED
  BY <1>4, <1>5, <1>6, <1>7, <1>8, <1>9, <1>10 DEF DecodeNext, Unpack,
     vorbis_book_unpack

(* A tree of two words or more is whole: each side of a node is a leaf or  *)
(* leads to a node further on.                                             *)
LEMMA WholeTree ==
  ASSUME NEW t, NEW u, u \in Nat, u >= 2, Grown(t), t.chase = 0, t.top = u - 1,
         t.count = u
  PROVE  /\ \A k \in 0..(u - 2), o \in {0, 1} :
              LET w == t.r[2 * k + o]
              IN  w \in Nat /\ (IsLeaf(w) \/ (k < w /\ w <= u - 2))
         /\ Cardinality(LeafCells(t.r, 2 * u - 2)) = u
<1>1. t.chase < t.top /\ t.top + 1 - t.count = 0 /\ 2 * t.top = 2 * u - 2
      /\ t.top - 1 = u - 2 /\ t.top \in Nat
  OBVIOUS
<1>2. /\ \A k \in 0..(u - 2), o \in {0, 1} :
           LET w == t.r[2 * k + o]
           IN  /\ w \in Nat
               /\ IsLeaf(w) \/ w = 0 \/ (k < w /\ w <= t.top)
               /\ IsLeaf(w) \/ w < t.top
      /\ Cardinality(LeafCells(t.r, 2 * u - 2)) = u
      /\ Cardinality(Holes(t.r, 2 * u - 2)) = 0
  BY <1>1 DEF Grown
<1>3. Holes(t.r, 2 * u - 2) = {}
  <2>1. 2 * u - 2 \in Nat
    OBVIOUS
  <2>2. IsFiniteSet(Holes(t.r, 2 * u - 2))
    BY <2>1, CellsAreFinite
  <2> QED
    BY <1>2, <2>2, FS_EmptySet
<1>4. ASSUME NEW k \in 0..(u - 2), NEW o \in {0, 1}
      PROVE  t.r[2 * k + o] # 0
  <2>1. 2 * k + o \in 0..(2 * u - 2 - 1)
    OBVIOUS
  <2> QED
    BY <1>3, <2>1 DEF Holes
<1>5. ASSUME NEW k \in 0..(u - 2), NEW o \in {0, 1}
      PROVE  LET w == t.r[2 * k + o]
             IN  w \in Nat /\ (IsLeaf(w) \/ (k < w /\ w <= u - 2))
  <2> DEFINE w == t.r[2 * k + o]
  <2>1. /\ w \in Nat /\ (IsLeaf(w) \/ w = 0 \/ (k < w /\ w <= t.top))
        /\ IsLeaf(w) \/ w < t.top
    BY <1>2
  <2>2. w # 0
    BY <1>4
  <2> HIDE DEF w
  <2>3. w \in Nat /\ (IsLeaf(w) \/ (k < w /\ w <= u - 2))
    BY <1>1, <2>1, <2>2
  <2> QED
    BY <2>3 DEF w
<1> QED
  BY <1>2, <1>5
-----------------------------------------------------------------------------
(* Where the nodes of a packed table start: behind the cells of the nodes  *)
(* before and of the low halves of their leaves.                           *)

StartOf(r, k) == 2 * k + Cardinality(LeafCells(r, 2 * k))

LEMMA LeavesOfNode ==
  ASSUME NEW r, NEW k \in Nat
  PROVE  /\ Cardinality(LeafCells(r, 2 * k + 2))
              = Cardinality(LeafCells(r, 2 * k))
                  + Cardinality({o \in {0, 1} : IsLeaf(r[2 * k + o])})
         /\ IsLeaf(r[2 * k]) /\ IsLeaf(r[2 * k + 1]) =>
              NodeCells(r, k) = 4
         /\ NodeCells(r, k) \in 2..4
<1> DEFINE n == 2 * k
           A == LeafCells(r, n)
           sides == {o \in {0, 1} : IsLeaf(r[n + o])}
<1>0. n \in Nat /\ n + 0 = n
  OBVIOUS
<1>1. /\ IsFiniteSet(A) /\ Cardinality(A) \in Nat
      /\ n \notin A /\ n + 1 \notin A
  <2>1. IsFiniteSet(A) /\ Cardinality(A) \in Nat
    BY <1>0, CellsAreFinite
  <2>2. n \notin 0..(n - 1) /\ n + 1 \notin 0..(n - 1)
    BY <1>0
  <2> QED
    BY <2>1, <2>2 DEF LeafCells
<1>2. LeafCells(r, n + 2) = A \cup {a \in {n, n + 1} : IsLeaf(r[a])}
  <2>1. \A a : a \in 0..(n + 2 - 1) <=> a \in 0..(n - 1) \/ a = n \/ a = n + 1
    BY <1>0
  <2> QED
    BY <2>1 DEF LeafCells
<1>3. /\ IsFiniteSet(A \cup {n}) /\ Cardinality(A \cup {n}) = Cardinality(A) + 1
      /\ IsFiniteSet(A \cup {n + 1})
      /\ Cardinality(A \cup {n + 1}) = Cardinality(A) + 1
      /\ Cardinality((A \cup {n}) \cup {n + 1}) = Cardinality(A) + 2
  <2>1. /\ IsFiniteSet(A \cup {n}) /\ Cardinality(A \cup {n}) = Cardinality(A) + 1
        /\ IsFiniteSet(A \cup {n + 1})
        /\ Cardinality(A \cup {n + 1}) = Cardinality(A) + 1
    BY <1>1, FS_AddElement
  <2>2. n + 1 \notin A \cup {n}
    BY <1>0, <1>1
  <2> HIDE DEF A, n
  <2>3. Cardinality((A \cup {n}) \cup {n + 1}) = Cardinality(A \cup {n}) + 1
    BY <2>1, <2>2, FS_AddElement
  <2> QED
    BY <1>1, <2>1, <2>3
<1>4. /\ Cardinality({}) = 0 /\ Cardinality({0}) = 1 /\ Cardinality({1}) = 1
      /\ Cardinality({0, 1}) = 2
  <2>1. /\ IsFiniteSet({0}) /\ Cardinality({0}) = 1 /\ Cardinality({1}) = 1
        /\ Cardinality({}) = 0
    BY FS_Singleton, FS_EmptySet
  <2>2. 1 \notin {0} /\ {0} \cup {1} = {0, 1}
    OBVIOUS
  <2> QED
    BY <2>1, <2>2, FS_AddElement
<1>5. NodeCells(r, k) = 2 + Cardinality(sides)
  BY DEF NodeCells
<1> DEFINE both == LeafCells(r, n + 2)
           Found == /\ Cardinality(both) = Cardinality(A) + Cardinality(sides)
                    /\ Cardinality(sides) \in 0..2
                    /\ IsLeaf(r[n]) /\ IsLeaf(r[n + 1]) =>
                         Cardinality(sides) = 2
<1> HIDE DEF A, n, both, sides
<1>f. Found
  <2>1. CASE IsLeaf(r[n]) /\ IsLeaf(r[n + 1])
    <3>1. both = (A \cup {n}) \cup {n + 1} /\ sides = {0, 1}
      BY <1>0, <1>2, <2>1 DEF both, sides
    <3> QED
      BY <1>1, <1>3, <1>4, <2>1, <3>1
  <2>2. CASE IsLeaf(r[n]) /\ ~IsLeaf(r[n + 1])
    <3>1. both = A \cup {n} /\ sides = {0}
      BY <1>0, <1>2, <2>2 DEF both, sides
    <3> QED
      BY <1>1, <1>3, <1>4, <2>2, <3>1
  <2>3. CASE ~IsLeaf(r[n]) /\ IsLeaf(r[n + 1])
    <3>1. both = A \cup {n + 1} /\ sides = {1}
      BY <1>0, <1>2, <2>3 DEF both, sides
    <3> QED
      BY <1>1, <1>3, <1>4, <2>3, <3>1
  <2>4. CASE ~IsLeaf(r[n]) /\ ~IsLeaf(r[n + 1])
    <3>1. both = A /\ sides = {}
      BY <1>0, <1>2, <2>4 DEF both, sides
    <3> QED
      BY <1>1, <1>3, <1>4, <2>4, <3>1
  <2> QED
    BY <2>1, <2>2, <2>3, <2>4
<1>6. /\ Cardinality(both) = Cardinality(A) + Cardinality(sides)
      /\ NodeCells(r, k) \in 2..4
      /\ IsLeaf(r[n]) /\ IsLeaf(r[n + 1]) => NodeCells(r, k) = 4
  BY <1>5, <1>f
<1> QED
  BY <1>6 DEF A, n, both, sides

LEMMA StartsGrow ==
  ASSUME NEW r, NEW j \in Nat, NEW k \in Nat, j <= k
  PROVE  /\ StartOf(r, j) \in Nat /\ StartOf(r, k) \in Nat
         /\ StartOf(r, j) + 2 * (k - j) <= StartOf(r, k)
<1> DEFINE A == LeafCells(r, 2 * j)
           B == LeafCells(r, 2 * k)
<1>1. /\ 2 * j \in Nat /\ 2 * k \in Nat
      /\ \A a \in 0..(2 * j - 1) : a \in 0..(2 * k - 1)
  OBVIOUS
<1>2. /\ IsFiniteSet(B) /\ Cardinality(A) \in Nat /\ Cardinality(B) \in Nat
  BY <1>1, CellsAreFinite
<1>3. A \subseteq B
  BY <1>1 DEF LeafCells
<1>4. Cardinality(A) <= Cardinality(B)
  BY <1>2, <1>3, FS_Subset
<1>5. /\ StartOf(r, j) = 2 * j + Cardinality(A)
      /\ StartOf(r, k) = 2 * k + Cardinality(B)
  BY DEF StartOf
<1> HIDE DEF A, B
<1> QED
  BY <1>2, <1>4, <1>5

(* What the walk back from the last node finds.                            *)
LEMMA StartsAre ==
  ASSUME NEW r, NEW u, u \in Nat, u >= 2, Cardinality(LeafCells(r, 2 * u - 2)) = u
  PROVE  NodeStarts(r, u) = [k \in 0..(u - 2) |-> StartOf(r, k)]
<1> DEFINE Eq(p) == p = [n \in 0..(u - 1) |->
                          IF n = 0 THEN 3 * u - 2
                          ELSE p[n - 1] - NodeCells(r, u - 1 - n)]
           q == CHOOSE p : Eq(p)
           g == [n \in 0..(u - 1) |-> StartOf(r, u - 1 - n)]
<1>1. StartOf(r, u - 1) = 3 * u - 2
  <2>1. 2 * (u - 1) = 2 * u - 2
    OBVIOUS
  <2>2. StartOf(r, u - 1) = 2 * u - 2 + u
    BY <2>1 DEF StartOf
  <2> QED
    BY <2>2
<1>2. ASSUME NEW k \in Nat
      PROVE  StartOf(r, k) = StartOf(r, k + 1) - NodeCells(r, k)
  <2> DEFINE a == Cardinality(LeafCells(r, 2 * k))
             b == Cardinality(LeafCells(r, 2 * k + 2))
             c == Cardinality({o \in {0, 1} : IsLeaf(r[2 * k + o])})
  <2>1. b = a + c /\ NodeCells(r, k) = 2 + c /\ NodeCells(r, k) \in 2..4
    BY LeavesOfNode DEF NodeCells
  <2>2. a \in Nat
    <3>1. 2 * k \in Nat
      OBVIOUS
    <3> QED
      BY <3>1, CellsAreFinite
  <2>3. c \in Nat
    <3>1. {o \in {0, 1} : IsLeaf(r[2 * k + o])} \in SUBSET {0, 1}
      OBVIOUS
    <3>2. IsFiniteSet({0, 1})
      <4>1. IsFiniteSet({0}) /\ {0, 1} = {0} \cup {1}
        BY FS_Singleton
      <4> QED
        BY <4>1, FS_AddElement
    <3> QED
      BY <3>1, <3>2, FS_Subset, FS_CardinalityType
  <2>4. StartOf(r, k) = 2 * k + a /\ StartOf(r, k + 1) = 2 * k + 2 + b
    <3>1. 2 * (k + 1) = 2 * k + 2
      OBVIOUS
    <3> QED
      BY <3>1 DEF StartOf
  <2> HIDE DEF a, b, c
  <2> QED
    BY <2>1, <2>2, <2>3, <2>4
<1>3. Eq(g)
  <2>1. 0 \in 0..(u - 1) /\ u - 1 - 0 = u - 1
    OBVIOUS
  <2>2. ASSUME NEW n \in 0..(u - 1), n # 0
        PROVE  g[n] = g[n - 1] - NodeCells(r, u - 1 - n)
    <3>1. /\ n - 1 \in 0..(u - 1) /\ u - 1 - n \in Nat
          /\ u - 1 - (n - 1) = u - 1 - n + 1
      BY <2>2
    <3>2. StartOf(r, u - 1 - n)
            = StartOf(r, u - 1 - n + 1) - NodeCells(r, u - 1 - n)
      BY <1>2, <3>1
    <3> QED
      BY <3>1, <3>2
  <2>3. g[0] = 3 * u - 2
    BY <1>1, <2>1
  <2> DEFINE f == [n \in 0..(u - 1) |-> IF n = 0 THEN 3 * u - 2
                      ELSE g[n - 1] - NodeCells(r, u - 1 - n)]
  <2>4. \A n \in 0..(u - 1) : g[n] = f[n]
    BY <2>2, <2>3
  <2>5. DOMAIN g = 0..(u - 1) /\ g = [n \in 0..(u - 1) |-> g[n]]
    OBVIOUS
  <2> HIDE DEF g
  <2>6. g = f
    BY <2>4, <2>5
  <2> QED
    BY <2>6
<1>4. Eq(q)
  <2> HIDE DEF g
  <2> QED
    BY <1>3
<1>5. NodeStarts(r, u) = [k \in 0..(u - 2) |-> q[u - 1 - k]]
  BY DEF NodeStarts
<1> HIDE DEF q
<1>6. /\ q[0] = 3 * u - 2
      /\ \A n \in 0..(u - 1) :
           n # 0 => q[n] = q[n - 1] - NodeCells(r, u - 1 - n)
  <2>1. 0 \in 0..(u - 1)
    OBVIOUS
  <2> QED
    BY <1>4, <2>1
<1>7. \A n \in Nat : n <= u - 1 => q[n] = StartOf(r, u - 1 - n)
  <2> DEFINE T == {n \in Nat : n <= u - 1 => q[n] = StartOf(r, u - 1 - n)}
  <2>1. 0 \in T
    <3>1. u - 1 - 0 = u - 1
      OBVIOUS
    <3> QED
      BY <1>1, <1>6, <3>1
  <2>2. ASSUME NEW n \in Nat, n \in T PROVE n + 1 \in T
    <3> SUFFICES ASSUME n + 1 <= u - 1
                 PROVE  q[n + 1] = StartOf(r, u - 1 - (n + 1))
      OBVIOUS
    <3>1. /\ n + 1 \in 0..(u - 1) /\ n + 1 # 0 /\ n + 1 - 1 = n
          /\ u - 1 - (n + 1) \in Nat /\ u - 1 - (n + 1) + 1 = u - 1 - n
          /\ n <= u - 1
      OBVIOUS
    <3>2. q[n] = StartOf(r, u - 1 - n)
      BY <2>2, <3>1
    <3> DEFINE k == u - 1 - (n + 1)
    <3>3. q[n + 1] = q[n] - NodeCells(r, k)
      BY <1>6, <3>1
    <3>4. k \in Nat /\ k + 1 = u - 1 - n
      BY <3>1
    <3> HIDE DEF k
    <3>5. StartOf(r, k) = StartOf(r, u - 1 - n) - NodeCells(r, k)
      BY <1>2, <3>4
    <3> QED
      BY <3>2, <3>3, <3>5 DEF k
  <2> HIDE DEF T
  <2>3. Nat \subseteq T
    BY <2>1, <2>2, InductiveSet
  <2> QED
    BY <2>3 DEF T
<1>8. ASSUME NEW k \in 0..(u - 2) PROVE q[u - 1 - k] = StartOf(r, k)
  <2>1. u - 1 - k \in Nat /\ u - 1 - k <= u - 1 /\ u - 1 - (u - 1 - k) = k
    OBVIOUS
  <2> QED
    BY <1>7, <2>1
<1> QED
  BY <1>5, <1>8
(* The first two cells of a node are its sides.                            *)
Side(r, u, bits, w) ==
  IF IsLeaf(w) THEN TopBit(bits) + ((w \div 2 ^ bits) % TopBit(bits))
  ELSE [k \in 0..(u - 2) |-> StartOf(r, k)][w] % 2 ^ bits

LEMMA HalvedCells ==
  ASSUME NEW r, NEW u, u \in Nat, u >= 2,
         Cardinality(LeafCells(r, 2 * u - 2)) = u,
         NEW bits, NEW k \in 0..(u - 2), StartOf(r, k) + 1 <= 3 * u - 3
  PROVE  LET a == StartOf(r, k)
             h == Halved(r, u, bits)
         IN  /\ a \in DOMAIN h /\ h[a] = Side(r, u, bits, r[2 * k])
             /\ a + 1 \in DOMAIN h /\ h[a + 1] = Side(r, u, bits, r[2 * k + 1])
             /\ DOMAIN h = 0..(3 * u - 3)
<1> DEFINE start == [j \in 0..(u - 2) |-> StartOf(r, j)]
           node(a) == Max({n \in 0..(u - 2) : start[n] <= a})
           side(w) == IF IsLeaf(w)
                      THEN TopBit(bits) + ((w \div 2 ^ bits) % TopBit(bits))
                      ELSE start[w] % 2 ^ bits
           low(w) == w % 2 ^ bits
           cell(a) == LET n == node(a)
                          l == r[2 * n]
                          m == r[2 * n + 1]
                      IN  CASE a = start[n]     -> side(l)
                            [] a = start[n] + 1 -> side(m)
                            [] a = start[n] + 2 -> low(IF IsLeaf(l) THEN l ELSE m)
                            [] a = start[n] + 3 -> low(m)
           S == StartOf(r, k)
<1>1. Halved(r, u, bits) = [a \in 0..(3 * u - 3) |-> cell(a)]
  <2>1. NodeStarts(r, u) = start
    BY StartsAre
  <2> QED
    BY <2>1 DEF Halved
<1>2. k \in Nat /\ k <= u - 2 /\ S \in Nat /\ S + 1 <= 3 * u - 3
  <2>1. k \in Nat /\ k <= u - 2
    OBVIOUS
  <2>2. S \in Nat
    BY <2>1, StartsGrow
  <2> QED
    BY <2>1, <2>2
<1>3. ASSUME NEW a \in {S, S + 1} PROVE node(a) = k
  <2> DEFINE N == {n \in 0..(u - 2) : start[n] <= a}
  <2>1. \A n \in 0..(u - 2) : start[n] = StartOf(r, n)
    OBVIOUS
  <2>2. k \in N
    <3>1. S <= a
      BY <1>2
    <3> QED
      BY <2>1, <3>1
  <2>3. ASSUME NEW n \in N PROVE n \in Nat /\ n <= k
    <3>1. n \in 0..(u - 2) /\ StartOf(r, n) <= a
      BY <2>1
    <3>2. n \in Nat
      BY <3>1
    <3> SUFFICES ASSUME k + 1 <= n PROVE FALSE
      BY <1>2, <3>2
    <3>3. S + 2 * (n - k) <= StartOf(r, n) /\ StartOf(r, n) \in Nat
      <4>1. k <= n
        BY <1>2, <3>2
      <4> QED
        BY <1>2, <3>2, <4>1, StartsGrow
    <3> DEFINE x == StartOf(r, n)
    <3>4. x <= a /\ x \in Nat /\ S + 2 * (n - k) <= x
      BY <3>1, <3>3
    <3> HIDE DEF S, x
    <3> QED
      BY <1>2, <3>2, <3>4
  <2> HIDE DEF N
  <2>4. \A x \in N : (\A y \in N : x >= y) => x = k
    BY <1>2, <2>2, <2>3
  <2>5. \A y \in N : k >= y
    BY <1>2, <2>3
  <2>6. Max(N) = CHOOSE x \in N : \A y \in N : x >= y
    BY DEF Max
  <2>7. Max(N) \in N /\ \A y \in N : Max(N) >= y
    BY <2>2, <2>5, <2>6
  <2>8. Max(N) = k
    BY <2>4, <2>7
  <2> QED
    BY <2>8 DEF N
<1>4. start[k] = S
  OBVIOUS
<1>5. S \in 0..(3 * u - 3) /\ S + 1 \in 0..(3 * u - 3)
  <2> HIDE DEF S
  <2> QED
    BY <1>2
<1>6. S # S + 1
  <2> HIDE DEF S
  <2> QED
    BY <1>2
<1>7. \A w : side(w) = Side(r, u, bits, w)
  BY DEF Side
<1> HIDE DEF start, S, node
<1>8. cell(S) = side(r[2 * k])
  <2>1. node(S) = k
    BY <1>3
  <2> HIDE DEF side, low
  <2> QED
    BY <2>1, <1>2, <1>4
<1>9. cell(S + 1) = side(r[2 * k + 1])
  <2>1. node(S + 1) = k
    BY <1>3
  <2>2. S + 1 # S + 2 /\ S + 1 # S + 3
    BY <1>2
  <2> HIDE DEF side, low
  <2> QED
    BY <2>1, <2>2, <1>4, <1>6
<1> HIDE DEF cell, side
<1> QED
  BY <1>1, <1>5, <1>7, <1>8, <1>9 DEF S

LEMMA LastStart ==
  ASSUME NEW r, NEW u, u \in Nat, u >= 2,
         Cardinality(LeafCells(r, 2 * u - 2)) = u,
         IsLeaf(r[2 * (u - 2)]), IsLeaf(r[2 * (u - 2) + 1])
  PROVE  StartOf(r, u - 2) = 3 * u - 6
<1> DEFINE k == u - 2
<1>1. k \in Nat /\ 2 * k + 2 = 2 * u - 2 /\ 2 * k \in Nat
  OBVIOUS
<1>2. NodeCells(r, k) = 4
  BY <1>1, LeavesOfNode
<1>3. u = Cardinality(LeafCells(r, 2 * k))
            + Cardinality({o \in {0, 1} : IsLeaf(r[2 * k + o])})
  <2>1. u = Cardinality(LeafCells(r, 2 * k + 2))
    BY <1>1
  <2> HIDE DEF k
  <2>2. Cardinality(LeafCells(r, 2 * k + 2))
          = Cardinality(LeafCells(r, 2 * k))
              + Cardinality({o \in {0, 1} : IsLeaf(r[2 * k + o])})
    BY <1>1, LeavesOfNode
  <2> QED
    BY <2>1, <2>2
<1>4. NodeCells(r, k) = 2 + Cardinality({o \in {0, 1} : IsLeaf(r[2 * k + o])})
  BY DEF NodeCells
<1>5. Cardinality(LeafCells(r, 2 * k)) \in Nat
  BY <1>1, CellsAreFinite
<1>6. Cardinality({o \in {0, 1} : IsLeaf(r[2 * k + o])}) \in Nat
  <2>1. {o \in {0, 1} : IsLeaf(r[2 * k + o])} \in SUBSET {0, 1}
    OBVIOUS
  <2>2. IsFiniteSet({0, 1})
    <3>1. IsFiniteSet({0}) /\ {0, 1} = {0} \cup {1}
      BY FS_Singleton
    <3> QED
      BY <3>1, FS_AddElement
  <2> QED
    BY <2>1, <2>2, FS_Subset, FS_CardinalityType
<1> DEFINE a == Cardinality(LeafCells(r, 2 * k))
           b == Cardinality({o \in {0, 1} : IsLeaf(r[2 * k + o])})
<1>7. StartOf(r, k) = 2 * k + a
  BY DEF StartOf
<1>8. u = a + b /\ 4 = 2 + b /\ a \in Nat /\ b \in Nat
  BY <1>2, <1>3, <1>4, <1>5, <1>6
<1> HIDE DEF a, b
<1>9. StartOf(r, k) = 3 * u - 6
  BY <1>1, <1>7, <1>8
<1> QED
  BY <1>9
-----------------------------------------------------------------------------
(* The walk stays in the table.                                            *)

(* From one of these nodes a bit leads to a written cell, and on to a leaf *)
(* or to one of them; there is room for the low half of a leaf.            *)
Sound(cells, nodes) ==
  /\ nodes \subseteq Nat /\ 0 \in nodes
  /\ \A p \in nodes, bit \in {0, 1} :
       LET a == CellOf(p, bit)
       IN  /\ a \in DOMAIN cells /\ cells[a] \in Nat
           /\ ~Marked(cells[a]) => cells[a] \in nodes
           /\ ~InPlace /\ s.dec_leafw = 2 =>
                p + bit + 1 \in DOMAIN cells /\ p + bit + 2 \in DOMAIN cells

Walkable ==
  /\ stage = "walk" => /\ walk.i \in Nat /\ walk.read \in Nat
                       /\ walk.read > 0 => s.used_entries > 0
  /\ pc \in {"scalars", "end", "ok"} /\ s.entries > 1 /\ s.used_entries > 0 =>
       \E nodes : Sound(table, nodes) /\ (stage = "walk" => walk.chase \in nodes)

(* Words made in the table itself: the nodes are those of the tree.        *)
LEMMA SoundInPlace ==
  ASSUME InPlace, Grown(tree), tree.chase = 0, tree.top \in Nat,
         tree.count = s.used_entries, s.used_entries \in Nat,
         s.used_entries > 0, Cells(tree, Room)
  PROVE  Sound(tree.r, 0..(tree.top - 1))
<1> DEFINE n == tree.top
<1>1. n > 0
  <2> SUFFICES ASSUME n = 0 PROVE FALSE
    OBVIOUS
  <2>1. LeafCells(tree.r, 2 * n) = {}
    BY DEF LeafCells
  <2>2. Cardinality(LeafCells(tree.r, 2 * n)) = tree.count
    BY DEF Grown
  <2> QED
    BY <2>1, <2>2, FS_EmptySet
<1>2. n \in Nat /\ 0 \in 0..(n - 1) /\ tree.chase < n
  BY <1>1
<1>3. \A k \in 0..(n - 1), o \in {0, 1} :
        LET w == tree.r[2 * k + o]
        IN  /\ w \in Nat
            /\ IsLeaf(w) \/ w = 0 \/ (k < w /\ w <= n)
            /\ IsLeaf(w) \/ w < n
  <2>1. \A k \in 0..(tree.top - 1), o \in {0, 1} :
          LET w == tree.r[2 * k + o]
          IN  /\ w \in Nat
              /\ IsLeaf(w) \/ w = 0 \/ (k < w /\ w <= tree.top)
              /\ tree.chase < tree.top => IsLeaf(w) \/ w < tree.top
    BY DEF Grown
  <2> QED
    BY <1>2, <2>1
<1>4. Room \in Int /\ DOMAIN tree.r = 0..(Room - 1) /\ 2 * n <= Room
  BY <1>1 DEF Cells
<1>5. ASSUME NEW p \in 0..(n - 1), NEW bit \in {0, 1}
      PROVE  LET a == CellOf(p, bit)
             IN  /\ a \in DOMAIN tree.r /\ tree.r[a] \in Nat
                 /\ ~Marked(tree.r[a]) => tree.r[a] \in 0..(n - 1)
  <2> DEFINE w == tree.r[2 * p + bit]
  <2>1. CellOf(p, bit) = 2 * p + bit
    BY DEF CellOf
  <2>2. 2 * p + bit \in DOMAIN tree.r
    <3> HIDE DEF n
    <3>1. 2 * p + bit \in 0..(Room - 1)
      BY <1>2, <1>4
    <3> QED
      BY <1>4, <3>1
  <2>3. w \in Nat /\ (IsLeaf(w) \/ w < n)
    BY <1>3
  <2>4. Marked(w) <=> IsLeaf(w)
    BY DEF Marked, IsLeaf, CellBits
  <2> HIDE DEF n
  <2>5. ~Marked(w) => w \in 0..(n - 1)
    <3> HIDE DEF w
    <3> QED
      BY <1>2, <2>3, <2>4
  <2> QED
    BY <2>1, <2>2, <2>3, <2>5
<1>6. 0..(n - 1) \subseteq Nat
  BY <1>2
<1> HIDE DEF n
<1>7. Sound(tree.r, 0..(n - 1))
  BY <1>2, <1>5, <1>6 DEF Sound
<1> QED
  BY <1>7 DEF n

(* Bits of a packed cell.                                                  *)
LEMMA CellWidth ==
  ASSUME RealWidths, s.dec_nodeb \in {1, 2}
  PROVE  /\ ~InPlace /\ CellBits \in {8, 16} /\ CellBits = s.dec_nodeb * ByteBits
         /\ TopBit(CellBits) \in Nat \ {0} /\ 2 ^ CellBits = 2 * TopBit(CellBits)
         /\ TopBit(CellBits) = TwoTo(CellBits - 1)
         /\ TopBit(CellBits) < TopBit(WordBits)
<1>1. ~InPlace /\ CellBits = s.dec_nodeb * 8 /\ ByteBits = 8
  BY DEF InPlace, CellBits, RealWidths
<1>2. CellBits \in {8, 16}
  BY <1>1
<1>3. TwoTo(7) = 128 /\ TwoTo(8) = 256 /\ TwoTo(15) = 32768 /\ TwoTo(16) = 65536
  BY SMT DEF TwoTo
<1>4. TopBit(WordBits) = 2147483648
  BY WordTop
<1>5. CASE CellBits = 8
  <2>1. TopBit(CellBits) = TwoTo(7) /\ 2 ^ CellBits = TwoTo(8) /\ CellBits - 1 = 7
    BY <1>5 DEF TopBit, TwoTo
  <2> HIDE DEF CellBits
  <2> QED
    BY <1>1, <1>2, <1>3, <1>4, <2>1
<1>6. CASE CellBits = 16
  <2>1. TopBit(CellBits) = TwoTo(15) /\ 2 ^ CellBits = TwoTo(16) /\ CellBits - 1 = 15
    BY <1>6 DEF TopBit, TwoTo
  <2> HIDE DEF CellBits
  <2> QED
    BY <1>1, <1>2, <1>3, <1>4, <2>1
<1> QED
  BY <1>2, <1>5, <1>6

(* One cell for each side: a number that is cut short, or taken for a leaf *)
(* where it needs its top bit, still names a node there is.                *)
LEMMA SoundFlat ==
  ASSUME RealWidths, s.dec_nodeb \in {1, 2}, s.dec_leafw = 1, NEW u,
         u \in Nat, u >= 2, NEW r,
         \A k \in 0..(u - 2), o \in {0, 1} :
           LET w == r[2 * k + o]
           IN  w \in Nat /\ (IsLeaf(w) \/ (k < w /\ w <= u - 2))
  PROVE  Sound(Flat(r, u, CellBits), 0..(u - 2))
<1> DEFINE cells == Flat(r, u, CellBits)
           z == TopBit(CellBits)
<1>1. ~InPlace /\ z \in Nat \ {0} /\ 2 ^ CellBits = 2 * z
  BY CellWidth
<1>2. ASSUME NEW p \in 0..(u - 2), NEW bit \in {0, 1}
      PROVE  LET a == CellOf(p, bit)
             IN  /\ a \in DOMAIN cells /\ cells[a] \in Nat
                 /\ ~Marked(cells[a]) => cells[a] \in 0..(u - 2)
  <2> DEFINE a == 2 * p + bit
             w == r[a]
             c == Narrowed(w, CellBits)
  <2>1. CellOf(p, bit) = a
    BY DEF CellOf
  <2>2. a \in 0..(2 * u - 3)
    OBVIOUS
  <2>3. DOMAIN cells = 0..(2 * u - 3) /\ cells[a] = c
    BY <2>2 DEF Flat
  <2>4. w \in Nat /\ (IsLeaf(w) \/ w <= u - 2)
    OBVIOUS
  <2> DEFINE low == w % (2 * z)
  <2>5. c = IF IsLeaf(w) /\ low < z THEN low + z ELSE low
    BY <1>1 DEF Narrowed
  <2>6. Marked(c) <=> c >= z
    BY DEF Marked
  <2> HIDE DEF z, a, w, c
  <2>7. low \in Nat /\ low <= w
    <3>1. 2 * z \in Nat \ {0}
      BY <1>1
    <3> DEFINE y == 2 * z
    <3> HIDE DEF y
    <3>2. y \in Nat \ {0}
      BY <3>1 DEF y
    <3>3. w % y \in Nat /\ w % y <= w
      BY <2>4, <3>2
    <3> QED
      BY <3>3 DEF y
  <2> HIDE DEF low
  <2>8. c \in Nat /\ (~Marked(c) => c \in 0..(u - 2))
    BY <1>1, <2>4, <2>5, <2>6, <2>7
  <2> HIDE DEF cells
  <2> QED
    BY <2>1, <2>2, <2>3, <2>8
<1>3. 0..(u - 2) \subseteq Nat /\ 0 \in 0..(u - 2) /\ s.dec_leafw # 2
  OBVIOUS
<1> HIDE DEF cells
<1>4. Sound(cells, 0..(u - 2))
  BY <1>2, <1>3 DEF Sound
<1> QED
  BY <1>4 DEF cells
(* Two cells for a leaf: nodes are named by where they start, and that of  *)
(* the last is within what the cells can name beside the mark.             *)
LEMMA StartsFit ==
  ASSUME RealWidths, s.dec_nodeb \in {1, 2}, NEW u, u \in Nat, u >= 2,
         u < TwoTo(24), ilog(3 * u - 6) < s.dec_nodeb * ByteBits, NEW r,
         \A k \in 0..(u - 2), o \in {0, 1} :
           LET w == r[2 * k + o]
           IN  w \in Nat /\ (IsLeaf(w) \/ (k < w /\ w <= u - 2)),
         Cardinality(LeafCells(r, 2 * u - 2)) = u
  PROVE  \A k \in 0..(u - 2) : /\ StartOf(r, k) \in Nat
                               /\ StartOf(r, k) <= 3 * u - 6
                               /\ StartOf(r, k) < TopBit(CellBits)
<1>1. IsLeaf(r[2 * (u - 2)]) /\ IsLeaf(r[2 * (u - 2) + 1])
  <2> DEFINE k == u - 2
  <2>1. k \in 0..(u - 2) /\ 0 \in {0, 1} /\ 1 \in {0, 1} /\ 2 * k + 0 = 2 * k
    OBVIOUS
  <2>2. ASSUME NEW o \in {0, 1} PROVE IsLeaf(r[2 * k + o])
    <3> DEFINE w == r[2 * k + o]
    <3>1. w \in Nat /\ (IsLeaf(w) \/ (k < w /\ w <= u - 2))
      BY <2>1
    <3> HIDE DEF w
    <3>2. IsLeaf(w)
      BY <3>1
    <3> QED
      BY <3>2 DEF w
  <2> HIDE DEF k
  <2>3. IsLeaf(r[2 * k]) /\ IsLeaf(r[2 * k + 1])
    BY <2>1, <2>2
  <2> QED
    BY <2>3 DEF k
<1>2. StartOf(r, u - 2) = 3 * u - 6
  BY <1>1, LastStart
<1> DEFINE v == 3 * u - 6
<1>3. v \in Nat /\ v < TwoTo(30)
  <2>1. TwoTo(30) = 1073741824 /\ TwoTo(24) = 16777216
    BY Thirty
  <2> QED
    BY <2>1
<1>4. CellBits \in {8, 16} /\ CellBits = s.dec_nodeb * ByteBits
      /\ TopBit(CellBits) = TwoTo(CellBits - 1)
  BY CellWidth
<1>5. v < TopBit(CellBits)
  <2> DEFINE n == CellBits - 1
             i == ilog(v)
  <2>1. i < CellBits
    BY <1>4
  <2>2. TopBit(CellBits) = TwoTo(n)
    BY <1>4
  <2> HIDE DEF v
  <2>3. i \in 0..30
    BY <1>3, IlogSmall
  <2>4. n \in 0..32 /\ i <= n
    <3> HIDE DEF i
    <3> QED
      BY <1>4, <2>1, <2>3
  <2> HIDE DEF n
  <2>5. v < TwoTo(n)
    BY <1>3, <2>4, WidthBounds
  <2> QED
    BY <2>2, <2>5
<1>6. TopBit(CellBits) \in Nat
  BY CellWidth
<1>7. ASSUME NEW k \in 0..(u - 2)
      PROVE  /\ StartOf(r, k) \in Nat /\ StartOf(r, k) <= 3 * u - 6
             /\ StartOf(r, k) < TopBit(CellBits)
  <2>1. k \in Nat /\ u - 2 \in Nat /\ k <= u - 2
    OBVIOUS
  <2> DEFINE a == StartOf(r, k)
             b == StartOf(r, u - 2)
  <2>2. a \in Nat /\ b \in Nat /\ a + 2 * (u - 2 - k) <= b
    BY <2>1, StartsGrow
  <2>3. b = v /\ v = 3 * u - 6
    BY <1>2
  <2> HIDE DEF a, b, v
  <2>4. a \in Nat /\ a <= v /\ a < TopBit(CellBits)
    BY <1>3, <1>5, <1>6, <2>1, <2>2, <2>3
  <2> QED
    BY <2>3, <2>4 DEF a
<1> QED
  BY <1>7

LEMMA SoundHalved ==
  ASSUME RealWidths, s.dec_nodeb \in {1, 2}, s.dec_leafw = 2, NEW u, u \in Nat,
         u >= 2, u < TwoTo(24), ilog(3 * u - 6) < s.dec_nodeb * ByteBits, NEW r,
         \A k \in 0..(u - 2), o \in {0, 1} :
           LET w == r[2 * k + o]
           IN  w \in Nat /\ (IsLeaf(w) \/ (k < w /\ w <= u - 2)),
         Cardinality(LeafCells(r, 2 * u - 2)) = u
  PROVE  Sound(Halved(r, u, CellBits), {StartOf(r, k) : k \in 0..(u - 2)})
<1> DEFINE cells == Halved(r, u, CellBits)
           nodes == {StartOf(r, k) : k \in 0..(u - 2)}
           z == TopBit(CellBits)
           start == [k \in 0..(u - 2) |-> StartOf(r, k)]
<1>1. ~InPlace /\ z \in Nat \ {0} /\ 2 ^ CellBits = 2 * z
  BY CellWidth
<1>2. \A k \in 0..(u - 2) : /\ StartOf(r, k) \in Nat /\ StartOf(r, k) <= 3 * u - 6
                            /\ StartOf(r, k) < z
  BY StartsFit
<1>3. nodes \subseteq Nat
  BY <1>2
<1>4. 0 \in nodes
  <2>1. LeafCells(r, 2 * 0) = {}
    BY DEF LeafCells
  <2>2. StartOf(r, 0) = 0
    BY <2>1, FS_EmptySet DEF StartOf
  <2>3. 0 \in 0..(u - 2)
    OBVIOUS
  <2> QED
    BY <2>2, <2>3
<1>5. ASSUME NEW w \in Nat, IsLeaf(w) \/ w <= u - 2
      PROVE  LET c == Side(r, u, CellBits, w)
             IN  c \in Nat /\ (~Marked(c) => c \in nodes)
  <2>1. CASE IsLeaf(w)
    <3> DEFINE x == (w \div (2 * z)) % z
    <3>1. x \in Nat
      <4> HIDE DEF z
      <4>1. 2 * z \in Nat \ {0}
        BY <1>1
      <4> DEFINE y == 2 * z
      <4> HIDE DEF y
      <4>2. w \div y \in Nat
        BY <4>1 DEF y
      <4> QED
        BY <1>1, <4>2 DEF y
    <3>2. Side(r, u, CellBits, w) = z + x
      BY <1>1, <2>1 DEF Side
    <3>3. \A c : Marked(c) <=> c >= z
      BY DEF Marked
    <3> HIDE DEF x, z
    <3> QED
      BY <1>1, <3>1, <3>2, <3>3
  <2>2. CASE ~IsLeaf(w)
    <3>1. w \in 0..(u - 2)
      BY <1>5, <2>2
    <3>2. StartOf(r, w) \in nodes
      BY <3>1
    <3>3. Side(r, u, CellBits, w) = StartOf(r, w) % (2 * z)
      <4>1. [k \in 0..(u - 2) |-> StartOf(r, k)][w] = StartOf(r, w)
        BY <3>1
      <4> QED
        BY <1>1, <2>2, <4>1, Zenon DEF Side
    <3> DEFINE v == StartOf(r, w)
    <3>4. v \in Nat /\ v < z
      BY <1>2, <3>1
    <3> HIDE DEF z, v
    <3>5. v % (2 * z) = v
      <4> DEFINE y == 2 * z
      <4>1. y \in Nat /\ v < y
        BY <1>1, <3>4
      <4> HIDE DEF y
      <4>2. v % y = v
        BY <3>4, <4>1
      <4> QED
        BY <4>2 DEF y
    <3>6. Side(r, u, CellBits, w) = v
      BY <3>3, <3>5 DEF v
    <3> QED
      BY <3>2, <3>4, <3>6 DEF v
  <2> QED
    BY <2>1, <2>2
<1>6. ASSUME NEW p \in nodes, NEW bit \in {0, 1}
      PROVE  LET a == CellOf(p, bit)
             IN  /\ a \in DOMAIN cells /\ cells[a] \in Nat
                 /\ ~Marked(cells[a]) => cells[a] \in nodes
                 /\ p + bit + 1 \in DOMAIN cells /\ p + bit + 2 \in DOMAIN cells
  <2>1. PICK k \in 0..(u - 2) : p = StartOf(r, k)
    OBVIOUS
  <2>2. p \in Nat /\ p <= 3 * u - 6
    BY <1>2, <2>1
  <2>3. /\ p \in DOMAIN cells /\ cells[p] = Side(r, u, CellBits, r[2 * k])
        /\ p + 1 \in DOMAIN cells
        /\ cells[p + 1] = Side(r, u, CellBits, r[2 * k + 1])
        /\ DOMAIN cells = 0..(3 * u - 3)
    <3>1. p + 1 <= 3 * u - 3
      BY <2>2
    <3> QED
      BY <2>1, <3>1, HalvedCells
  <2>4. /\ r[2 * k] \in Nat /\ (IsLeaf(r[2 * k]) \/ r[2 * k] <= u - 2)
        /\ r[2 * k + 1] \in Nat
        /\ IsLeaf(r[2 * k + 1]) \/ r[2 * k + 1] <= u - 2
    <3>1. \A o \in {0, 1} : r[2 * k + o] \in Nat
                            /\ (IsLeaf(r[2 * k + o]) \/ r[2 * k + o] <= u - 2)
      OBVIOUS
    <3>2. 2 * k + 0 = 2 * k
      OBVIOUS
    <3> QED
      BY <3>1, <3>2
  <2>5. CellOf(p, bit) = p + bit
    BY <1>1 DEF CellOf
  <2> HIDE DEF cells, nodes
  <2>6. p + bit + 1 \in DOMAIN cells /\ p + bit + 2 \in DOMAIN cells
    <3>1. p + bit + 1 \in 0..(3 * u - 3) /\ p + bit + 2 \in 0..(3 * u - 3)
      BY <2>2
    <3> QED
      BY <2>3, <3>1
  <2>7. /\ cells[p] \in Nat /\ (~Marked(cells[p]) => cells[p] \in nodes)
        /\ cells[p + 1] \in Nat
        /\ ~Marked(cells[p + 1]) => cells[p + 1] \in nodes
    BY <1>5, <2>3, <2>4
  <2>8. /\ p + bit \in DOMAIN cells /\ cells[p + bit] \in Nat
        /\ ~Marked(cells[p + bit]) => cells[p + bit] \in nodes
    <3>1. p + 0 = p
      BY <2>2
    <3> QED
      BY <2>3, <2>7, <3>1
  <2> QED
    BY <2>5, <2>6, <2>8
<1> HIDE DEF cells, nodes
<1>7. Sound(cells, nodes)
  BY <1>3, <1>4, <1>6 DEF Sound
<1> QED
  BY <1>7 DEF cells, nodes
LEMMA TableIsSound ==
  ASSUME RealWidths, Lists, Sizing, Shaped, pc = "pack", s.entries > 1,
         s.used_entries > 0
  PROVE  \E nodes : Sound(Packed, nodes)
<1> DEFINE u == s.used_entries
           r == tree.r
<1>1. /\ tree.chase = 0 /\ tree.top \in Nat /\ tree.count = u
      /\ Cells(tree, Room) /\ Grown(tree)
      /\ u >= 2 => tree.top = u - 1
  BY DEF Shaped
<1>2. u \in Nat /\ u < TwoTo(24) /\ NodeSized(s)
  <2>1. u \in Nat /\ u <= s.entries /\ s.entries = sent.entries /\ NodeSized(s)
    BY DEF Sizing, Making
  <2>2. sent.entries \in Sizes
    BY SentFits DEF Lists
  <2>3. sent.entries \in Nat /\ sent.entries < 16777216
    BY <2>2, SizesAre
  <2>4. TwoTo(24) = 16777216
    BY Thirty
  <2> HIDE DEF u
  <2> QED
    BY <2>1, <2>3, <2>4
<1>3. CASE s.dec_nodeb = 4
  <2>1. InPlace
    BY <1>3 DEF InPlace
  <2>2. Sound(tree.r, 0..(tree.top - 1))
    BY <1>1, <1>2, <2>1, SoundInPlace
  <2>3. Packed = tree.r
    BY <2>1 DEF Packed
  <2> QED
    BY <2>2, <2>3
<1>4. ASSUME u >= 2
      PROVE  /\ \A k \in 0..(u - 2), o \in {0, 1} :
                  LET w == r[2 * k + o]
                  IN  w \in Nat /\ (IsLeaf(w) \/ (k < w /\ w <= u - 2))
             /\ Cardinality(LeafCells(r, 2 * u - 2)) = u
  <2>1. tree.top = u - 1
    BY <1>1, <1>4
  <2> HIDE DEF u
  <2> QED
    BY <1>1, <1>2, <1>4, <2>1, WholeTree
<1>5. CASE u >= 2 /\ s.dec_nodeb \in {1, 2} /\ s.dec_leafw = 1
  <2>1. Sound(Flat(r, u, CellBits), 0..(u - 2))
    <3> HIDE DEF u, r
    <3> QED
      BY <1>2, <1>4, <1>5, SoundFlat
  <2>2. ~InPlace /\ CellBits = s.dec_nodeb * ByteBits
    BY <1>5, CellWidth
  <2>3. Packed = Flat(r, u, CellBits)
    BY <1>5, <2>2 DEF Packed
  <2> QED
    BY <2>1, <2>3
<1>6. CASE /\ u >= 2 /\ s.dec_nodeb \in {1, 2} /\ s.dec_leafw = 2
           /\ ilog(3 * u - 6) < s.dec_nodeb * ByteBits
  <2>1. Sound(Halved(r, u, CellBits), {StartOf(r, k) : k \in 0..(u - 2)})
    <3> HIDE DEF u, r
    <3> QED
      BY <1>2, <1>4, <1>6, SoundHalved
  <2>2. ~InPlace /\ CellBits = s.dec_nodeb * ByteBits
    BY <1>6, CellWidth
  <2>3. Packed = Halved(r, u, CellBits)
    BY <1>6, <2>2 DEF Packed
  <2> QED
    BY <2>1, <2>3
<1> QED
  BY <1>2, <1>3, <1>5, <1>6 DEF NodeSized

LEMMA SoundStays ==
  ASSUME NEW nodes, Sound(table', nodes), s'.dec_nodeb = s.dec_nodeb,
         s'.dec_leafw = s.dec_leafw
  PROVE  Sound(table, nodes)'
<1>1. InPlace' = InPlace /\ CellBits' = CellBits
  BY DEF InPlace, CellBits
<1>2. /\ \A p, bit : CellOf(p, bit)' = CellOf(p, bit)
      /\ \A c : Marked(c)' = Marked(c)
  BY <1>1, Zenon DEF CellOf, Marked
<1> QED
  BY <1>1, <1>2, Zenon DEF Sound

(* The same table.                                                         *)
LEMMA WalkableStays ==
  ASSUME Walkable, UNCHANGED table, s'.dec_nodeb = s.dec_nodeb,
         s'.dec_leafw = s.dec_leafw, s'.entries = s.entries,
         s'.used_entries = s.used_entries, stage' # "walk",
         pc \in {"scalars", "end", "ok"}
  PROVE  Walkable'
<1> SUFFICES ASSUME s'.entries > 1, s'.used_entries > 0
             PROVE  \E nodes : Sound(table, nodes)'
  BY DEF Walkable
<1>1. PICK nodes : Sound(table, nodes)
  BY DEF Walkable
<1>2. Sound(table', nodes)
  BY <1>1
<1>3. Sound(table, nodes)'
  BY <1>2, SoundStays
<1> QED
  BY <1>3
(* The bits a look finds are those of a codeword.                          *)
LEMMA LooksRead ==
  ASSUME Longest, LookAhead, stage' = "walk"
  PROVE  /\ walk'.chase = 0 /\ walk'.i = 0 /\ walk'.read \in Nat
         /\ walk'.read > 0 => s.used_entries > 0
<1> DEFINE most == s.dec_maxlength
           all == IF most = 0 THEN {0} ELSE 1..most
<1>1. \E n, looks, left, top :
        /\ looks # {} /\ looks \subseteq all /\ n = Max(looks)
        /\ walk' = [NoWalk EXCEPT !.read = n, !.left = left, !.topset = top]
  <2>1. PICK topset \in BOOLEAN :
          LET negative(n) == topset /\ n = WordBits /\ n = LongBits
              looks == {n \in all : Readable(reader, n) /\ ~negative(n)}
          IN  /\ looks # {}
              /\ walk' = [NoWalk EXCEPT !.read = Max(looks),
                            !.left = BitsLeft(reader), !.topset = topset]
    BY Zenon DEF LookAhead
  <2> DEFINE negative(n) == topset /\ n = WordBits /\ n = LongBits
             looks == {n \in all : Readable(reader, n) /\ ~negative(n)}
  <2>2. looks # {} /\ looks \subseteq all
    BY <2>1
  <2>3. walk' = [NoWalk EXCEPT !.read = Max(looks),
                               !.left = BitsLeft(reader), !.topset = topset]
    BY <2>1
  <2> HIDE DEF looks, all
  <2> QED
    BY <2>2, <2>3, Zenon
<1>2. PICK n, looks, left, top :
        /\ looks # {} /\ looks \subseteq all /\ n = Max(looks)
        /\ walk' = [NoWalk EXCEPT !.read = n, !.left = left, !.topset = top]
  BY <1>1, Zenon
<1>3. walk'.chase = 0 /\ walk'.i = 0 /\ walk'.read = n
  BY <1>2 DEF NoWalk
<1>4. most \in Nat /\ (most > 0 => s.used_entries > 0)
  <2>1. most \in 0..MaxLength /\ MaxLength \in 1..32
    BY LengthsFit DEF Longest
  <2> QED
    BY <2>1 DEF Longest
<1> HIDE DEF most
<1>5. CASE most = 0
  <2>1. looks = {0} /\ {0} = {0, 0} /\ 0 \in Nat
    BY <1>2, <1>5
  <2>2. n \in {0, 0}
    BY <1>2, <2>1, MaxOfTwo
  <2> QED
    BY <1>3, <2>2
<1>6. CASE most # 0
  <2>1. looks \in SUBSET (1..most)
    BY <1>2, <1>6
  <2>2. n \in looks
    BY <1>2, <1>4, <2>1, MaxFound
  <2> QED
    BY <1>3, <1>4, <1>6, <2>1, <2>2
<1> QED
  BY <1>5, <1>6

LEMMA WalkableStarts ==
  ASSUME RealWidths, BInv, Lists, Sizing, Shaped, PackTable, ~RefuseWords,
         stage' # "walk"
  PROVE  Walkable'
<1>1. /\ pc = "pack" /\ table' = Packed
      /\ \E has : s' = [s EXCEPT !.dec_table = TRUE, !.q_val = has]
  BY Zenon DEF PackTable
<1>2. /\ s'.dec_nodeb = s.dec_nodeb /\ s'.dec_leafw = s.dec_leafw
      /\ s'.entries = s.entries /\ s'.used_entries = s.used_entries
  <2>1. DOMAIN s = DOMAIN NoBook
    BY DEF BInv, Pointers
  <2> QED
    BY <1>1, <2>1, BookFields
<1> SUFFICES ASSUME s'.entries > 1, s'.used_entries > 0
             PROVE  \E nodes : Sound(table, nodes)'
  BY DEF Walkable
<1>3. PICK nodes : Sound(Packed, nodes)
  BY <1>1, <1>2, TableIsSound
<1>4. Sound(table', nodes)
  BY <1>1, <1>3
<1>5. Sound(table, nodes)'
  BY <1>2, <1>4, SoundStays
<1> QED
  BY <1>5

LEMMA WalkableWalks ==
  ASSUME BInv, Longest, Walkable, LookAhead \/ WalkBit, stage' = "walk"
  PROVE  Walkable'
<1>1. UNCHANGED vars /\ stage \in {"look", "walk"}
  BY Zenon DEF LookAhead, WalkBit
<1>2. pc = "ok"
  BY <1>1 DEF BInv, Served, Calling
<1>3. UNCHANGED <<pc, s, table>>
  BY <1>1 DEF vars
<1>4. /\ walk'.i \in Nat /\ walk'.read \in Nat
      /\ walk'.read > 0 => s.used_entries > 0
  <2>1. CASE LookAhead
    BY <2>1, LooksRead
  <2>2. CASE WalkBit
    <3>1. stage = "walk" /\ \E path, c :
            walk' = [walk EXCEPT !.path = path, !.chase = c, !.i = @ + 1]
      BY <2>2, Zenon DEF WalkBit
    <3> QED
      BY <3>1 DEF Walkable
  <2> QED
    BY <2>1, <2>2
<1>5. ASSUME s.entries > 1, s.used_entries > 0
      PROVE  \E nodes : Sound(table, nodes)' /\ walk'.chase \in nodes
  <2>1. PICK nodes : /\ Sound(table, nodes)
                     /\ stage = "walk" => walk.chase \in nodes
    BY <1>2, <1>5 DEF Walkable
  <2>2. Sound(table, nodes)'
    <3>1. Sound(table', nodes)
      BY <1>3, <2>1
    <3> QED
      BY <1>3, <3>1, SoundStays
  <2>3. CASE LookAhead
    <3>1. walk'.chase = 0 /\ 0 \in nodes
      BY <2>1, <2>3, LooksRead DEF Sound
    <3> QED
      BY <2>2, <3>1
  <2>4. CASE WalkBit
    <3>1. stage = "walk"
      BY <2>4, Zenon DEF WalkBit
    <3>2. PICK bit \in NextBits :
            \E cell \in Held(CellOf(walk.chase, bit)) :
              /\ ~Marked(cell)
              /\ \E path : walk' = [walk EXCEPT !.path = path, !.chase = cell,
                                                !.i = @ + 1]
      BY <2>4, Zenon DEF WalkBit
    <3>3. bit \in {0, 1}
      BY <3>2 DEF NextBits
    <3> DEFINE a == CellOf(walk.chase, bit)
    <3>4. /\ a \in DOMAIN table /\ table[a] \in Nat
          /\ ~Marked(table[a]) => table[a] \in nodes
      BY <2>1, <3>1, <3>3 DEF Sound
    <3>5. PICK cell \in Held(a) :
            /\ ~Marked(cell)
            /\ \E path : walk' = [walk EXCEPT !.path = path, !.chase = cell,
                                              !.i = @ + 1]
      BY <3>2, Zenon
    <3>6. cell = table[a]
      BY <3>4 DEF Held, Unset
    <3>7. walk'.chase = cell
      BY <3>5
    <3> QED
      BY <2>2, <3>4, <3>5, <3>6, <3>7
  <2> QED
    BY <2>3, <2>4
<1> QED
  BY <1>3, <1>4, <1>5 DEF Walkable

LEMMA WalkableStep ==
  ASSUME RealWidths, BInv, Lists, Longest, Sizing, Shaped, Walkable,
         [DecodeNext]_allVars
  PROVE  Walkable'
<1>0. DOMAIN s = DOMAIN NoBook
  BY DEF BInv, Pointers
<1>1. ASSUME stage' # "walk", pc' \notin {"scalars", "end", "ok"}
      PROVE  Walkable'
  BY <1>1 DEF Walkable
<1>2. ASSUME Unpack PROVE Walkable'
  <2>1. UNCHANGED stage
    BY <1>2 DEF Unpack, callVars
  <2>2. stage # "walk"
    <3>1. pc # "ok"
      BY <1>2, Zenon
         DEF Unpack, vorbis_book_unpack, ReadParameters, ReadOrdering,
         ReadLength, ReadRun, ReadMapping, PolishQuantvals, AllocLattice,
         ReadLattice, AllocWords, SkipEntry, ChaseTree, PlantLeaf, EndWords,
         PackTable, ReadScalars, Finish
    <3> QED
      BY <3>1 DEF BInv, Served, Calling
  <2>3. stage' # "walk"
    BY <2>1, <2>2
  <2>4. ASSUME NEW h, NEW listed, Refuse(h, listed) PROVE Walkable'
    BY <1>1, <2>3, <2>4 DEF Refuse
  <2>5. ASSUME RefuseWords PROVE Walkable'
    BY <2>4, <2>5, Zenon DEF RefuseWords
  <2>6. CASE \/ ReadParameters \/ ReadOrdering \/ ReadLength \/ ReadRun
             \/ ReadMapping \/ PolishQuantvals \/ AllocLattice \/ ReadLattice
             \/ AllocWords \/ SkipEntry
    <3>1. pc' \notin {"scalars", "end", "ok"}
      BY <2>6, Zenon DEF ReadParameters, ReadOrdering, ReadLength, ReadRun,
         ReadMapping, PolishQuantvals, AllocLattice, ReadLattice, AllocWords,
         SkipEntry, NextListed, Refuse
    <3> QED
      BY <1>1, <2>3, <3>1
  <2>7. CASE ChaseTree \/ PlantLeaf \/ EndWords
    <3>1. RefuseWords \/ pc' \in {"words", "pack"}
      BY <2>7 DEF ChaseTree, PlantLeaf, EndWords
    <3> QED
      BY <1>1, <2>3, <2>5, <3>1
  <2>8. CASE PackTable
    BY <2>3, <2>5, <2>8, WalkableStarts
  <2>9. CASE ReadScalars
    <3> SUFFICES ASSUME ~Refuse(heap, TRUE) PROVE Walkable'
      BY <2>4, Zenon
    <3>1. /\ pc = "scalars" /\ UNCHANGED table
          /\ \E n : s' = [s EXCEPT !.q_val = TRUE, !.q_pack = n]
      BY <2>9, Zenon DEF ReadScalars
    <3>2. /\ s'.dec_nodeb = s.dec_nodeb /\ s'.dec_leafw = s.dec_leafw
          /\ s'.entries = s.entries /\ s'.used_entries = s.used_entries
      BY <1>0, <3>1, BookFields
    <3> QED
      BY <2>3, <3>1, <3>2, WalkableStays
  <2>10. CASE Finish
    <3> SUFFICES ASSUME ~Refuse(heap, TRUE) PROVE Walkable'
      BY <2>4, Zenon
    <3>1. pc = "end" /\ UNCHANGED <<s, table>>
      BY <2>10, Zenon DEF Finish
    <3> QED
      BY <2>3, <3>1, WalkableStays
  <2> QED
    BY <1>2, <2>6, <2>7, <2>8, <2>9, <2>10 DEF Unpack, vorbis_book_unpack
<1>3. CASE Clear
  <2>1. stage' # "walk" /\ pc' = "cleared"
    BY <1>3 DEF Clear, vorbis_book_clear, callVars
  <2> QED
    BY <1>1, <2>1
<1>4. CASE \/ StartCall \/ NextVector \/ LookAhead \/ WalkBit \/ WalkEnds
           \/ UseEntry
  <2>1. pc = "ok" /\ UNCHANGED <<pc, s, table>>
    <3>1. UNCHANGED <<pc, s, table>>
      BY <1>4, Zenon DEF StartCall, NextVector, LookAhead, WalkBit, WalkEnds, UseEntry,
                  Return, vars
    <3>2. pc = "ok" \/ stage \in Calling
      BY <1>4, Zenon DEF StartCall, NextVector, LookAhead, WalkBit, WalkEnds, UseEntry,
                  Calling
    <3> QED
      BY <3>1, <3>2 DEF BInv, Served
  <2>2. CASE stage' # "walk"
    BY <2>1, <2>2, WalkableStays
  <2>3. CASE stage' = "walk"
    <3>1. LookAhead \/ WalkBit
      BY <1>4, <2>3 DEF StartCall, NextVector, WalkEnds, UseEntry, Return
    <3> QED
      BY <2>3, <3>1, WalkableWalks
  <2> QED
    BY <2>2, <2>3
<1>5. CASE UNCHANGED allVars
  <2>1. UNCHANGED <<pc, s, table, stage, walk>>
    BY <1>5 DEF allVars, vars, callVars
  <2>2. ASSUME NEW nodes, Sound(table, nodes) PROVE Sound(table, nodes)'
    <3>1. Sound(table', nodes)
      BY <2>1, <2>2
    <3> QED
      BY <2>1, <3>1, SoundStays
  <2> QED
    BY <2>1, <2>2 DEF Walkable
<1> QED
  BY <1>2, <1>3, <1>4, <1>5 DEF DecodeNext

LEMMA WalkStays ==
  ASSUME BInv, Walkable
  PROVE  WalkStaysInTable
<1> SUFFICES ASSUME stage = "walk", walk.i < walk.read, s.entries > 1,
                    NEW bit \in NextBits
             PROVE  LET a == CellOf(walk.chase, bit)
                    IN  /\ a \in DOMAIN table /\ table[a] # Unset
                        /\ Marked(table[a]) /\ ~InPlace /\ s.dec_leafw = 2
                             => LowHalf(walk.chase, bit) \in DOMAIN table
  BY DEF WalkStaysInTable
<1>1. pc = "ok"
  BY DEF BInv, Served, Calling
<1>2. s.used_entries > 0
  BY DEF Walkable
<1>3. PICK nodes : Sound(table, nodes) /\ walk.chase \in nodes
  BY <1>1, <1>2 DEF Walkable
<1>4. bit \in {0, 1}
  BY DEF NextBits
<1>5. LET a == CellOf(walk.chase, bit)
      IN  /\ a \in DOMAIN table /\ table[a] \in Nat
          /\ ~InPlace /\ s.dec_leafw = 2 =>
               /\ walk.chase + bit + 1 \in DOMAIN table
               /\ walk.chase + bit + 2 \in DOMAIN table
  BY <1>3, <1>4 DEF Sound
<1>6. LowHalf(walk.chase, bit) \in
        {walk.chase + bit + 1, walk.chase + bit + 2}
  <2>1. walk.chase \in Nat
    BY <1>3 DEF Sound
  <2> QED
    BY <1>4, <2>1 DEF LowHalf
<1> QED
  BY <1>5, <1>6 DEF Unset

(* On real widths, the walk of the tree reads written cells of the table   *)
(* and no others, in every book that is accepted, however its nodes and    *)
(* leaves are packed, and whatever bits the packet holds                   *)
(* (decode_packed_entry_number, codebook.c:673-766).                       *)
THEOREM WalkIsSafe ==
  ASSUME RealWidths
  PROVE  DecodeSpec => []WalkStaysInTable
<1>1. DecodeInit => BInv
  BY BookStarts
<1>2. DecodeInit => /\ Lists /\ Trees /\ Growth /\ Searching /\ Longest
                    /\ Sizing /\ Shaped /\ Walkable
  BY LengthsFit DEF DecodeInit, Init, Lists, Trees, Growing, Listed, Growth,
     Searching, Longest, Sizing, Making, Shaped, Walkable, NoBook
<1>3. BInv /\ Walkable => WalkStaysInTable
  BY WalkStays
<1>4. BInv /\ Lists /\ Trees /\ Growth /\ [DecodeNext]_allVars
        => Lists' /\ Trees' /\ Growth'
  BY ListsStep, TreesStep, GrowthStep
<1>5. BInv /\ [DecodeNext]_allVars => BInv'
  BY BookInductive
<1>6. BInv /\ Searching /\ [DecodeNext]_allVars => Searching'
  BY SearchStep
<1>7. BInv /\ Lists /\ Longest /\ [DecodeNext]_allVars => Longest'
  BY LongestStep
<1>8. BInv /\ Lists /\ Searching /\ Sizing /\ [DecodeNext]_allVars => Sizing'
  BY SizingStep
<1>9. BInv /\ Lists /\ Trees /\ Growth /\ Sizing /\ Shaped
        /\ [DecodeNext]_allVars => Shaped'
  BY ShapedStep
<1>10. BInv /\ Lists /\ Longest /\ Sizing /\ Shaped /\ Walkable
         /\ [DecodeNext]_allVars => Walkable'
  BY WalkableStep
<1> QED
  BY <1>1, <1>2, <1>3, <1>4, <1>5, <1>6, <1>7, <1>8, <1>9, <1>10, PTL
     DEF DecodeSpec

(* Where a leaf needs no more bits than the number of an entry, and where  *)
(* it has two cells, every node of a packed table can be named beside the  *)
(* mark of a leaf, as the size of the nodes promises (codebook.c:137).     *)
LEMMA NodesAreNamed ==
  ASSUME RealWidths, Lists, Sizing, Shaped,
         s.dec_type \in {0, 3} \/ s.dec_leafw = 2
  PROVE  NodesFit
<1> SUFFICES ASSUME pc = "pack", ~InPlace,
                    NEW k \in 0..(s.used_entries - 2)
             PROVE  (IF s.dec_leafw = 1 THEN k
                     ELSE NodeStarts(tree.r, s.used_entries)[k])
                      < TopBit(s.dec_nodeb * ByteBits)
  BY DEF NodesFit
<1> DEFINE u == s.used_entries
           r == tree.r
<1>1. u \in Nat /\ u <= s.entries /\ s.entries = sent.entries /\ NodeSized(s)
  BY DEF Sizing, Making
<1>2. /\ u >= 2 /\ s.dec_nodeb \in {1, 2}
      /\ \/ /\ s.dec_leafw = 1
            /\ s.dec_type \in {0, 3} =>
                 u - 2 < TwoTo(s.dec_nodeb * ByteBits - 1)
         \/ s.dec_leafw = 2 /\ ilog(3 * u - 6) < s.dec_nodeb * ByteBits
  BY <1>1 DEF NodeSized, InPlace
<1>3. /\ CellBits = s.dec_nodeb * ByteBits
      /\ TopBit(CellBits) = TwoTo(CellBits - 1) /\ TopBit(CellBits) \in Nat
  BY <1>2, CellWidth
<1>4. CASE s.dec_leafw = 1
  <2>1. u - 2 < TopBit(CellBits)
    BY <1>2, <1>3, <1>4
  <2> QED
    BY <1>1, <1>3, <1>4, <2>1
<1>5. CASE s.dec_leafw = 2
  <2>1. s.entries > 1 /\ u < TwoTo(24)
    <3>1. sent.entries \in Sizes
      BY SentFits DEF Lists
    <3>2. sent.entries \in Nat /\ sent.entries < 16777216
      BY <3>1, SizesAre
    <3>3. TwoTo(24) = 16777216
      BY Thirty
    <3> HIDE DEF u
    <3> QED
      BY <1>1, <1>2, <3>2, <3>3
  <2>2. /\ tree.chase = 0 /\ tree.count = u /\ Grown(tree) /\ tree.top = u - 1
    BY <1>2, <2>1 DEF Shaped
  <2> HIDE DEF u
  <2>3. /\ \A j \in 0..(u - 2), o \in {0, 1} :
             LET w == r[2 * j + o]
             IN  w \in Nat /\ (IsLeaf(w) \/ (j < w /\ w <= u - 2))
        /\ Cardinality(LeafCells(r, 2 * u - 2)) = u
    BY <1>1, <1>2, <2>2, WholeTree
  <2> HIDE DEF r
  <2>4. NodeStarts(r, u)[k] = StartOf(r, k)
    <3>1. NodeStarts(r, u) = [j \in 0..(u - 2) |-> StartOf(r, j)]
      BY <1>1, <1>2, <2>3, StartsAre
    <3> QED
      BY <3>1 DEF u
  <2>5. k \in 0..(u - 2)
    BY DEF u
  <2>6. StartOf(r, k) < TopBit(CellBits)
    BY <1>1, <1>2, <1>5, <2>1, <2>3, <2>5, StartsFit
  <2> QED
    BY <1>3, <1>5, <2>4, <2>6 DEF u, r
<1> QED
  BY <1>2, <1>4, <1>5


(* Every node of a packed table whose leaves hold numbers of entries, or   *)
(* take two cells, can be told from a leaf, for every book of both sizes   *)
(* (codebook.c:137, 298).                                                  *)
THEOREM NodesAreFit ==
  ASSUME RealWidths
  PROVE  DecodeSpec => [](s.dec_type \in {0, 3} \/ s.dec_leafw = 2 => NodesFit)
<1> DEFINE Named == s.dec_type \in {0, 3} \/ s.dec_leafw = 2 => NodesFit
<1>1. DecodeInit => BInv
  BY BookStarts
<1>2. DecodeInit => /\ Lists /\ Trees /\ Growth /\ Searching /\ Sizing /\ Shaped
  BY DEF DecodeInit, Init, Lists, Trees, Growing, Listed, Growth, Searching,
         Sizing, Making, Shaped
<1>3. Lists /\ Sizing /\ Shaped => Named
  BY NodesAreNamed
<1>4. BInv /\ Lists /\ Trees /\ Growth /\ [DecodeNext]_allVars
        => Lists' /\ Trees' /\ Growth'
  BY ListsStep, TreesStep, GrowthStep
<1>5. BInv /\ [DecodeNext]_allVars => BInv'
  BY BookInductive
<1>6. BInv /\ Searching /\ [DecodeNext]_allVars => Searching'
  BY SearchStep
<1>7. BInv /\ Lists /\ Searching /\ Sizing /\ [DecodeNext]_allVars => Sizing'
  BY SizingStep
<1>8. BInv /\ Lists /\ Trees /\ Growth /\ Sizing /\ Shaped
        /\ [DecodeNext]_allVars => Shaped'
  BY ShapedStep
<1> QED
  BY <1>1, <1>2, <1>3, <1>4, <1>5, <1>6, <1>7, <1>8, PTL DEF DecodeSpec
-----------------------------------------------------------------------------
(* Words as bits: a word is told by its bits, and the first of them are    *)
(* those of its quotient.                                                  *)

LEMMA HalvesOf ==
  ASSUME NEW x \in Nat
  PROVE  \E y \in Nat : x = 2 * y \/ x = 2 * y + 1
<1>1. x \div 2 \in Nat /\ (x = 2 * (x \div 2) \/ x = 2 * (x \div 2) + 1)
  OBVIOUS
<1> QED
  BY <1>1

LEMMA SameBits ==
  ASSUME NEW n \in 0..32, NEW x \in Nat, NEW y \in Nat,
         x < TwoTo(n), y < TwoTo(n),
         \A k \in 0..(n - 1) : Bit(x, n, k) = Bit(y, n, k)
  PROVE  x = y
<1> DEFINE Told(i) == i <= 32 =>
             \A u, v \in Nat :
               u < TwoTo(i) /\ v < TwoTo(i)
                 /\ (\A k \in 0..(i - 1) : Bit(u, i, k) = Bit(v, i, k)) => u = v
           T == {i \in Nat : Told(i)}
<1>1. 0 \in T
  <2>1. TwoTo(0) = 1
    BY Doubling
  <2>2. \A u, v \in Nat : u < 1 /\ v < 1 => u = v
    OBVIOUS
  <2> QED
    BY <2>1, <2>2
<1>2. ASSUME NEW i \in Nat, i \in T PROVE i + 1 \in T
  <2> SUFFICES ASSUME i + 1 <= 32, NEW u \in Nat, NEW v \in Nat,
                      u < TwoTo(i + 1), v < TwoTo(i + 1),
                      \A k \in 0..i : Bit(u, i + 1, k) = Bit(v, i + 1, k)
               PROVE  u = v
    <3>1. (i + 1) - 1 = i
      OBVIOUS
    <3> QED
      BY <3>1
  <2>1. PICK a \in Nat : u = 2 * a \/ u = 2 * a + 1
    BY HalvesOf
  <2>2. PICK b \in Nat : v = 2 * b \/ v = 2 * b + 1
    BY HalvesOf
  <2>3. i \in 0..31 /\ i \in 0..32 /\ i < 32 /\ i + 1 \in 1..32 /\ (i + 1) - 1 = i
    OBVIOUS
  <2>4. TwoTo(i + 1) = 2 * TwoTo(i) /\ TwoTo(i) \in Nat
    BY <2>3, Doubling
  <2>5. a < TwoTo(i) /\ b < TwoTo(i)
    BY <2>1, <2>2, <2>4
  <2>6. ASSUME NEW k \in 0..(i - 1) PROVE Bit(a, i, k) = Bit(b, i, k)
    <3>1. Bit(u, i + 1, k) = Bit(a, i, k)
      BY <2>1, <2>3, BitsHang
    <3>2. Bit(v, i + 1, k) = Bit(b, i, k)
      BY <2>2, <2>3, BitsHang
    <3>3. k \in 0..i
      BY <2>3
    <3> QED
      BY <3>1, <3>2, <3>3
  <2>7. a = b
    <3>1. Told(i) /\ i <= 32
      BY <1>2, <2>3
    <3> QED
      BY <3>1, <2>5, <2>6
  <2>8. u % 2 = v % 2
    <3>1. Bit(u, i + 1, (i + 1) - 1) = u % 2 /\ Bit(v, i + 1, (i + 1) - 1) = v % 2
      BY <2>3, LastBit
    <3>2. i \in 0..i
      BY <2>3
    <3> QED
      BY <3>1, <3>2, <2>3
  <2> QED
    BY <2>1, <2>2, <2>7, <2>8
<1> HIDE DEF Told
<1>3. Nat \subseteq T
  BY <1>1, <1>2, InductiveSet
<1>4. Told(n) /\ n <= 32
  BY <1>3
<1> QED
  BY <1>4 DEF Told

LEMMA BitsOfPart ==
  ASSUME NEW n \in 0..32, NEW d \in Nat, n + d <= 32, NEW x \in Nat,
         NEW k \in 0..(n - 1)
  PROVE  Bit(x \div TwoTo(d), n, k) = Bit(x, n + d, k)
<1> DEFINE Told(i) == n + i <= 32 =>
             \A u \in Nat : Bit(u \div TwoTo(i), n, k) = Bit(u, n + i, k)
           T == {i \in Nat : Told(i)}
<1>1. 0 \in T
  <2>1. TwoTo(0) = 1 /\ n + 0 = n
    BY Doubling
  <2>2. \A u \in Nat : u \div 1 = u
    OBVIOUS
  <2> QED
    BY <2>1, <2>2
<1>2. ASSUME NEW i \in Nat, i \in T PROVE i + 1 \in T
  <2> SUFFICES ASSUME n + (i + 1) <= 32, NEW u \in Nat
               PROVE  Bit(u \div TwoTo(i + 1), n, k) = Bit(u, n + (i + 1), k)
    OBVIOUS
  <2>1. PICK a \in Nat : u = 2 * a \/ u = 2 * a + 1
    BY HalvesOf
  <2>2. /\ i \in 0..32 /\ i < 32 /\ n + i \in 0..31 /\ n + (i + 1) = (n + i) + 1
        /\ k \in 0..((n + i) - 1) /\ n + i <= 32
    OBVIOUS
  <2>3. TwoTo(i + 1) = 2 * TwoTo(i) /\ TwoTo(i) \in Nat /\ TwoTo(i) > 0
    BY <2>2, Doubling
  <2>4. u \div TwoTo(i + 1) = a \div TwoTo(i)
    BY <2>1, <2>3, HalvesAlike
  <2>5. Bit(u, n + (i + 1), k) = Bit(a, n + i, k)
    BY <2>1, <2>2, BitsHang
  <2>6. Bit(a \div TwoTo(i), n, k) = Bit(a, n + i, k)
    BY <1>2, <2>2
  <2> QED
    BY <2>4, <2>5, <2>6
<1> HIDE DEF Told
<1>3. Nat \subseteq T
  BY <1>1, <1>2, InductiveSet
<1>4. Told(d)
  BY <1>3
<1> QED
  BY <1>4 DEF Told

(* The quotient is as small as its bits allow, and is where it should be.  *)
LEMMA PartIs ==
  ASSUME NEW b \in Nat, b > 0, NEW x \in Nat, NEW q \in Nat
  PROVE  x \div b = q <=> q * b <= x /\ x < q * b + b
<1>1. ASSUME x \div b = q PROVE q * b <= x /\ x < q * b + b
  <2> DEFINE r == x % b
  <2>1. r \in Nat /\ r < b /\ x = q * b + r
    BY <1>1
  <2>2. q * b \in Nat
    OBVIOUS
  <2> HIDE DEF r
  <2> QED
    BY <2>1, <2>2
<1>2. ASSUME q * b <= x, x < q * b + b PROVE x \div b = q
  <2> DEFINE p == q * b
             r == x - p
  <2>1. p \in Nat
    OBVIOUS
  <2> HIDE DEF p
  <2>2. p <= x /\ x < p + b
    BY <1>2 DEF p
  <2>3. r \in Nat /\ r < b /\ x = p + r
    BY <2>1, <2>2
  <2> HIDE DEF r
  <2>4. (q * b + r) \div b = q
    BY <2>3, QuotientIs
  <2> QED
    BY <2>3, <2>4 DEF p
<1> QED
  BY <1>1, <1>2

LEMMA PowersMultiply ==
  ASSUME NEW n \in 0..32, NEW d \in Nat, n + d <= 32
  PROVE  TwoTo(n + d) = TwoTo(n) * TwoTo(d)
<1> DEFINE Told(i) == n + i <= 32 => TwoTo(n + i) = TwoTo(n) * TwoTo(i)
           T == {i \in Nat : Told(i)}
<1>0. TwoTo(n) \in Nat /\ TwoTo(0) = 1
  BY Doubling
<1>1. 0 \in T
  <2>1. n + 0 = n
    OBVIOUS
  <2> QED
    BY <1>0, <2>1
<1>2. ASSUME NEW i \in Nat, i \in T PROVE i + 1 \in T
  <2> SUFFICES ASSUME n + (i + 1) <= 32
               PROVE  TwoTo(n + (i + 1)) = TwoTo(n) * TwoTo(i + 1)
    OBVIOUS
  <2>1. /\ i \in 0..32 /\ i < 32 /\ n + i \in 0..32 /\ n + i < 32
        /\ n + (i + 1) = (n + i) + 1 /\ n + i <= 32
    OBVIOUS
  <2>2. TwoTo(i + 1) = 2 * TwoTo(i) /\ TwoTo(i) \in Nat
    BY <2>1, Doubling
  <2>3. TwoTo((n + i) + 1) = 2 * TwoTo(n + i)
    BY <2>1, Doubling
  <2>4. TwoTo(n + i) = TwoTo(n) * TwoTo(i)
    BY <1>2, <2>1
  <2> DEFINE a == TwoTo(n)
             c == TwoTo(i)
  <2>5. a \in Nat /\ c \in Nat
    BY <1>0, <2>2
  <2>6. 2 * (a * c) = a * (2 * c)
    <3> HIDE DEF a, c
    <3> QED
      BY <2>5
  <2> QED
    BY <2>1, <2>2, <2>3, <2>4, <2>6
<1> HIDE DEF Told
<1>3. Nat \subseteq T
  BY <1>1, <1>2, InductiveSet
<1>4. Told(d)
  BY <1>3
<1> QED
  BY <1>4 DEF Told
-----------------------------------------------------------------------------
(* The words as prefixes of the deepest ones.                              *)

(* A deep word is its bits; a word begins it that has the first of them.   *)
Deep == [0..(MaxLength - 1) -> {0, 1}]
Begins(n, v, x) == \A k \in 0..(n - 1) : x[k] = Bit(v, n, k)
IsWord(n, v) == n \in 0..MaxLength /\ v \in Nat /\ v < TwoTo(n)
Zeroed(n, v) == [k \in 0..(MaxLength - 1) |-> IF k < n THEN Bit(v, n, k) ELSE 0]

LEMMA ZeroedIs ==
  ASSUME NEW n, NEW v, IsWord(n, v)
  PROVE  /\ Zeroed(n, v) \in Deep /\ Begins(n, v, Zeroed(n, v))
         /\ \A k \in n..(MaxLength - 1) : Zeroed(n, v)[k] = 0
<1>1. MaxLength \in 1..32 /\ n \in 0..MaxLength /\ v \in Nat
  BY LengthsFit DEF IsWord
<1>2. ASSUME NEW k \in 0..(n - 1) PROVE Bit(v, n, k) \in {0, 1}
  <2>1. n \in 1..32
    BY <1>1
  <2> QED
    BY <1>1, <2>1, BitIs
<1>3. ASSUME NEW k \in 0..(MaxLength - 1), k < n PROVE k \in 0..(n - 1)
  BY <1>1, <1>3
<1>4. Zeroed(n, v) \in Deep
  BY <1>2, <1>3 DEF Zeroed, Deep
<1>5. Begins(n, v, Zeroed(n, v))
  <2>1. ASSUME NEW k \in 0..(n - 1) PROVE k \in 0..(MaxLength - 1) /\ k < n
    BY <1>1
  <2> QED
    BY <2>1 DEF Begins, Zeroed
<1>6. ASSUME NEW k \in n..(MaxLength - 1) PROVE Zeroed(n, v)[k] = 0
  <2>1. k \in 0..(MaxLength - 1) /\ ~(k < n)
    BY <1>1
  <2> QED
    BY <2>1 DEF Zeroed
<1> QED
  BY <1>4, <1>5, <1>6

(* A word is the quotient of a longer one that it begins.                  *)
LEMMA PartTells ==
  ASSUME NEW n \in 0..32, NEW len \in n..32, NEW x \in Nat, x < TwoTo(n),
         NEW v \in Nat, v < TwoTo(len)
  PROVE  v \div TwoTo(len - n) = x
           <=> \A k \in 0..(n - 1) : Bit(v, len, k) = Bit(x, n, k)
<1> DEFINE d == len - n
           b == TwoTo(d)
           q == v \div b
<1>1. d \in 0..32 /\ d \in Nat /\ n + d = len /\ n + d <= 32
  OBVIOUS
<1> HIDE DEF d
<1>2. b \in Nat /\ b > 0 /\ TwoTo(n) \in Nat /\ TwoTo(n) * b = TwoTo(len)
  <2>1. b \in Nat \ {0} /\ TwoTo(n) \in Nat \ {0}
    BY <1>1, Doubling
  <2>2. TwoTo(n + d) = TwoTo(n) * TwoTo(d)
    BY <1>1, PowersMultiply
  <2>3. TwoTo(len) = TwoTo(n) * b
    BY <1>1, <2>2, Zenon DEF b
  <2> HIDE DEF b
  <2> QED
    BY <2>1, <2>3
<1> HIDE DEF b
<1>3. q \in Nat
  BY <1>2
<1>4. q * b <= v
  BY <1>2, <1>3, PartIs
<1>5. q < TwoTo(n)
  <2> DEFINE a == TwoTo(n)
  <2> SUFFICES ASSUME q >= a PROVE FALSE
    BY <1>2, <1>3
  <2>1. PICK c \in Nat : q = a + c
    <3>1. q - a \in Nat /\ q = a + (q - a)
      BY <1>2, <1>3
    <3> QED
      BY <3>1
  <2>2. a \in Nat /\ a * b = TwoTo(len)
    BY <1>2
  <2> HIDE DEF a, q
  <2>3. q * b = a * b + c * b /\ c * b \in Nat /\ a * b \in Nat
    BY <1>2, <2>1, <2>2
  <2> QED
    BY <1>4, <2>2, <2>3
<1>6. \A k \in 0..(n - 1) : Bit(q, n, k) = Bit(v, len, k)
  BY <1>1, BitsOfPart DEF b
<1>7. (\A k \in 0..(n - 1) : Bit(q, n, k) = Bit(x, n, k)) => q = x
  <2> HIDE DEF q
  <2> QED
    BY <1>3, <1>5, SameBits
<1> HIDE DEF q
<1>8. q = x <=> \A k \in 0..(n - 1) : Bit(v, len, k) = Bit(x, n, k)
  BY <1>6, <1>7, Zenon
<1> QED
  BY <1>8 DEF q, b, d

(* Words clash if the shorter begins the longer.                           *)
LEMMA ClashTells ==
  ASSUME NEW u, NEW w, IsWord(u[1], u[2]), IsWord(w[1], w[2])
  PROVE  /\ u[1] <= w[1] =>
              (Clash(u, w) <=> \A k \in 0..(u[1] - 1) :
                                 Bit(w[2], w[1], k) = Bit(u[2], u[1], k))
         /\ u[1] > w[1] =>
              (Clash(u, w) <=> \A k \in 0..(w[1] - 1) :
                                 Bit(u[2], u[1], k) = Bit(w[2], w[1], k))
<1>1. /\ u[1] \in 0..32 /\ w[1] \in 0..32 /\ u[2] \in Nat /\ w[2] \in Nat
      /\ u[2] < TwoTo(u[1]) /\ w[2] < TwoTo(w[1])
  BY LengthsFit DEF IsWord
<1>2. ASSUME u[1] <= w[1]
      PROVE  Clash(u, w) <=> \A k \in 0..(u[1] - 1) :
                               Bit(w[2], w[1], k) = Bit(u[2], u[1], k)
  <2>1. w[1] \in u[1]..32
    BY <1>1, <1>2
  <2>2. w[2] \div TwoTo(w[1] - u[1]) = u[2] <=>
          \A k \in 0..(u[1] - 1) : Bit(w[2], w[1], k) = Bit(u[2], u[1], k)
    <3> DEFINE n == u[1]
               len == w[1]
               x == u[2]
               v == w[2]
    <3>1. /\ n \in 0..32 /\ len \in n..32 /\ x \in Nat /\ v \in Nat
          /\ x < TwoTo(n) /\ v < TwoTo(len)
      BY <1>1, <2>1
    <3> HIDE DEF n, len, x, v
    <3>2. v \div TwoTo(len - n) = x
            <=> \A k \in 0..(n - 1) : Bit(v, len, k) = Bit(x, n, k)
      BY <3>1, PartTells
    <3> QED
      BY <3>2 DEF n, len, x, v
  <2> QED
    BY <1>2, <2>2 DEF Clash, TwoTo
<1>3. ASSUME u[1] > w[1]
      PROVE  Clash(u, w) <=> \A k \in 0..(w[1] - 1) :
                               Bit(u[2], u[1], k) = Bit(w[2], w[1], k)
  <2>1. u[1] \in w[1]..32 /\ ~(u[1] <= w[1])
    BY <1>1, <1>3
  <2>2. u[2] \div TwoTo(u[1] - w[1]) = w[2] <=>
          \A k \in 0..(w[1] - 1) : Bit(u[2], u[1], k) = Bit(w[2], w[1], k)
    <3> DEFINE n == w[1]
               len == u[1]
               x == w[2]
               v == u[2]
    <3>1. /\ n \in 0..32 /\ len \in n..32 /\ x \in Nat /\ v \in Nat
          /\ x < TwoTo(n) /\ v < TwoTo(len)
      BY <1>1, <2>1
    <3> HIDE DEF n, len, x, v
    <3>2. v \div TwoTo(len - n) = x
            <=> \A k \in 0..(n - 1) : Bit(v, len, k) = Bit(x, n, k)
      BY <3>1, PartTells
    <3> QED
      BY <3>2 DEF n, len, x, v
  <2> QED
    BY <2>1, <2>2 DEF Clash, TwoTo
<1> QED
  BY <1>2, <1>3

(* Words that begin one deep word clash, and of two that clash both begin  *)
(* the longer one with zeros after it.                                     *)
LEMMA ClashIsCommon ==
  ASSUME NEW u, NEW w, IsWord(u[1], u[2]), IsWord(w[1], w[2])
  PROVE  Clash(u, w) <=> \E x \in Deep : Begins(u[1], u[2], x) /\ Begins(w[1], w[2], x)
<1>1. MaxLength \in 1..32 /\ u[1] \in 0..MaxLength /\ w[1] \in 0..MaxLength
  BY LengthsFit DEF IsWord
<1>2. ASSUME NEW x \in Deep, Begins(u[1], u[2], x), Begins(w[1], w[2], x) PROVE Clash(u, w)
  <2>1. ASSUME u[1] <= w[1], NEW k \in 0..(u[1] - 1)
        PROVE  Bit(w[2], w[1], k) = Bit(u[2], u[1], k)
    <3>1. k \in 0..(w[1] - 1)
      BY <1>1, <2>1
    <3> QED
      BY <1>2, <3>1 DEF Begins
  <2>2. ASSUME u[1] > w[1], NEW k \in 0..(w[1] - 1)
        PROVE  Bit(u[2], u[1], k) = Bit(w[2], w[1], k)
    <3>1. k \in 0..(u[1] - 1)
      BY <1>1, <2>2
    <3> QED
      BY <1>2, <3>1 DEF Begins
  <2>3. u[1] <= w[1] \/ u[1] > w[1]
    BY <1>1
  <2> QED
    BY <2>1, <2>2, <2>3, ClashTells
<1>3. ASSUME Clash(u, w) PROVE \E x \in Deep : Begins(u[1], u[2], x) /\ Begins(w[1], w[2], x)
  <2>1. CASE u[1] <= w[1]
    <3>1. \A k \in 0..(u[1] - 1) : Bit(w[2], w[1], k) = Bit(u[2], u[1], k)
      BY <1>3, <2>1, ClashTells
    <3>2. Zeroed(w[1], w[2]) \in Deep /\ Begins(w[1], w[2], Zeroed(w[1], w[2]))
      BY ZeroedIs
    <3>3. \A k \in 0..(u[1] - 1) : k \in 0..(w[1] - 1)
      BY <1>1, <2>1
    <3>4. Begins(u[1], u[2], Zeroed(w[1], w[2]))
      BY <3>1, <3>2, <3>3 DEF Begins
    <3> QED
      BY <3>2, <3>4
  <2>2. CASE u[1] > w[1]
    <3>1. \A k \in 0..(w[1] - 1) : Bit(u[2], u[1], k) = Bit(w[2], w[1], k)
      BY <1>3, <2>2, ClashTells
    <3>2. Zeroed(u[1], u[2]) \in Deep /\ Begins(u[1], u[2], Zeroed(u[1], u[2]))
      BY ZeroedIs
    <3>3. \A k \in 0..(w[1] - 1) : k \in 0..(u[1] - 1)
      BY <1>1, <2>2
    <3>4. Begins(w[1], w[2], Zeroed(u[1], u[2]))
      BY <3>1, <3>2, <3>3 DEF Begins
    <3> QED
      BY <3>2, <3>4
  <2>3. u[1] <= w[1] \/ u[1] > w[1]
    BY <1>1
  <2> QED
    BY <2>1, <2>2, <2>3
<1> QED
  BY <1>2, <1>3
-----------------------------------------------------------------------------
(* The words taken and the words that hang free part the deep words: each  *)
(* begins with one of them.  A word is in a pair with its entry, a free    *)
(* word with 0.                                                            *)

Coded(C) ==
  \A c \in C : /\ c = <<c[1], <<c[2][1], c[2][2]>>>> /\ c[1] \in Nat \ {0}
               /\ c[2][1] \in 1..MaxLength /\ c[2][2] \in Nat
               /\ c[2][2] < TwoTo(c[2][1])
Hung(m, ends) == {<<0, <<j, m[j]>>>> : j \in ends}
Parted(W) ==
  \A x \in Deep :
    \E c \in W : /\ Begins(c[2][1], c[2][2], x)
                /\ \A d \in W : Begins(d[2][1], d[2][2], x) => d = c

(* The lengths with a free word; before the first it is the empty one.     *)
Ends(t) == IF t.count = 0 THEN {0} ELSE Odd(t.marker)

(* The deep words of a free word go to the words that take its place.      *)
LEMMA TakenBegins ==
  ASSUME NEW L \in 1..MaxLength, NEW m, NEW n, NEW stop, Taken(m, n, L, stop),
         NEW x \in Deep
  PROVE  /\ Begins(L, m[L], x) <=>
              Begins(stop, m[stop], x) /\ \A k \in stop..(L - 1) : x[k] = 0
         /\ \A j \in (stop + 1)..L :
              Begins(j, n[j], x) <=>
                /\ Begins(stop, m[stop], x)
                /\ \A k \in stop..(j - 2) : x[k] = 0
                /\ x[j - 1] = 1
<1>1. /\ MaxLength \in 1..32 /\ L \in 1..32 /\ stop \in 0..L
      /\ m \in [0..MaxLength -> Nat] /\ n \in [0..MaxLength -> Nat]
  BY LengthsFit DEF Taken
<1>2. \A k \in 0..(L - 1) : k \in 0..(stop - 1) \/ k \in stop..(L - 1)
  BY <1>1
<1>3. \A k \in 0..(stop - 1) : k \in 0..(L - 1)
  BY <1>1
<1>4. \A k \in stop..(L - 1) : k \in 0..(L - 1)
  BY <1>1
<1>5. L \in stop..L
  BY <1>1
<1>6. /\ \A k \in 0..(stop - 1) : Bit(m[L], L, k) = Bit(m[stop], stop, k)
      /\ \A k \in stop..(L - 1) : Bit(m[L], L, k) = 0
  BY <1>5, TakenBits
<1>7. Begins(L, m[L], x) <=>
        Begins(stop, m[stop], x) /\ \A k \in stop..(L - 1) : x[k] = 0
  <2>1. Begins(L, m[L], x) <=> \A k \in 0..(L - 1) : x[k] = Bit(m[L], L, k)
    BY DEF Begins
  <2>2. Begins(stop, m[stop], x)
          <=> \A k \in 0..(stop - 1) : x[k] = Bit(m[stop], stop, k)
    BY DEF Begins
  <2> QED
    BY <1>2, <1>3, <1>4, <1>6, <2>1, <2>2, Zenon
<1>8. ASSUME NEW j \in (stop + 1)..L
      PROVE  Begins(j, n[j], x) <=>
               /\ Begins(stop, m[stop], x)
               /\ \A k \in stop..(j - 2) : x[k] = 0
               /\ x[j - 1] = 1
  <2>1. /\ j \in 1..32 /\ j \in 0..MaxLength /\ j - 1 \in 0..MaxLength
        /\ j \in Nat /\ stop \in Nat
    BY <1>1
  <2>2. \A k \in 0..(j - 2) :
          Bit(n[j], j, k) = IF k < stop THEN Bit(m[stop], stop, k) ELSE 0
    BY FreedBits
  <2>3. Bit(n[j], j, j - 1) = 1
    <3>1. n[j] \in Nat /\ m[j - 1] \in Nat
      BY <1>1, <2>1
    <3>2. Bit(n[j], j, j - 1) = n[j] % 2
      BY <2>1, <3>1, LastBit
    <3>3. n[j] = 2 * m[j - 1] + 1
      BY DEF Taken
    <3> QED
      BY <3>1, <3>2, <3>3
  <2>4. \A k \in 0..(j - 1) : k \in 0..(j - 2) \/ k = j - 1
    BY <2>1
  <2>5. \A k \in 0..(j - 2) : k \in 0..(j - 1)
    BY <2>1
  <2>6. j - 1 \in 0..(j - 1)
    BY <2>1
  <2>7. \A k \in 0..(j - 2) :
          \/ k \in 0..(stop - 1) /\ k < stop
          \/ k \in stop..(j - 2) /\ ~(k < stop)
    <3> SUFFICES ASSUME NEW k \in 0..(j - 2)
                 PROVE  \/ k \in 0..(stop - 1) /\ k < stop
                        \/ k \in stop..(j - 2) /\ ~(k < stop)
      OBVIOUS
    <3> QED
      BY <2>1
  <2>8. \A k \in 0..(stop - 1) : k \in 0..(j - 2) /\ k < stop
    BY <2>1
  <2>9. \A k \in stop..(j - 2) : k \in 0..(j - 2) /\ ~(k < stop)
    BY <2>1
  <2>10. Begins(j, n[j], x) <=> \A k \in 0..(j - 1) : x[k] = Bit(n[j], j, k)
    BY DEF Begins
  <2>11. Begins(stop, m[stop], x)
           <=> \A k \in 0..(stop - 1) : x[k] = Bit(m[stop], stop, k)
    BY DEF Begins
  <2>12. Begins(j, n[j], x) <=>
           /\ \A k \in 0..(j - 2) : x[k] = Bit(n[j], j, k)
           /\ x[j - 1] = 1
    BY <2>3, <2>4, <2>5, <2>6, <2>10, Zenon
  <2>13. (\A k \in 0..(j - 2) : x[k] = Bit(n[j], j, k)) <=>
           /\ \A k \in 0..(stop - 1) : x[k] = Bit(m[stop], stop, k)
           /\ \A k \in stop..(j - 2) : x[k] = 0
    <3>1. \A k \in 0..(stop - 1) : Bit(n[j], j, k) = Bit(m[stop], stop, k)
      BY <2>2, <2>8, Zenon
    <3>2. \A k \in stop..(j - 2) : Bit(n[j], j, k) = 0
      BY <2>2, <2>9, Zenon
    <3> QED
      BY <2>7, <2>8, <2>9, <3>1, <3>2, Zenon
  <2> QED
    BY <2>11, <2>12, <2>13, Zenon
<1> QED
  BY <1>7, <1>8

(* Each of them goes to one.                                               *)
LEMMA TakenParts ==
  ASSUME NEW L \in 1..MaxLength, NEW m, NEW n, NEW stop, Taken(m, n, L, stop),
         NEW x \in Deep
  PROVE  /\ Begins(L, m[L], x) => Begins(stop, m[stop], x)
         /\ \A j \in (stop + 1)..L :
              Begins(j, n[j], x) => /\ Begins(stop, m[stop], x)
                                        /\ ~Begins(L, m[L], x)
         /\ Begins(stop, m[stop], x) =>
              \/ Begins(L, m[L], x)
              \/ \E j \in (stop + 1)..L : Begins(j, n[j], x)
<1>1. stop \in 0..L /\ L \in Nat /\ stop \in Nat
  BY LengthsFit DEF Taken
<1>2. \A j \in (stop + 1)..L : j - 1 \in stop..(L - 1)
  BY <1>1
<1>4. ASSUME NEW k \in stop..(L - 1), x[k] # 0
      PROVE  \E j \in (stop + 1)..L : x[j - 1] = 1 /\ \A i \in stop..(j - 2) : x[i] = 0
  <2> DEFINE T == {i \in stop..(L - 1) : x[i] # 0}
  <2>1. T \in SUBSET Nat /\ T # {}
    BY <1>1, <1>4
  <2>2. PICK i \in T : \A y \in T : i <= y
    BY <2>1, LeastNumber
  <2>3. i + 1 \in (stop + 1)..L /\ (i + 1) - 1 = i /\ i \in Nat
    BY <1>1, <2>2
  <2>4. \A y \in stop..((i + 1) - 2) : y \in stop..(L - 1) /\ ~(i <= y)
    BY <1>1, <2>2
  <2>5. x[i] = 1
    <3>1. i \in 0..(MaxLength - 1)
      BY <1>1, <2>2, LengthsFit
    <3> QED
      BY <2>2, <3>1 DEF Deep
  <2> QED
    BY <2>2, <2>3, <2>4, <2>5
<1> QED
  BY <1>2, <1>4, TakenBegins

LEMMA TakenOnce ==
  ASSUME NEW L \in 1..MaxLength, NEW m, NEW n, NEW stop, Taken(m, n, L, stop),
         NEW x \in Deep, NEW i \in (stop + 1)..L, NEW j \in (stop + 1)..L,
         Begins(i, n[i], x), Begins(j, n[j], x)
  PROVE  i = j
<1>1. stop \in 0..L /\ L \in Nat /\ stop \in Nat
  BY LengthsFit DEF Taken
<1>2. i - 1 \in stop..(L - 1) /\ j - 1 \in stop..(L - 1)
  BY <1>1
<1>3. i # j => i - 1 \in stop..(j - 2) \/ j - 1 \in stop..(i - 2)
  BY <1>1
<1>4. /\ \A k \in stop..(i - 2) : x[k] = 0
      /\ \A k \in stop..(j - 2) : x[k] = 0
      /\ x[i - 1] = 1 /\ x[j - 1] = 1
  BY TakenBegins
<1> QED
  BY <1>3, <1>4

LEMMA PartedMoves ==
  ASSUME NEW L \in 1..MaxLength, NEW m, NEW n, NEW stop, Taken(m, n, L, stop),
         NEW ends, stop \in ends, \A j \in ends \ {stop} : n[j] = m[j],
         NEW C, Coded(C), Parted(C \cup Hung(m, ends)), NEW e
  PROVE  Parted((C \cup {<<e, <<L, m[L]>>>>})
                   \cup Hung(n, (ends \ {stop}) \cup ((stop + 1)..L)))
<1> DEFINE W == C \cup Hung(m, ends)
           word == <<e, <<L, m[L]>>>>
           left == <<0, <<stop, m[stop]>>>>
           others == (ends \ {stop}) \cup ((stop + 1)..L)
           V == (C \cup {word}) \cup Hung(n, others)
<1> SUFFICES ASSUME NEW x \in Deep
             PROVE  \E c \in V :
                      /\ Begins(c[2][1], c[2][2], x)
                      /\ \A d \in V : Begins(d[2][1], d[2][2], x) => d = c
  BY DEF Parted
<1>1. PICK c \in W : /\ Begins(c[2][1], c[2][2], x)
                   /\ \A d \in W : Begins(d[2][1], d[2][2], x) => d = c
  BY DEF Parted
<1>2. left \in W /\ left[2] = <<stop, m[stop]>>
  BY DEF Hung
<1>3. \A d \in C : d # left /\ d \in W /\ d \in V
  BY DEF Coded
<1>4. ASSUME NEW d \in V
      PROVE  \/ d \in W /\ d # left
             \/ d = word
             \/ \E j \in (stop + 1)..L : d = <<0, <<j, n[j]>>>>
  BY <1>3 DEF Hung
<1>5. word \in V /\ word[2] = <<L, m[L]>>
  OBVIOUS
<1>6. \A j \in (stop + 1)..L : <<0, <<j, n[j]>>>> \in V
  BY DEF Hung
<1>7. CASE c = left
  <2>1. Begins(stop, m[stop], x)
    BY <1>1, <1>2, <1>7
  <2>2. ASSUME NEW d \in W, d # left PROVE ~Begins(d[2][1], d[2][2], x)
    BY <1>1, <1>7, <2>2
  <2>3. CASE Begins(L, m[L], x)
    <3>1. \A j \in (stop + 1)..L : ~Begins(j, n[j], x)
      BY <2>3, TakenParts
    <3>2. ASSUME NEW d \in V, Begins(d[2][1], d[2][2], x) PROVE d = word
      <4>1. ASSUME NEW j \in (stop + 1)..L, d = <<0, <<j, n[j]>>>> PROVE FALSE
        <5>1. d[2] = <<j, n[j]>>
          BY <4>1
        <5> QED
          BY <3>1, <3>2, <5>1
      <4> QED
        BY <1>4, <2>2, <3>2, <4>1
    <3> QED
      BY <1>5, <2>3, <3>2
  <2>4. CASE ~Begins(L, m[L], x)
    <3>1. PICK j \in (stop + 1)..L : Begins(j, n[j], x)
      BY <2>1, <2>4, TakenParts
    <3>2. \A i \in (stop + 1)..L : Begins(i, n[i], x) => i = j
      BY <3>1, TakenOnce
    <3>3. ASSUME NEW d \in V, Begins(d[2][1], d[2][2], x)
          PROVE  d = <<0, <<j, n[j]>>>>
      <4>1. ASSUME NEW i \in (stop + 1)..L, d = <<0, <<i, n[i]>>>>
            PROVE  d = <<0, <<j, n[j]>>>>
        <5>1. d[2] = <<i, n[i]>>
          BY <4>1
        <5> QED
          BY <3>2, <3>3, <4>1, <5>1
      <4>2. d # word
        BY <1>5, <2>4, <3>3
      <4> QED
        BY <1>4, <2>2, <3>3, <4>1, <4>2
    <3>4. <<0, <<j, n[j]>>>>[2] = <<j, n[j]>>
      OBVIOUS
    <3> QED
      BY <1>6, <3>1, <3>3, <3>4
  <2> QED
    BY <2>3, <2>4
<1>8. CASE c # left
  <2>1. ~Begins(stop, m[stop], x)
    BY <1>1, <1>2, <1>8
  <2>2. /\ ~Begins(L, m[L], x)
        /\ \A j \in (stop + 1)..L : ~Begins(j, n[j], x)
    BY <2>1, TakenParts
  <2>3. c \in V
    <3>1. CASE c \in C
      BY <1>3, <3>1
    <3>2. CASE c \in Hung(m, ends)
      <4>1. PICK j \in ends : c = <<0, <<j, m[j]>>>>
        BY <3>2 DEF Hung
      <4>2. j \in ends \ {stop}
        BY <1>8, <4>1
      <4> QED
        BY <4>1, <4>2 DEF Hung
    <3> QED
      BY <3>1, <3>2
  <2>4. ASSUME NEW d \in V, Begins(d[2][1], d[2][2], x) PROVE d = c
    <3>1. ASSUME NEW j \in (stop + 1)..L, d = <<0, <<j, n[j]>>>> PROVE FALSE
      <4>1. d[2] = <<j, n[j]>>
        BY <3>1
      <4> QED
        BY <2>2, <2>4, <4>1
    <3>2. d # word
      BY <1>5, <2>2, <2>4
    <3> QED
      BY <1>1, <1>4, <2>4, <3>1, <3>2
  <2> QED
    BY <1>1, <2>3, <2>4
<1> QED
  BY <1>7, <1>8
-----------------------------------------------------------------------------
(* The lowest word of a length that is free is the one of its marker.      *)

LEMMA CommonTells ==
  ASSUME NEW C, Coded(C), NEW c \in C, NEW L \in 1..MaxLength, NEW v \in Nat,
         v < TwoTo(L)
  PROVE  Clash(c[2], <<L, v>>) <=>
           \E x \in Deep : Begins(c[2][1], c[2][2], x) /\ Begins(L, v, x)
<1> DEFINE u == c[2]
           w == <<L, v>>
<1>1. w[1] = L /\ w[2] = v
  OBVIOUS
<1>2. IsWord(w[1], w[2])
  BY LengthsFit DEF IsWord
<1>3. IsWord(u[1], u[2])
  BY LengthsFit DEF IsWord, Coded
<1> HIDE DEF u, w
<1>4. Clash(u, w) <=>
        \E x \in Deep : Begins(u[1], u[2], x) /\ Begins(w[1], w[2], x)
  BY <1>2, <1>3, ClashIsCommon
<1> QED
  BY <1>1, <1>4 DEF u, w

LEMMA MarkerIsFree ==
  ASSUME NEW L \in 1..MaxLength, NEW m, NEW n, NEW stop, Taken(m, n, L, stop),
         NEW ends, stop \in ends, m[L] < TwoTo(L),
         NEW C, Coded(C), Parted(C \cup Hung(m, ends)), NEW c \in C
  PROVE  ~Clash(c[2], <<L, m[L]>>)
<1> SUFFICES ASSUME Clash(c[2], <<L, m[L]>>) PROVE FALSE
  OBVIOUS
<1>1. m[L] \in Nat
  BY LengthsFit DEF Taken
<1>2. PICK x \in Deep : Begins(c[2][1], c[2][2], x) /\ Begins(L, m[L], x)
  BY <1>1, CommonTells
<1>3. Begins(stop, m[stop], x)
  BY <1>2, TakenParts
<1> DEFINE W == C \cup Hung(m, ends)
           left == <<0, <<stop, m[stop]>>>>
<1>4. left \in W /\ c \in W /\ left[2][1] = stop /\ left[2][2] = m[stop]
  BY DEF Hung
<1>5. PICK d \in W : \A e \in W : Begins(e[2][1], e[2][2], x) => e = d
  BY DEF Parted
<1>6. c = left
  <2>1. Begins(left[2][1], left[2][2], x)
    BY <1>3, <1>4
  <2> HIDE DEF left, W
  <2> QED
    BY <1>2, <1>4, <1>5, <2>1
<1>7. c[1] # 0
  BY DEF Coded
<1> QED
  BY <1>6, <1>7

(* A marker is not past the words of its length under a shorter one.       *)
LEMMA MarkersReach ==
  ASSUME NEW m, Good(m), NEW j \in 1..MaxLength, m[j] > 0, NEW d \in Nat,
         j + d <= MaxLength
  PROVE  m[j + d] <= m[j] * TwoTo(d)
<1> DEFINE Told(i) == j + i <= MaxLength =>
                        m[j + i] > 0 /\ m[j + i] <= m[j] * TwoTo(i)
           T == {i \in Nat : Told(i)}
<1>0. MaxLength \in 1..32 /\ m[j] \in Nat /\ TwoTo(0) = 1
  <2>1. TwoTo(0) = 1
    BY Doubling
  <2>2. j \in 0..MaxLength /\ m \in [0..MaxLength -> Nat]
    BY LengthsFit DEF Good
  <2> QED
    BY <2>1, <2>2, LengthsFit
<1>1. 0 \in T
  <2>1. j + 0 = j /\ m[j] * 1 = m[j]
    BY <1>0
  <2> QED
    BY <1>0, <2>1
<1>2. ASSUME NEW i \in Nat, i \in T PROVE i + 1 \in T
  <2> SUFFICES ASSUME j + (i + 1) <= MaxLength
               PROVE  /\ m[j + (i + 1)] > 0
                      /\ m[j + (i + 1)] <= m[j] * TwoTo(i + 1)
    OBVIOUS
  <2>1. /\ i \in 0..32 /\ i < 32 /\ j + i \in 0..MaxLength
        /\ j + i <= MaxLength /\ j + (i + 1) \in 1..MaxLength
        /\ (j + (i + 1)) - 1 = j + i
    BY <1>0
  <2>2. TwoTo(i + 1) = 2 * TwoTo(i) /\ TwoTo(i) \in Nat
    BY <2>1, Doubling
  <2>3. m[j + i] > 0 /\ m[j + i] <= m[j] * TwoTo(i)
    BY <1>2, <2>1
  <2> DEFINE a == m[j + i]
             b == m[j + (i + 1)]
             p == m[j] * TwoTo(i)
  <2>4. a \in Nat /\ b \in Nat /\ p \in Nat
    BY <1>0, <2>1, <2>2 DEF Good
  <2>5. (b % 2 = 1 \/ b = 2 * a) /\ b <= 2 * a
    BY <2>1, <2>3 DEF Good
  <2>6. m[j] * TwoTo(i + 1) = 2 * p
    <3> DEFINE y == m[j]
               z == TwoTo(i)
    <3>1. y \in Nat /\ z \in Nat
      BY <1>0, <2>2
    <3>2. y * (2 * z) = 2 * (y * z)
      <4> HIDE DEF y, z
      <4> QED
        BY <3>1
    <3> QED
      BY <2>2, <3>2
  <2>7. a > 0 /\ a <= p
    BY <2>3
  <2> HIDE DEF a, b, p
  <2>8. b > 0 /\ b <= 2 * p
    BY <2>4, <2>5, <2>7
  <2> QED
    BY <2>6, <2>8 DEF b
<1> HIDE DEF Told
<1>3. Told(d)
  BY <1>1, <1>2, InductiveSet
<1> QED
  BY <1>3 DEF Told

LEMMA FreeIsAbove ==
  ASSUME NEW L \in 1..MaxLength, NEW m, Good(m),
         NEW C, Coded(C), Parted(C \cup Hung(m, Odd(m))),
         NEW v \in Nat, v < TwoTo(L), \A c \in C : ~Clash(c[2], <<L, v>>)
  PROVE  m[L] <= v
<1> DEFINE x == Zeroed(L, v)
           W == C \cup Hung(m, Odd(m))
<1>0. MaxLength \in 1..32 /\ L \in 0..32 /\ m[L] \in Nat
  BY LengthsFit DEF Good
<1>1. /\ x \in Deep /\ Begins(L, v, x)
      /\ \A k \in L..(MaxLength - 1) : x[k] = 0
  BY <1>0, ZeroedIs DEF IsWord
<1> HIDE DEF x
<1>2. PICK d \in W : Begins(d[2][1], d[2][2], x)
  BY <1>1 DEF Parted
<1>3. d \notin C
  BY <1>1, <1>2, CommonTells
<1>4. PICK j \in Odd(m) : d = <<0, <<j, m[j]>>>>
  BY <1>3 DEF Hung
<1>5. Begins(j, m[j], x)
  BY <1>2, <1>4
<1>6. /\ j \in 1..MaxLength /\ j \in 1..32 /\ m[j] % 2 = 1 /\ m[j] \in Nat
      /\ m[j] < TwoTo(j)
  BY <1>0 DEF Odd, Good
<1>7. x[j - 1] = 1
  <2>1. Bit(m[j], j, j - 1) = 1
    BY <1>6, LastBit
  <2>2. j - 1 \in 0..(j - 1)
    BY <1>6
  <2> QED
    BY <1>5, <2>1, <2>2 DEF Begins
<1>8. j <= L
  <2> SUFFICES ASSUME j > L PROVE FALSE
    BY <1>0, <1>6
  <2>1. j - 1 \in L..(MaxLength - 1)
    BY <1>0, <1>6
  <2> QED
    BY <1>1, <1>7, <2>1
<1> DEFINE b == TwoTo(L - j)
           a == m[j]
<1>9. v \div b = a
  <2>1. \A k \in 0..(j - 1) : k \in 0..(L - 1)
    BY <1>0, <1>6, <1>8
  <2>2. \A k \in 0..(j - 1) : Bit(v, L, k) = Bit(a, j, k)
    BY <1>1, <1>5, <2>1 DEF Begins
  <2>3. j \in 0..32 /\ L \in j..32
    BY <1>0, <1>6, <1>8
  <2> QED
    BY <1>6, <2>2, <2>3, PartTells, Zenon
<1>10. L - j \in Nat /\ L - j \in 0..32 /\ j + (L - j) = L /\ j + (L - j) <= MaxLength
  BY <1>0, <1>6, <1>8
<1>11. m[L] <= a * b
  BY <1>6, <1>10, MarkersReach
<1>12. b \in Nat /\ b > 0 /\ a \in Nat
  BY <1>6, <1>10, Doubling
<1> HIDE DEF a, b
<1>13. a * b <= v /\ a * b \in Nat
  BY <1>9, <1>12, PartIs
<1> QED
  BY <1>0, <1>11, <1>13

(* The word under the marker is not free, so that the marker is one of the *)
(* words to look at.                                                       *)
LEMMA MarkerFollows ==
  ASSUME NEW L \in 1..MaxLength, NEW m, NEW C, Coded(C), NEW c \in C,
         m[L] \in Nat, m[L] > 0, Clash(c[2], <<L, m[L] - 1>>),
         ~Clash(c[2], <<L, m[L]>>)
  PROVE  After(c[2], L) = m[L]
<1> DEFINE n == c[2][1]
           u == c[2][2]
           a == m[L]
           w == <<L, a - 1>>
           z == <<L, a>>
<1>1. /\ n \in 1..MaxLength /\ u \in Nat /\ a \in Nat /\ a > 0 /\ a - 1 \in Nat
      /\ w[1] = L /\ w[2] = a - 1 /\ z[1] = L /\ z[2] = a
  BY DEF Coded
<1>2. MaxLength \in 1..32 /\ L \in 1..32 /\ n \in 1..32
  BY <1>1, LengthsFit
<1>3. CASE n <= L
  <2> DEFINE b == TwoTo(L - n)
  <2>1. L - n \in 0..32
    BY <1>2, <1>3
  <2>2. b \in Nat /\ b > 0
    BY <2>1, Doubling
  <2>3. (a - 1) \div b = u /\ ~(a \div b = u)
    BY <1>1, <1>3 DEF Clash, TwoTo
  <2>4. After(c[2], L) = (u + 1) * b
    BY <1>2, <1>3 DEF After, TwoTo
  <2> HIDE DEF n, u, a, b
  <2>5. u * b \in Nat /\ (u + 1) * b = u * b + b
    BY <1>1, <2>2
  <2>6. u * b <= a - 1 /\ a - 1 < u * b + b
    BY <1>1, <2>2, <2>3, PartIs
  <2>7. ~(u * b <= a /\ a < u * b + b)
    BY <1>1, <2>2, <2>3, PartIs
  <2>8. a = u * b + b
    BY <1>1, <2>2, <2>5, <2>6, <2>7
  <2> QED
    BY <2>4, <2>5, <2>8 DEF a
<1>4. CASE n > L
  <2>1. ~(n <= L) /\ ~(L >= n)
    BY <1>2, <1>4
  <2>2. u \div TwoTo(n - L) = a - 1
    BY <1>1, <2>1 DEF Clash, TwoTo
  <2>3. After(c[2], L) = (u \div TwoTo(n - L)) + 1
    BY <2>1 DEF After, TwoTo
  <2> QED
    BY <1>1, <2>2, <2>3
<1>5. n <= L \/ n > L
  BY <1>2
<1> QED
  BY <1>3, <1>4, <1>5

LEMMA AfterIsNat ==
  ASSUME NEW C, Coded(C), NEW c \in C, NEW L \in 1..MaxLength
  PROVE  After(c[2], L) \in Nat
<1> DEFINE n == c[2][1]
           u == c[2][2]
<1>1. /\ n \in 1..MaxLength /\ u \in Nat /\ MaxLength \in 1..32
  BY LengthsFit DEF Coded
<1>2. CASE L >= n
  <2>1. L - n \in 0..32
    BY <1>1, <1>2
  <2> DEFINE b == TwoTo(L - n)
  <2>2. b \in Nat
    BY <2>1, Doubling
  <2>3. After(c[2], L) = (u + 1) * b
    BY <1>2 DEF After, TwoTo
  <2> HIDE DEF u, b
  <2> QED
    BY <1>1, <2>2, <2>3
<1>3. CASE ~(L >= n)
  <2>1. n - L \in 0..32
    BY <1>1, <1>3
  <2> DEFINE b == TwoTo(n - L)
  <2>2. b \in Nat /\ b > 0
    BY <2>1, Doubling
  <2>3. After(c[2], L) = (u \div b) + 1
    BY <1>3 DEF After, TwoTo
  <2> HIDE DEF u, b
  <2> QED
    BY <1>1, <2>2, <2>3
<1> QED
  BY <1>2, <1>3

LEMMA LowestIsTaken ==
  ASSUME NEW L \in 1..MaxLength, NEW m, Good(m), NEW n, NEW stop,
         Taken(m, n, L, stop), stop \in Odd(m), m[L] > 0,
         NEW C, Coded(C), Parted(C \cup Hung(m, Odd(m))), NEW e
  PROVE  Taking(C, e, L) = C \cup {<<e, <<L, m[L]>>>>}
<1> DEFINE old == {x[2] : x \in C}
           free == {v \in {0} \cup {After(u, L) : u \in old} :
                      \A u \in old : ~Clash(u, <<L, v>>)}
<1>1. m[L] \in Nat /\ m[L] < TwoTo(L) /\ TwoTo(L) \in Nat /\ L # 0 /\ L \in 0..32
  <2>1. L \in 0..32 /\ L # 0 /\ L \in 0..MaxLength
    BY LengthsFit
  <2>2. TwoTo(L) \in Nat
    BY <2>1, Doubling
  <2>3. m[L] \in Nat /\ m[L] < TwoTo(L)
    BY <2>1 DEF Good
  <2> QED
    BY <2>1, <2>2, <2>3
<1>2. \A c \in C : ~Clash(c[2], <<L, m[L]>>)
  BY <1>1, MarkerIsFree
<1>3. \E c \in C : Clash(c[2], <<L, m[L] - 1>>)
  <2>1. m[L] - 1 \in Nat /\ m[L] - 1 < TwoTo(L) /\ ~(m[L] <= m[L] - 1)
    BY <1>1
  <2> QED
    BY <2>1, FreeIsAbove
<1>4. m[L] \in free
  <2>1. PICK c \in C : Clash(c[2], <<L, m[L] - 1>>)
    BY <1>3
  <2>2. After(c[2], L) = m[L]
    BY <1>1, <1>2, <2>1, MarkerFollows
  <2>3. c[2] \in old
    OBVIOUS
  <2>4. m[L] \in {After(u, L) : u \in old}
    BY <2>2, <2>3
  <2>5. \A u \in old : ~Clash(u, <<L, m[L]>>)
    BY <1>2
  <2> QED
    BY <2>4, <2>5
<1>5. ASSUME NEW v \in free PROVE v \in Nat /\ m[L] <= v
  <2>1. v \in Nat
    BY AfterIsNat
  <2>2. \A c \in C : ~Clash(c[2], <<L, v>>)
    OBVIOUS
  <2>3. v < TwoTo(L) => m[L] <= v
    BY <2>1, <2>2, FreeIsAbove
  <2> QED
    BY <1>1, <2>1, <2>3
<1>6. Min(free) = m[L]
  <2> HIDE DEF free
  <2>1. \A y \in free : m[L] <= y
    BY <1>5
  <2>2. ASSUME NEW y \in free, \A z \in free : y <= z PROVE y = m[L]
    BY <1>1, <1>4, <1>5, <2>2
  <2> QED
    BY <1>4, <2>1, <2>2 DEF Min
<1>7. Taking(C, e, L) = C \cup {<<e, <<L, Min(free)>>>>}
  BY <1>1 DEF Taking
<1> QED
  BY <1>6, <1>7

LEMMA FirstIsLowest ==
  ASSUME NEW L \in 1..MaxLength, NEW e
  PROVE  Taking({}, e, L) = {<<e, <<L, 0>>>>}
<1> DEFINE old == {x[2] : x \in {}}
           free == {v \in {0} \cup {After(u, L) : u \in old} :
                      \A u \in old : ~Clash(u, <<L, v>>)}
<1>1. free = {0}
  OBVIOUS
<1>2. Min(free) = 0
  <2> HIDE DEF free
  <2>1. \A x \in {0} : x <= 0 /\ x = 0
    OBVIOUS
  <2> QED
    BY <1>1, <2>1 DEF Min
<1>3. L # 0
  BY LengthsFit
<1>4. Taking({}, e, L) = {} \cup {<<e, <<L, Min(free)>>>>}
  BY <1>3 DEF Taking
<1> QED
  BY <1>2, <1>4
-----------------------------------------------------------------------------
(* The codeword of an entry leads to its leaf, and keeps leading there.    *)

LeadsTo(w, r, v, n, top, type, e) ==
  /\ Way(w, r, v, n, top)
  /\ IsLeaf(r[2 * w[n - 1] + Bit(v, n, n - 1)])
  /\ type = 0 => r[2 * w[n - 1] + Bit(v, n, n - 1)] = LeafOf(e - 1)
Rooted(C, t, type) ==
  \A c \in C :
    \E w : LeadsTo(w, t.r, c[2][2], c[2][1], Base(t), type, c[1])

(* The cells a tree has written stay as they are.                          *)
Keeps(t, u) == \A a \in 0..(2 * Base(t) - 1) : t.r[a] # 0 => u.r[a] = t.r[a]

LEMMA LeadsOn ==
  ASSUME RealWidths, NEW C, Coded(C), NEW t, NEW u, NEW type, Rooted(C, t, type),
         Keeps(t, u), Base(t) \in Nat, Base(u) \in Nat, Base(t) <= Base(u)
  PROVE  Rooted(C, u, type)
<1> SUFFICES ASSUME NEW c \in C
             PROVE  \E w : LeadsTo(w, u.r, c[2][2], c[2][1], Base(u), type, c[1])
  BY DEF Rooted
<1> DEFINE n == c[2][1]
           v == c[2][2]
<1>1. PICK w : LeadsTo(w, t.r, v, n, Base(t), type, c[1])
  BY DEF Rooted
<1>2. n \in 1..MaxLength /\ v \in Nat
  BY DEF Coded
<1> HIDE DEF n, v
<1>3. n \in 1..32
  BY <1>2, LengthsFit
<1>4. Way(w, u.r, v, n, Base(u))
  <2>1. Way(w, t.r, v, n, Base(t))
    BY <1>1 DEF LeadsTo
  <2>2. Way(w, u.r, v, n, Base(t))
    BY <1>2, <1>3, <2>1, WayStays DEF Keeps
  <2> QED
    BY <2>2, WayWidens
<1> DEFINE a == 2 * w[n - 1] + Bit(v, n, n - 1)
<1>5. a \in 0..(2 * Base(t) - 1)
  <2>1. n - 1 \in 0..(n - 1)
    BY <1>3
  <2>2. w[n - 1] \in Nat /\ w[n - 1] < Base(t)
    BY <1>1, <2>1 DEF LeadsTo, Way
  <2>3. Bit(v, n, n - 1) \in {0, 1}
    BY <1>2, <1>3, <2>1, BitIs
  <2> QED
    BY <2>2, <2>3
<1>6. IsLeaf(t.r[a]) /\ t.r[a] # 0
  <2>1. IsLeaf(t.r[a])
    BY <1>1 DEF LeadsTo
  <2>2. ~IsLeaf(0)
    BY WordTop DEF IsLeaf
  <2> QED
    BY <2>1, <2>2
<1>7. u.r[a] = t.r[a]
  BY <1>5, <1>6 DEF Keeps
<1>8. type = 0 => t.r[a] = LeafOf(c[1] - 1)
  BY <1>1 DEF LeadsTo
<1>9. LeadsTo(w, u.r, v, n, Base(u), type, c[1])
  BY <1>4, <1>6, <1>7, <1>8 DEF LeadsTo
<1> QED
  BY <1>9 DEF n, v

LEMMA TopIsBase ==
  ASSUME NEW t, NEW ways, NEW L \in 1..MaxLength, NEW stop, t.count \in Nat,
         Placed(t, ways, stop), Chased(t, ways, L, stop)
  PROVE  Base(t) \in Nat /\ t.top \in Nat /\ Base(t) <= t.top
<1>1. stop \in 0..L /\ t.j \in Nat /\ Base(t) \in Nat
  BY ChasedTells
<1>2. t.j < stop => t.top = Base(t)
  BY DEF Chased
<1>3. t.j >= stop => t.top = Base(t) + t.j - stop
  BY DEF Chased
<1> QED
  BY <1>1, <1>2, <1>3

LEMMA GoesKeeps ==
  ASSUME NEW t, NEW u, NEW bit \in {0, 1}, Goes(t, u, bit), t.chase \in Nat,
         t.chase < t.top \/ (t.chase = t.top /\ bit = 0),
         Base(t) \in Nat, Base(t) <= t.top, NEW room, Cells(t, room)
  PROVE  Keeps(t, u) /\ Base(u) = Base(t)
<1> DEFINE c == t.chase
<1>1. Base(u) = Base(t)
  BY DEF Goes, Base
<1>2. ASSUME NEW a \in 0..(2 * Base(t) - 1), t.r[a] # 0 PROVE u.r[a] = t.r[a]
  <2>0. a \in DOMAIN t.r /\ t.top \in Nat /\ c \in Nat
    BY DEF Cells
  <2>1. CASE c < t.top
    <3>1. CASE t.r[2 * c + bit] = 0
      <4>1. u.r = [t.r EXCEPT ![2 * c + bit] = t.top]
        BY <2>0, <2>1, <3>1 DEF Goes
      <4>2. a # 2 * c + bit
        BY <1>2, <3>1
      <4> QED
        BY <2>0, <4>1, <4>2, Zenon
    <3>2. CASE t.r[2 * c + bit] # 0
      BY <2>0, <2>1, <3>2 DEF Goes
    <3> QED
      BY <3>1, <3>2
  <2>2. CASE c = t.top
    <3>1. u.r = [t.r EXCEPT ![2 * c] = t.top + 1, ![2 * c + 1] = 0]
      BY <2>0, <2>2 DEF Goes
    <3>2. a # 2 * c /\ a # 2 * c + 1
      BY <2>0, <2>2
    <3> QED
      BY <2>0, <3>1, <3>2, Zenon
  <2> QED
    BY <2>1, <2>2
<1> QED
  BY <1>1, <1>2 DEF Keeps

(* All but the cell of the leaf and a new node's other one stay.           *)
LEMMA PlantsAlike ==
  ASSUME NEW t, NEW u, NEW L, NEW leaf, NEW bit \in {0, 1},
         Plants(t, u, L, bit, leaf), t.chase \in Nat, NEW room, Cells(t, room),
         2 * t.chase + 1 < room,
         t.chase < t.top \/ (t.chase = t.top /\ bit = 0)
  PROVE  /\ \A a \in 0..(room - 1) :
              a # 2 * t.chase + bit /\ (t.chase < t.top \/ a # 2 * t.chase + 1)
                => u.r[a] = t.r[a]
         /\ u.r[2 * t.chase + bit] = leaf
<1> DEFINE c == t.chase
<1>1. /\ DOMAIN t.r = 0..(room - 1) /\ t.top \in Nat /\ c \in Nat
      /\ 2 * c + bit \in 0..(room - 1)
  BY DEF Cells
<1>2. CASE c < t.top
  <2>1. u.r = [t.r EXCEPT ![2 * c + bit] = leaf]
    BY <1>1, <1>2 DEF Plants
  <2> QED
    BY <1>1, <2>1, Zenon
<1>3. CASE c = t.top
  <2>1. u.r = [[t.r EXCEPT ![2 * c + 1] = 0] EXCEPT ![2 * c + bit] = leaf]
    BY <1>1, <1>3 DEF Plants
  <2>2. ~(c < t.top)
    BY <1>1, <1>3
  <2> QED
    BY <1>1, <2>1, <2>2, Zenon
<1> QED
  BY <1>2, <1>3

LEMMA PlantsKeeps ==
  ASSUME NEW t, NEW u, NEW L, NEW leaf, NEW bit \in {0, 1},
         Plants(t, u, L, bit, leaf), t.chase \in Nat, NEW room, Cells(t, room),
         2 * t.chase + 1 < room,
         t.chase < t.top \/ (t.chase = t.top /\ bit = 0),
         t.chase < t.top => t.r[2 * t.chase + bit] = 0,
         Base(t) \in Nat, Base(t) <= t.top
  PROVE  Keeps(t, u)
<1> SUFFICES ASSUME NEW a \in 0..(2 * Base(t) - 1), t.r[a] # 0
             PROVE  u.r[a] = t.r[a]
  BY DEF Keeps
<1>0. a \in 0..(room - 1) /\ t.top \in Nat
  BY DEF Cells
<1>1. CASE t.chase < t.top
  BY <1>0, <1>1, PlantsAlike
<1>2. CASE t.chase = t.top
  <2>1. a # 2 * t.chase + bit /\ a # 2 * t.chase + 1
    BY <1>2
  <2> QED
    BY <1>0, <2>1, PlantsAlike
<1> QED
  BY <1>1, <1>2

(* The word that is planted has a way to its leaf.                         *)
LEMMA PlantedWay ==
  ASSUME NEW t, NEW ways, NEW L \in 1..MaxLength, NEW stop, t.count \in Nat,
         Placed(t, ways, stop), Chased(t, ways, L, stop), t.j = L - 1,
         NEW r, \A a \in 0..(2 * t.chase - 1) : r[a] = t.r[a],
         stop = L => \A a \in 0..(2 * Base(t) - 1) : t.r[a] # 0 => r[a] = t.r[a]
  PROVE  \E w : /\ Way(w, r, t.marker[L], L, Base(t) + L - stop)
                /\ w[L - 1] = t.chase
<1> DEFINE m == t.marker
           n == MarkersAfter(t.marker, L)
           top == Base(t)
           w == ways[stop]
           new == NewWay(w, stop, top)
<1>1. /\ MaxLength \in 1..32 /\ L \in 1..32 /\ stop \in 0..L /\ stop \in Nat
      /\ m \in [0..MaxLength -> Nat] /\ top \in Nat /\ t.j \in Nat
      /\ stop = 0 => top = 0
      /\ stop > 0 => Way(w, t.r, m[stop], stop, top)
  <2>1. /\ MaxLength \in 1..32 /\ stop \in 0..L /\ t.j \in Nat
        /\ t.marker \in [0..MaxLength -> Nat] /\ Base(t) \in Nat
        /\ stop = 0 => Base(t) = 0
        /\ stop > 0 =>
             Way(ways[stop], t.r, t.marker[stop], stop, Base(t))
    BY ChasedTells
  <2> HIDE DEF m, n, top, w, new
  <2>2. MaxLength \in 1..32 /\ stop \in 0..L
    BY <2>1
  <2>3. L \in 1..32 /\ stop \in Nat
    BY <2>2
  <2> QED
    BY <2>1, <2>3 DEF m, top, w
<1>2. Taken(m, n, L, stop)
  BY DEF Chased
<1>3. CASE stop = L
  <2>1. t.chase = w[L - 1] /\ m[L] \in Nat
    BY <1>1, <1>3 DEF Chased
  <2>2. Way(w, t.r, m[L], L, top)
    BY <1>1, <1>3
  <2>3. Way(w, r, m[L], L, top)
    BY <1>1, <1>3, <2>1, <2>2, WayStays
  <2>4. top + L - stop = top
    BY <1>1, <1>3
  <2> QED
    BY <2>1, <2>3, <2>4
<1>4. CASE stop < L
  <2>1. t.j >= stop
    BY <1>1, <1>4
  <2>2. /\ t.chase = top + t.j - stop
        /\ stop > 0 => t.r[2 * w[stop - 1] + 1] = top
        /\ \A i \in stop..(t.j - 1) : t.r[2 * (top + i - stop)] = top + i - stop + 1
    BY <2>1 DEF Chased
  <2>3. t.chase \in Nat /\ t.chase = top + (L - 1) - stop /\ top <= t.chase
    BY <1>1, <1>4, <2>2
  <2>4. stop > 0 => Way(w, r, m[stop], stop, top)
    <3> SUFFICES ASSUME stop > 0 PROVE Way(w, r, m[stop], stop, top)
      OBVIOUS
    <3>1. stop \in 1..32 /\ m[stop] \in Nat
      BY <1>1
    <3>2. \A a \in 0..(2 * top - 1) : t.r[a] # 0 => r[a] = t.r[a]
      BY <1>1, <2>3
    <3>3. Way(w, t.r, m[stop], stop, top)
      BY <1>1
    <3> QED
      BY <1>1, <3>1, <3>2, <3>3, WayStays
  <2>5. stop > 0 /\ stop < L => r[2 * w[stop - 1] + 1] = top
    <3> SUFFICES ASSUME stop > 0 PROVE r[2 * w[stop - 1] + 1] = top
      OBVIOUS
    <3>1. stop - 1 \in 0..(stop - 1)
      BY <1>1
    <3>2. w[stop - 1] \in Nat /\ w[stop - 1] < top
      BY <1>1, <3>1 DEF Way
    <3>3. 2 * w[stop - 1] + 1 \in 0..(2 * t.chase - 1)
      <4> DEFINE a == w[stop - 1]
      <4>1. a \in Nat /\ a < top /\ top <= t.chase /\ t.chase \in Nat /\ top \in Nat
        BY <1>1, <2>3, <3>2
      <4> HIDE DEF a, top
      <4>2. 2 * a + 1 \in 0..(2 * t.chase - 1)
        BY <4>1
      <4> QED
        BY <4>2 DEF a
    <3> QED
      BY <2>2, <3>3
  <2>6. \A i \in stop..(L - 2) : r[2 * (top + i - stop)] = top + i - stop + 1
    <3> TAKE i \in stop..(L - 2)
    <3>1. i \in stop..(t.j - 1) /\ 2 * (top + i - stop) \in 0..(2 * t.chase - 1)
      <4> HIDE DEF top, w
      <4> QED
        BY <1>1, <2>3
    <3> QED
      BY <2>2, <3>1
  <2>7. L \in (stop + 1)..L
    BY <1>1, <1>4
  <2>8. Way(new, r, n[L], L, top + L - stop)
    <3> HIDE DEF m, n, top, w, new
    <3> QED
      BY <1>1, <1>2, <2>4, <2>5, <2>6, <2>7, WayIsNew DEF new
  <2>9. ASSUME NEW k \in 0..(L - 2) PROVE Bit(n[L], L, k) = Bit(m[L], L, k)
    <3>1. Bit(n[L], L, k) = IF k < stop THEN Bit(m[stop], stop, k) ELSE 0
      BY <1>2, <2>7, FreedBits
    <3>2. /\ \A i \in 0..(stop - 1) : Bit(m[L], L, i) = Bit(m[stop], stop, i)
          /\ \A i \in stop..(L - 1) : Bit(m[L], L, i) = 0
      <4>1. L \in stop..L
        BY <1>1
      <4> QED
        BY <1>2, <4>1, TakenBits
    <3>3. k < stop => k \in 0..(stop - 1)
      BY <1>1
    <3>4. ~(k < stop) => k \in stop..(L - 1)
      BY <1>1
    <3> QED
      BY <3>1, <3>2, <3>3, <3>4
  <2>10. Way(new, r, m[L], L, top + L - stop)
    BY <2>8, <2>9 DEF Way
  <2>11. new[L - 1] = t.chase
    <3>1. L - 1 \in 0..MaxLength /\ ~(L - 1 < stop)
      BY <1>1, <1>4
    <3> QED
      BY <2>3, <3>1 DEF NewWay
  <2> QED
    BY <2>10, <2>11
<1> QED
  BY <1>1, <1>3, <1>4
-----------------------------------------------------------------------------
(* The codewords of the first n entries, one entry after the other.        *)

WordsTo(list, n, C) ==
  \E p : /\ p[0] = {} /\ p[n] = C
         /\ \A i \in 1..n : p[i] = Taking(p[i - 1], i, list[i])

LEMMA NoWords == \A list : WordsTo(list, 0, {})
<1> TAKE list
<1> DEFINE p == [i \in {0} |-> {}]
<1>1. p[0] = {} /\ \A i \in 1..0 : p[i] = Taking(p[i - 1], i, list[i])
  OBVIOUS
<1> QED
  BY <1>1, Zenon DEF WordsTo

LEMMA WordsGrow ==
  ASSUME NEW list, NEW n \in Nat, NEW C, WordsTo(list, n, C)
  PROVE  WordsTo(list, n + 1, Taking(C, n + 1, list[n + 1]))
<1>1. PICK p : /\ p[0] = {} /\ p[n] = C
               /\ \A i \in 1..n : p[i] = Taking(p[i - 1], i, list[i])
  BY DEF WordsTo
<1> DEFINE new == Taking(C, n + 1, list[n + 1])
           h == [i \in 0..(n + 1) |-> IF i <= n THEN p[i] ELSE new]
<1> HIDE DEF new
<1>2. /\ h[0] = {} /\ h[n + 1] = new /\ h[n] = C
      /\ \A i \in 1..n : h[i] = p[i] /\ h[i - 1] = p[i - 1]
  BY <1>1
<1> HIDE DEF h
<1>3. ASSUME NEW i \in 1..(n + 1) PROVE h[i] = Taking(h[i - 1], i, list[i])
  <2>1. CASE i \in 1..n
    BY <1>1, <1>2, <2>1
  <2>2. CASE i = n + 1
    <3>1. i - 1 = n
      BY <2>2
    <3> QED
      BY <1>2, <2>2, <3>1 DEF new
  <2> QED
    BY <2>1, <2>2
<1>4. WordsTo(list, n + 1, new)
  BY <1>2, <1>3 DEF WordsTo
<1> QED
  BY <1>4 DEF new

LEMMA WordsAre ==
  ASSUME NEW list, Len(list) \in Nat, NEW C, WordsTo(list, Len(list), C)
  PROVE  C = Codewords(list)
<1> DEFINE n == Len(list)
           Eq(p) == p = [e \in 0..n |-> IF e = 0 THEN {}
                                        ELSE Taking(p[e - 1], e, list[e])]
           q == CHOOSE p : Eq(p)
<1>1. PICK g : /\ g[0] = {} /\ g[n] = C
               /\ \A i \in 1..n : g[i] = Taking(g[i - 1], i, list[i])
  BY DEF WordsTo
<1> DEFINE h == [e \in 0..n |-> g[e]]
<1>2. n \in Nat /\ \A e \in 0..n : h[e] = g[e]
  OBVIOUS
<1>3. Eq(h)
  <2>1. \A e \in 0..n : e = 0 \/ (e \in 1..n /\ e - 1 \in 0..n)
    BY <1>2
  <2>2. \A e \in 0..n : h[e] = IF e = 0 THEN {} ELSE Taking(h[e - 1], e, list[e])
    BY <1>1, <1>2, <2>1, Zenon
  <2> QED
    BY <2>2, Zenon
<1>4. Eq(q)
  BY <1>3, Zenon
<1>5. Codewords(list) = q[n]
  BY DEF Codewords
<1> HIDE DEF q, h
<1>6. \A e \in 0..n : q[e] = IF e = 0 THEN {} ELSE Taking(q[e - 1], e, list[e])
  BY <1>4, Zenon
<1> HIDE DEF n
<1> DEFINE T == {k \in Nat : k <= n => q[k] = g[k]}
<1>7. 0 \in T
  <2>1. 0 \in 0..n
    BY <1>2
  <2> QED
    BY <1>1, <1>6, <2>1
<1>8. ASSUME NEW k \in Nat, k \in T PROVE k + 1 \in T
  <2> SUFFICES ASSUME k + 1 <= n PROVE q[k + 1] = g[k + 1]
    OBVIOUS
  <2>1. k + 1 \in 0..n /\ k + 1 \in 1..n /\ k + 1 # 0 /\ (k + 1) - 1 = k
    BY <1>2
  <2>2. q[k] = g[k]
    BY <1>2, <1>8
  <2> QED
    BY <1>1, <1>6, <2>1, <2>2
<1> HIDE DEF T
<1>9. n \in T
  BY <1>2, <1>7, <1>8, InductiveSet
<1>10. q[n] = g[n]
  BY <1>2, <1>9 DEF T
<1> QED
  BY <1>1, <1>5, <1>10 DEF n

-----------------------------------------------------------------------------
(* The tree under construction spells the codewords so far: they and the   *)
(* free words part the deep ones, and each has its way to its leaf.        *)

Spells(C, list, t, type) ==
  /\ WordsTo(list, t.i, C) /\ Coded(C)
  /\ t.count = 0 => C = {}
  /\ Parted(C \cup Hung(t.marker, Ends(t)))
  /\ Rooted(C, t, type)
  /\ \A c \in C : c[1] \in 1..t.i /\ list[c[1]] = c[2][1]

LEMMA NoneSpelled ==
  ASSUME NEW list, NEW t, t.i = 0, t.count = 0, t.marker = NoMarkers, NEW type
  PROVE  Spells({}, list, t, type)
<1>1. Hung(t.marker, Ends(t)) = {<<0, <<0, t.marker[0]>>>>}
  BY DEF Hung, Ends
<1> DEFINE c == <<0, <<0, t.marker[0]>>>>
<1>2. c[2][1] = 0
  OBVIOUS
<1> HIDE DEF c
<1>3. Parted({c})
  BY <1>2 DEF Parted, Begins
<1>4. Parted({} \cup Hung(t.marker, Ends(t)))
  BY <1>1, <1>3 DEF c
<1> QED
  BY <1>4, NoWords DEF Spells, Coded, Rooted

LEMMA SpellsAlike ==
  ASSUME NEW C, NEW list, NEW t, NEW u, NEW type, Spells(C, list, t, type),
         u.i = t.i, u.count = t.count, u.marker = t.marker, Keeps(t, u),
         t.count \in Nat, RealWidths
  PROVE  Spells(C, list, u, type)
<1>1. Base(u) = Base(t) /\ Base(t) \in Nat
  BY BaseIs DEF Base
<1>2. Rooted(C, u, type)
  BY <1>1, LeadsOn DEF Spells
<1>3. Ends(u) = Ends(t)
  BY DEF Ends
<1> QED
  BY <1>2, <1>3 DEF Spells

LEMMA SkipSpells ==
  ASSUME NEW C, NEW list, NEW t, NEW u, NEW type, Spells(C, list, t, type),
         t.i \in Nat, list[t.i + 1] = 0, u.i = t.i + 1, u.count = t.count,
         u.marker = t.marker, u.r = t.r
  PROVE  Spells(C, list, u, type)
<1>1. Base(u) = Base(t) /\ Ends(u) = Ends(t)
  BY DEF Base, Ends
<1>2. Taking(C, t.i + 1, list[t.i + 1]) = C
  BY DEF Taking
<1>3. WordsTo(list, u.i, C)
  <2>1. WordsTo(list, t.i + 1, Taking(C, t.i + 1, list[t.i + 1]))
    BY WordsGrow DEF Spells
  <2> QED
    BY <1>2, <2>1
<1>4. Rooted(C, u, type)
  BY <1>1 DEF Spells, Rooted
<1>5. \A c \in C : c[1] \in 1..u.i /\ list[c[1]] = c[2][1]
  BY DEF Spells
<1> QED
  BY <1>1, <1>3, <1>4, <1>5 DEF Spells

LEMMA PlantSpells ==
  ASSUME RealWidths, NEW t, NEW u, NEW ways, NEW L \in 1..MaxLength, NEW stop,
         t.count \in Nat, t.count = 0 => t.marker = NoMarkers,
         t.count > 0 => Good(t.marker) /\ t.marker[L] > 0,
         Placed(t, ways, stop), Chased(t, ways, L, stop), NEW room,
         Cells(t, room), 2 * t.chase + 1 < room, t.j = L - 1,
         NEW leaf, IsLeaf(leaf),
         Plants(t, u, L, Bit(t.marker[L], L, t.j), leaf),
         NEW C, NEW list, NEW type, Spells(C, list, t, type),
         t.i \in Nat, list[t.i + 1] = L, u.i = t.i + 1,
         type = 0 => leaf = LeafOf(t.i)
  PROVE  \E W : Spells(W, list, u, type)
<1> DEFINE m == t.marker
           n == MarkersAfter(t.marker, L)
           e == t.i + 1
           b == Bit(m[L], L, L - 1)
           W == C \cup {<<e, <<L, m[L]>>>>}
<1>1. /\ Taken(m, n, L, stop) /\ (stop = 0 <=> t.count = 0)
      /\ u.marker = n /\ u.count = t.count + 1 /\ e \in Nat \ {0}
  BY DEF Chased, Plants
<1>2. /\ t.chase \in Nat /\ t.top \in Nat /\ b \in {0, 1}
      /\ t.chase < t.top \/ (t.chase = t.top /\ b = 0)
      /\ t.chase < t.top => t.r[2 * t.chase + b] = 0
      /\ Plants(t, u, L, b, leaf)
  BY ReachedCell
<1>3. Base(t) \in Nat /\ Base(t) <= t.top /\ stop \in 0..L
  BY TopIsBase, ChasedTells
<1>4. Base(u) = Base(t) + L - stop /\ Base(u) \in Nat
  <2>1. u.count \in Nat
    BY <1>1
  <2> QED
    BY <1>1, <2>1, BaseMoves, BaseIs
<1> HIDE DEF b
<1>5. Keeps(t, u)
  BY <1>2, <1>3, PlantsKeeps
<1>6. /\ \A a \in 0..(2 * t.chase - 1) : u.r[a] = t.r[a]
      /\ u.r[2 * t.chase + b] = leaf
  <2>1. /\ \A a \in 0..(room - 1) :
             a # 2 * t.chase + b /\ (t.chase < t.top \/ a # 2 * t.chase + 1)
               => u.r[a] = t.r[a]
        /\ u.r[2 * t.chase + b] = leaf
    BY <1>2, PlantsAlike
  <2>2. ASSUME NEW a \in 0..(2 * t.chase - 1) PROVE u.r[a] = t.r[a]
    <3>1. room \in Int
      BY DEF Cells
    <3>2. a \in 0..(room - 1) /\ a # 2 * t.chase + b /\ a # 2 * t.chase + 1
      BY <1>2, <3>1
    <3> QED
      BY <2>1, <3>2
  <2> QED
    BY <2>1, <2>2
<1>7. PICK w : Way(w, u.r, m[L], L, Base(u)) /\ w[L - 1] = t.chase
  <2>1. \A a \in 0..(2 * Base(t) - 1) : t.r[a] # 0 => u.r[a] = t.r[a]
    BY <1>5 DEF Keeps
  <2>2. \E w : Way(w, u.r, t.marker[L], L, Base(t) + L - stop) /\ w[L - 1] = t.chase
    BY <1>6, <2>1, PlantedWay
  <2> QED
    BY <1>4, <2>2
<1>8. LeadsTo(w, u.r, m[L], L, Base(u), type, e)
  <2>1. u.r[2 * w[L - 1] + Bit(m[L], L, L - 1)] = leaf
    BY <1>6, <1>7 DEF b
  <2>2. e - 1 = t.i
    OBVIOUS
  <2> QED
    BY <1>7, <2>1, <2>2 DEF LeadsTo
<1>9. m[L] \in Nat /\ m[L] < TwoTo(L)
  <2> HIDE DEF W, n
  <2>0. L \in 0..MaxLength /\ L \in 0..32
    BY LengthsFit
  <2>1. CASE t.count = 0
    <3>1. m[L] = 0
      BY <2>0, <2>1 DEF NoMarkers
    <3>2. TwoTo(L) \in Nat \ {0}
      BY <2>0, Doubling
    <3> QED
      BY <3>1, <3>2
  <2>2. CASE t.count > 0
    <3>1. Good(m)
      BY <2>2
    <3> HIDE DEF m
    <3> QED
      BY <2>0, <3>1 DEF Good
  <2> QED
    BY <2>1, <2>2
<1>10. Taking(C, e, L) = W
  <2>1. CASE t.count = 0
    <3>1. C = {} /\ m[L] = 0
      BY <2>1, LengthsFit DEF Spells, NoMarkers
    <3> QED
      BY <3>1, FirstIsLowest
  <2>2. CASE t.count > 0
    <3>1. /\ Good(m) /\ m[L] > 0 /\ stop > 0 /\ Coded(C)
          /\ Parted(C \cup Hung(m, Odd(m)))
      <4>1. Good(m) /\ m[L] > 0 /\ stop > 0 /\ t.count # 0
        BY <1>1, <1>3, <2>2
      <4>2. Ends(t) = Odd(m)
        BY <4>1 DEF Ends
      <4> QED
        BY <4>1, <4>2 DEF Spells
    <3>2. stop \in Odd(m)
      BY <1>1, <3>1, TakenOdd
    <3> QED
      BY <1>1, <3>1, <3>2, LowestIsTaken
  <2> QED
    BY <2>1, <2>2
<1>11. WordsTo(list, u.i, W)
  <2>1. WordsTo(list, t.i + 1, Taking(C, t.i + 1, list[t.i + 1]))
    BY WordsGrow DEF Spells
  <2> QED
    BY <1>10, <2>1
<1> DEFINE c == <<e, <<L, m[L]>>>>
<1>12. /\ c[1] = e /\ c[2][1] = L /\ c[2][2] = m[L]
       /\ c = <<c[1], <<c[2][1], c[2][2]>>>> /\ W = C \cup {c}
  OBVIOUS
<1> HIDE DEF c, W, e
<1>13. Coded(W)
  <2> SUFFICES ASSUME NEW d \in W
               PROVE  /\ d = <<d[1], <<d[2][1], d[2][2]>>>>
                      /\ d[1] \in Nat \ {0}
                      /\ d[2][1] \in 1..MaxLength /\ d[2][2] \in Nat
                      /\ d[2][2] < TwoTo(d[2][1])
    BY DEF Coded
  <2>1. CASE d \in C
    BY <2>1 DEF Spells, Coded
  <2>2. CASE d = c
    BY <1>1, <1>9, <1>12, <2>2
  <2> QED
    BY <1>12, <2>1, <2>2
<1>14. Parted(W \cup Hung(u.marker, Ends(u)))
  <2> DEFINE ends == Ends(t)
             others == (ends \ {stop}) \cup ((stop + 1)..L)
  <2>1. stop \in ends /\ (\A j \in ends \ {stop} : n[j] = m[j]) /\ Odd(n) = others
    <3>1. CASE t.count = 0
      <4>1. ends = {0} /\ stop = 0 /\ Odd(m) = {}
        BY <1>1, <3>1, NoneOdd DEF Ends
      <4>2. Odd(n) = (Odd(m) \ {stop}) \cup ((stop + 1)..L)
        BY <1>1, TakenOdd
      <4> QED
        BY <4>1, <4>2
    <3>2. CASE t.count > 0
      <4>1. ends = Odd(m) /\ stop > 0
        BY <1>1, <1>3, <3>2 DEF Ends
      <4> QED
        BY <1>1, <4>1, TakenOdd
    <3> QED
      BY <3>1, <3>2
  <2>2. Ends(u) = others
    BY <1>1, <2>1 DEF Ends
  <2>3. Coded(C) /\ Parted(C \cup Hung(m, ends))
    BY DEF Spells
  <2> HIDE DEF ends, m, n
  <2>4. Parted((C \cup {<<e, <<L, m[L]>>>>}) \cup Hung(n, others))
    BY <1>1, <2>1, <2>3, PartedMoves
  <2> HIDE DEF others
  <2> QED
    BY <1>1, <2>2, <2>4 DEF W
<1>15. Rooted(W, u, type)
  <2> SUFFICES ASSUME NEW d \in W
               PROVE  \E v : LeadsTo(v, u.r, d[2][2], d[2][1], Base(u), type, d[1])
    BY DEF Rooted
  <2>1. CASE d \in C
    <3>1. Base(t) <= Base(u)
      BY <1>3, <1>4
    <3>2. Rooted(C, u, type)
      BY <1>3, <1>4, <1>5, <3>1, LeadsOn DEF Spells
    <3> QED
      BY <2>1, <3>2 DEF Rooted
  <2>2. CASE d = c
    BY <1>8, <1>12, <2>2
  <2> QED
    BY <1>12, <2>1, <2>2
<1>16. ASSUME NEW d \in W PROVE d[1] \in 1..u.i /\ list[d[1]] = d[2][1]
  <2>1. CASE d \in C
    BY <2>1 DEF Spells
  <2>2. CASE d = c
    BY <1>1, <1>12, <2>2 DEF e
  <2> QED
    BY <1>12, <2>1, <2>2
<1>17. u.count # 0
  BY <1>1
<1> QED
  BY <1>11, <1>13, <1>14, <1>15, <1>16, <1>17 DEF Spells

Spelt ==
  pc = "words" => \E C : Spells(C, lengthlist, tree, s.dec_type)

LEMMA SpeltStarts ==
  ASSUME DOMAIN s = DOMAIN NoBook, Lists, AllocWords, ~Refuse(heap, TRUE)
  PROVE  Spelt'
<1> DEFINE cells == [a \in 0..(Room - 1) |->
                       IF s.entries < 2 /\ a = 0 THEN LeafOf(0) ELSE Unset]
<1>1. tree' = [NoTree EXCEPT !.r = cells]
  BY DEF AllocWords
<1> HIDE DEF cells
<1>2. tree'.i = 0 /\ tree'.count = 0 /\ tree'.marker = NoMarkers
  BY <1>1 DEF NoTree
<1> QED
  BY <1>2, NoneSpelled DEF Spelt

LEMMA SpeltSkips ==
  ASSUME Lists, Planting, Spelt, SkipEntry
  PROVE  Spelt'
<1>1. /\ pc = "words" /\ tree.i < s.entries /\ CurrentLength = 0
      /\ tree' = [tree EXCEPT !.i = @ + 1] /\ DOMAIN tree = DOMAIN NoTree
      /\ UNCHANGED <<pc, s, lengthlist>>
  BY DEF SkipEntry, Planting
<1>2. /\ tree'.r = tree.r /\ tree'.i = tree.i + 1 /\ tree'.count = tree.count
      /\ tree'.marker = tree.marker
  BY <1>1, TreeFields
<1>3. tree.i \in Nat /\ lengthlist[tree.i + 1] = 0
  BY <1>1, NextEntry DEF CurrentLength
<1>4. PICK C : Spells(C, lengthlist, tree, s.dec_type)
  BY <1>1 DEF Spelt
<1>5. Spells(C, lengthlist, tree', s.dec_type)
  BY <1>2, <1>3, <1>4, SkipSpells
<1> QED
  BY <1>1, <1>5 DEF Spelt

LEMMA SpeltChases ==
  ASSUME RealWidths, Lists, Planting, Growth, Spelt, ChaseTree, ~RefuseWords
  PROVE  Spelt'
<1>1. /\ pc = "words" /\ tree.i < s.entries /\ ~NoRoom /\ ~Unfit
      /\ tree.j < CurrentLength - 1 /\ UNCHANGED <<pc, s, lengthlist>>
  BY DEF ChaseTree
<1>2. DOMAIN tree = DOMAIN NoTree
  BY DEF Planting
<1>3. Goes(tree, tree', CurrentBit) /\ tree'.i = tree.i
  BY <1>2, ChaseGoes
<1>4. CurrentLength > 0
  BY <1>1, WordIsLong
<1>5. /\ tree.count \in Nat /\ tree.chase \in Nat /\ CurrentBit \in {0, 1}
      /\ tree.chase < tree.top \/ (tree.chase = tree.top /\ CurrentBit = 0)
      /\ Cells(tree, Room)
  BY <1>1, <1>4, CellReached
<1>6. Base(tree) \in Nat /\ Base(tree) <= tree.top
  <2>1. CurrentLength \in 1..MaxLength
    BY <1>1, <1>4, Reaching
  <2>2. PICK stop, ways : Placed(tree, ways, stop)
                            /\ Chased(tree, ways, CurrentLength, stop)
    BY <1>1, <1>4, Reaching
  <2> HIDE DEF CurrentLength
  <2> QED
    BY <1>5, <2>1, <2>2, TopIsBase
<1>7. Keeps(tree, tree') /\ tree'.marker = tree.marker /\ tree'.count = tree.count
  <2>1. tree'.marker = tree.marker /\ tree'.count = tree.count
    BY <1>3 DEF Goes
  <2> DEFINE bit == CurrentBit
  <2>2. /\ bit \in {0, 1} /\ Goes(tree, tree', bit)
        /\ tree.chase < tree.top \/ (tree.chase = tree.top /\ bit = 0)
    BY <1>3, <1>5
  <2> HIDE DEF bit
  <2>3. Keeps(tree, tree')
    BY <1>5, <1>6, <2>2, GoesKeeps
  <2> QED
    BY <2>1, <2>3
<1>8. PICK C : Spells(C, lengthlist, tree, s.dec_type)
  BY <1>1 DEF Spelt
<1>9. Spells(C, lengthlist, tree', s.dec_type)
  BY <1>3, <1>5, <1>7, <1>8, SpellsAlike
<1> QED
  BY <1>1, <1>9 DEF Spelt

(* The leaf that is planted is one, and in a book without values it holds  *)
(* the number of its entry.                                                *)
LEMMA PlantedLeaf ==
  ASSUME RealWidths, BInv, Lists, Planting, Growth, Sizing, PlantLeaf,
         ~RefuseWords
  PROVE  LET leaf == LeafOf(decpack(tree.i, tree.count, opb'))
         IN  /\ leaf \in Nat /\ IsLeaf(leaf)
             /\ s.dec_type = 0 => leaf = LeafOf(tree.i)
<1> DEFINE leaf == LeafOf(decpack(tree.i, tree.count, opb'))
<1>1. /\ pc = "words" /\ tree.i < s.entries /\ ~NoRoom /\ ~Unfit
      /\ tree.j = CurrentLength - 1
  BY DEF PlantLeaf
<1>4. CurrentLength > 0
  BY <1>1, WordIsLong
<1>5. tree.count \in Nat
  BY <1>1, <1>4, CellReached
<1>6. /\ s.entries \in Nat /\ s.dim \in Nat \ {0} /\ sent \in Shapes
      /\ Typed /\ s.dim = sent.dim /\ s.entries = sent.entries
      /\ s.q_bits \in Nat /\ (s.dec_type = 1 => s.q_bits * s.dim <= 31)
      /\ s.dec_type = 2 => s.q_pack \in Nat /\ s.q_pack * s.dim <= 32
      /\ sent.maptype = 1 => /\ quantvals \in Nat \ {0}
                             /\ vals = ValuesRead(quantvals)
                             /\ quantvals <= s.entries
  <2>1. s.entries \in Nat /\ s.dim \in Nat \ {0}
    BY <1>1, FewEntries DEF Listed
  <2>2. s.entries > 0
    BY <1>1, <2>1 DEF Planting
  <2>3. sent \in Shapes /\ Typed
    BY <1>1 DEF Lists, BInv, Pointers
  <2> QED
    BY <1>1, <2>1, <2>2, <2>3 DEF Sizing, Making, Listed
<1>7. tree.i \in Nat /\ tree.count < s.entries
  <2> DEFINE n == tree.i
             used == {e \in 1..n : lengthlist[e] > 0}
  <2>1. n \in Nat /\ Tally(lengthlist, n, tree.count)
    BY <1>1, NextEntry DEF Planting
  <2>2. used \subseteq 1..n /\ tree.count = Cardinality(used)
    BY <2>1 DEF Tally
  <2> HIDE DEF n, used
  <2>3. IsFiniteSet(1..n) /\ Cardinality(1..n) = n
    <3>1. 1 \in Int /\ n \in Int
      BY <2>1
    <3>2. /\ IsFiniteSet(1..n)
          /\ Cardinality(1..n) = IF 1 > n THEN 0 ELSE n - 1 + 1
      BY <3>1, FS_Interval
    <3> QED
      BY <2>1, <3>2
  <2>4. Cardinality(used) <= Cardinality(1..n)
    BY <2>2, <2>3, FS_Subset
  <2>5. tree.count <= n
    BY <2>2, <2>3, <2>4
  <2>6. n < s.entries
    BY <1>1 DEF n
  <2> QED
    BY <1>5, <1>6, <2>1, <2>5, <2>6 DEF n
<1>8. leaf \in Nat /\ IsLeaf(leaf)
  <2>1. decpack(tree.i, tree.count, opb') \in Nat
    BY <1>5, <1>6, <1>7, LeafIsNat
  <2>2. TopBit(WordBits) = 2147483648
    BY WordTop
  <2> DEFINE v == decpack(tree.i, tree.count, opb')
  <2>3. leaf = TopBit(WordBits) + v
    BY DEF LeafOf
  <2> HIDE DEF v
  <2>4. v \in Nat
    BY <2>1 DEF v
  <2> QED
    BY <2>2, <2>3, <2>4 DEF IsLeaf
<1>9. s.dec_type = 0 => decpack(tree.i, tree.count, opb') = tree.i
  BY DEF decpack
<1> QED
  BY <1>8, <1>9

LEMMA SpeltPlants ==
  ASSUME RealWidths, BInv, Lists, Planting, Growth, Sizing, Spelt, PlantLeaf,
         ~RefuseWords
  PROVE  Spelt'
<1> DEFINE leaf == LeafOf(decpack(tree.i, tree.count, opb'))
           L == CurrentLength
<1>1. /\ pc = "words" /\ tree.i < s.entries /\ ~NoRoom /\ ~Unfit
      /\ tree.j = L - 1 /\ UNCHANGED <<pc, s, lengthlist>>
  BY DEF PlantLeaf
<1>2. DOMAIN tree = DOMAIN NoTree
  BY DEF Planting
<1>3. Plants(tree, tree', L, CurrentBit, leaf)
  BY <1>2, LeafPlants
<1>4. L > 0
  BY <1>1, WordIsLong
<1>5. /\ L \in 1..MaxLength /\ tree.i \in Nat /\ lengthlist[tree.i + 1] = L
      /\ \E stop, ways : Placed(tree, ways, stop) /\ Chased(tree, ways, L, stop)
  BY <1>1, <1>4, Reaching, NextEntry DEF CurrentLength
<1>6. PICK stop, ways : Placed(tree, ways, stop) /\ Chased(tree, ways, L, stop)
  BY <1>5
<1>7. /\ tree.count \in Nat /\ (tree.count = 0 => tree.marker = NoMarkers)
      /\ Cells(tree, Room) /\ 2 * tree.chase + 1 < Room
      /\ tree.count > 0 => Good(tree.marker) /\ tree.marker[L] > 0
  <2>1. /\ tree.count \in Nat /\ Cells(tree, Room) /\ 2 * tree.chase + 1 < Room
    BY <1>1, <1>4, CellReached
  <2>2. /\ tree.count = 0 => tree.marker = NoMarkers
        /\ tree.count > 0 => Good(tree.marker)
    BY DEF Planting
  <2>3. tree.count > 0 => tree.marker[L] # 0
    BY <1>1, <1>4 DEF Unfit, CurrentLength
  <2> HIDE DEF L
  <2>4. L \in 0..MaxLength
    BY <1>5, LengthsFit
  <2>5. Good(tree.marker) => tree.marker[L] \in Nat
    BY <2>4 DEF Good
  <2> QED
    BY <2>1, <2>2, <2>3, <2>5
<1>8. IsLeaf(leaf) /\ (s.dec_type = 0 => leaf = LeafOf(tree.i))
  BY PlantedLeaf
<1>9. Plants(tree, tree', L, Bit(tree.marker[L], L, tree.j), leaf)
  BY <1>3, CurrentBitIs
<1>10. tree'.i = tree.i + 1
  BY <1>1, <1>2, TreeFields DEF PlantLeaf, Leafed
<1>11. PICK C : Spells(C, lengthlist, tree, s.dec_type)
  BY <1>1 DEF Spelt
<1> HIDE DEF leaf, L
<1>12. \E W : Spells(W, lengthlist, tree', s.dec_type)
  BY <1>1, <1>5, <1>6, <1>7, <1>8, <1>9, <1>10, <1>11, PlantSpells
<1> QED
  BY <1>1, <1>12 DEF Spelt

LEMMA SpeltStep ==
  ASSUME RealWidths, BInv, Lists, Trees, Growth, Sizing, Spelt,
         [DecodeNext]_allVars
  PROVE  Spelt'
<1>0. DOMAIN s = DOMAIN NoBook
  BY DEF BInv, Pointers
<1>1. ASSUME pc' # "words" PROVE Spelt'
  BY <1>1 DEF Spelt
<1>2. ASSUME NEW h, NEW listed, Refuse(h, listed) PROVE Spelt'
  BY <1>1, <1>2 DEF Refuse
<1>3. ASSUME RefuseWords PROVE Spelt'
  BY <1>2, <1>3, Zenon DEF RefuseWords
<1>4. CASE \/ ReadParameters \/ ReadOrdering \/ ReadLength \/ ReadRun
           \/ ReadMapping \/ PolishQuantvals \/ AllocLattice \/ ReadLattice
           \/ PackTable \/ ReadScalars \/ Finish \/ Clear
  <2>1. pc' # "words"
    BY <1>4, Zenon
       DEF ReadParameters, ReadOrdering, ReadLength, ReadRun, ReadMapping,
                PolishQuantvals, AllocLattice, ReadLattice, NextListed, Refuse,
                PackTable, ReadScalars, Finish, Clear, vorbis_book_clear,
                RefuseWords
  <2> QED
    BY <1>1, <2>1
<1>5. CASE AllocWords
  BY <1>0, <1>2, <1>5, SpeltStarts
<1>6. CASE SkipEntry \/ ChaseTree \/ PlantLeaf
  <2>1. pc = "words"
    BY <1>6 DEF SkipEntry, ChaseTree, PlantLeaf
  <2> QED
    BY <1>3, <1>6, <2>1, SpeltSkips, SpeltChases, SpeltPlants DEF Trees
<1>7. CASE EndWords
  <2>1. RefuseWords \/ pc' = "pack"
    BY <1>7 DEF EndWords
  <2> QED
    BY <1>1, <1>3, <2>1
<1>8. CASE \/ StartCall \/ NextVector \/ LookAhead \/ WalkBit \/ WalkEnds
           \/ UseEntry \/ UNCHANGED allVars
  <2>1. UNCHANGED <<pc, s, tree, lengthlist>>
    BY <1>8, Zenon DEF StartCall, NextVector, LookAhead, WalkBit, WalkEnds,
                 UseEntry, Return, vars, allVars
  <2> QED
    BY <2>1 DEF Spelt
<1> QED
  BY <1>4, <1>5, <1>6, <1>7, <1>8 DEF DecodeNext, Unpack, vorbis_book_unpack
-----------------------------------------------------------------------------
(* The table follows the tree: a node has its place in it.                 *)

LEMMA SidesAreFinite ==
  ASSUME NEW T \in SUBSET {0, 1}
  PROVE  IsFiniteSet(T) /\ Cardinality(T) \in Nat
<1>1. IsFiniteSet({0}) /\ {0, 1} = {0} \cup {1}
  BY FS_Singleton
<1>2. IsFiniteSet({0, 1})
  BY <1>1, FS_AddElement
<1> QED
  BY <1>2, FS_Subset, FS_CardinalityType

(* The node that cell a belongs to.                                        *)
NodeOf(r, u, a) == Max({n \in 0..(u - 2) : StartOf(r, n) <= a})

LEMMA NodeAt ==
  ASSUME NEW r, NEW u, u \in Nat, u >= 2, NEW k \in 0..(u - 2), NEW a \in Nat,
         StartOf(r, k) <= a, a < StartOf(r, k) + NodeCells(r, k)
  PROVE  NodeOf(r, u, a) = k
<1> DEFINE N == {n \in 0..(u - 2) : StartOf(r, n) <= a}
           S == StartOf(r, k)
           c == NodeCells(r, k)
<1>1. k \in Nat /\ k <= u - 2 /\ S \in Nat
  <2>1. k \in Nat /\ k <= u - 2
    OBVIOUS
  <2> QED
    BY <2>1, StartsGrow
<1>3. StartOf(r, k + 1) = S + c /\ c \in 2..4
  <2>1. /\ Cardinality(LeafCells(r, 2 * k + 2))
             = Cardinality(LeafCells(r, 2 * k))
                 + Cardinality({o \in {0, 1} : IsLeaf(r[2 * k + o])})
        /\ c \in 2..4
    BY <1>1, LeavesOfNode
  <2> DEFINE x == Cardinality(LeafCells(r, 2 * k))
             y == Cardinality({o \in {0, 1} : IsLeaf(r[2 * k + o])})
  <2>2. x \in Nat
    <3>1. 2 * k \in Nat
      BY <1>1
    <3> QED
      BY <3>1, CellsAreFinite
  <2>3. c = 2 + y
    BY DEF NodeCells
  <2>4. y \in Int
    <3>1. {o \in {0, 1} : IsLeaf(r[2 * k + o])} \in SUBSET {0, 1}
      OBVIOUS
    <3>2. y \in Nat
      BY <3>1, SidesAreFinite
    <3> HIDE DEF y
    <3> QED
      BY <3>2
  <2>5. 2 * (k + 1) = 2 * k + 2
    BY <1>1
  <2>6. StartOf(r, k + 1) = 2 * k + 2 + (x + y) /\ S = 2 * k + x
    BY <2>1, <2>5 DEF StartOf
  <2> HIDE DEF x, y, c, S
  <2> QED
    BY <1>1, <2>1, <2>2, <2>3, <2>4, <2>6
<1>4. k \in N
  OBVIOUS
<1>5. ASSUME NEW n \in N PROVE n \in Nat /\ n <= k
  <2>1. n \in 0..(u - 2) /\ StartOf(r, n) <= a
    OBVIOUS
  <2>2. n \in Nat
    BY <2>1
  <2> SUFFICES ASSUME k + 1 <= n PROVE FALSE
    BY <1>1, <2>2
  <2> DEFINE x == StartOf(r, n)
             z == StartOf(r, k + 1)
  <2>3. z + 2 * (n - (k + 1)) <= x /\ x \in Nat /\ z \in Nat
    <3>1. k + 1 \in Nat
      BY <1>1
    <3> QED
      BY <2>2, <3>1, StartsGrow
  <2>4. x <= a /\ a < S + c /\ z = S + c
    BY <1>3, <2>1
  <2> HIDE DEF x, z, S, c
  <2> QED
    BY <1>1, <1>3, <2>2, <2>3, <2>4
<1> HIDE DEF N
<1>6. \A x \in N : (\A y \in N : x >= y) => x = k
  BY <1>1, <1>4, <1>5
<1>7. \A y \in N : k >= y
  BY <1>1, <1>5
<1>8. Max(N) = CHOOSE x \in N : \A y \in N : x >= y
  BY DEF Max
<1>9. Max(N) \in N /\ \A y \in N : Max(N) >= y
  BY <1>4, <1>7, <1>8
<1>10. Max(N) = k
  BY <1>6, <1>9
<1> QED
  BY <1>10 DEF N, NodeOf

(* The low halves of the leaves of a node follow its two sides.            *)
LEMMA HalvedLows ==
  ASSUME NEW r, NEW u, u \in Nat, u >= 2,
         Cardinality(LeafCells(r, 2 * u - 2)) = u,
         NEW bits, NEW k \in 0..(u - 2), StartOf(r, k) + 3 <= 3 * u - 3
  PROVE  LET a == StartOf(r, k)
             h == Halved(r, u, bits)
         IN  /\ IsLeaf(r[2 * k]) =>
                  a + 2 \in DOMAIN h /\ h[a + 2] = r[2 * k] % 2 ^ bits
             /\ IsLeaf(r[2 * k + 1]) /\ ~IsLeaf(r[2 * k]) =>
                  a + 2 \in DOMAIN h /\ h[a + 2] = r[2 * k + 1] % 2 ^ bits
             /\ IsLeaf(r[2 * k + 1]) /\ IsLeaf(r[2 * k]) =>
                  a + 3 \in DOMAIN h /\ h[a + 3] = r[2 * k + 1] % 2 ^ bits
<1> DEFINE start == [j \in 0..(u - 2) |-> StartOf(r, j)]
           node(a) == Max({n \in 0..(u - 2) : start[n] <= a})
           side(w) == IF IsLeaf(w)
                      THEN TopBit(bits) + ((w \div 2 ^ bits) % TopBit(bits))
                      ELSE start[w] % 2 ^ bits
           low(w) == w % 2 ^ bits
           cell(a) == LET n == node(a)
                          l == r[2 * n]
                          m == r[2 * n + 1]
                      IN  CASE a = start[n]     -> side(l)
                            [] a = start[n] + 1 -> side(m)
                            [] a = start[n] + 2 -> low(IF IsLeaf(l) THEN l ELSE m)
                            [] a = start[n] + 3 -> low(m)
           S == StartOf(r, k)
           c == NodeCells(r, k)
<1>1. Halved(r, u, bits) = [a \in 0..(3 * u - 3) |-> cell(a)]
  <2>1. NodeStarts(r, u) = start
    BY StartsAre
  <2> QED
    BY <2>1 DEF Halved
<1>2. k \in Nat /\ k <= u - 2 /\ S \in Nat /\ S + 3 <= 3 * u - 3
  <2>1. k \in Nat /\ k <= u - 2
    OBVIOUS
  <2> QED
    BY <2>1, StartsGrow
<1>3. c \in 2..4 /\ (IsLeaf(r[2 * k]) /\ IsLeaf(r[2 * k + 1]) => c = 4)
  BY <1>2, LeavesOfNode
<1>4. IsLeaf(r[2 * k]) \/ IsLeaf(r[2 * k + 1]) => c >= 3
  <2> DEFINE T == {o \in {0, 1} : IsLeaf(r[2 * k + o])}
  <2> SUFFICES ASSUME IsLeaf(r[2 * k]) \/ IsLeaf(r[2 * k + 1]) PROVE c >= 3
    OBVIOUS
  <2>1. 2 * k + 0 = 2 * k
    BY <1>2
  <2>2. T # {}
    BY <2>1
  <2>4. IsFiniteSet(T) /\ Cardinality(T) \in Nat
    <3>1. T \in SUBSET {0, 1}
      OBVIOUS
    <3> QED
      BY <3>1, SidesAreFinite
  <2>5. Cardinality(T) \in Nat /\ Cardinality(T) # 0
    BY <2>2, <2>4, FS_EmptySet
  <2>6. c = 2 + Cardinality(T)
    BY DEF NodeCells
  <2> HIDE DEF c, T
  <2> QED
    BY <2>5, <2>6
<1>5. start[k] = S
  OBVIOUS
<1>6. ASSUME NEW d \in {2, 3}, d < c PROVE node(S + d) = k /\ S + d \in 0..(3 * u - 3)
  <2>1. S + d \in Nat /\ S <= S + d /\ S + d < S + c
    <3> HIDE DEF S, c
    <3> QED
      BY <1>2, <1>3, <1>6
  <2>2. S + d \in 0..(3 * u - 3)
    <3> HIDE DEF S, c
    <3> QED
      BY <1>2
  <2>3. node(S + d) = k
    <3> DEFINE x == S + d
    <3>1. x \in Nat /\ StartOf(r, k) <= x /\ x < StartOf(r, k) + NodeCells(r, k)
      BY <2>1
    <3> HIDE DEF x
    <3>2. NodeOf(r, u, x) = k
      BY <3>1, NodeAt
    <3>3. {n \in 0..(u - 2) : start[n] <= x} = {n \in 0..(u - 2) : StartOf(r, n) <= x}
      OBVIOUS
    <3>4. node(x) = k
      BY <3>2, <3>3 DEF NodeOf
    <3> QED
      BY <3>4 DEF x
  <2> QED
    BY <2>2, <2>3
<1>7. /\ S + 2 # S /\ S + 2 # S + 1 /\ S + 3 # S /\ S + 3 # S + 1 /\ S + 3 # S + 2
  <2> HIDE DEF S
  <2> QED
    BY <1>2
<1> HIDE DEF start, S, node
<1>8. ASSUME node(S + 2) = k
      PROVE  cell(S + 2) = low(IF IsLeaf(r[2 * k]) THEN r[2 * k] ELSE r[2 * k + 1])
  <2> HIDE DEF side, low
  <2> QED
    BY <1>5, <1>7, <1>8
<1>9. ASSUME node(S + 3) = k PROVE cell(S + 3) = low(r[2 * k + 1])
  <2> HIDE DEF side, low
  <2> QED
    BY <1>5, <1>7, <1>9
<1> DEFINE h == Halved(r, u, bits)
<1>10. ASSUME NEW a \in 0..(3 * u - 3) PROVE a \in DOMAIN h /\ h[a] = cell(a)
  <2> HIDE DEF cell
  <2> QED
    BY <1>1
<1> HIDE DEF cell, h, c
<1>11. ASSUME IsLeaf(r[2 * k]) \/ IsLeaf(r[2 * k + 1])
       PROVE  /\ S + 2 \in DOMAIN h
              /\ h[S + 2] = low(IF IsLeaf(r[2 * k]) THEN r[2 * k] ELSE r[2 * k + 1])
  <2>1. 2 < c /\ 2 \in {2, 3}
    BY <1>3, <1>4, <1>11
  <2>2. node(S + 2) = k /\ S + 2 \in 0..(3 * u - 3)
    BY <1>6, <2>1
  <2> HIDE DEF low
  <2> QED
    BY <1>8, <1>10, <2>2
<1>12. ASSUME IsLeaf(r[2 * k]), IsLeaf(r[2 * k + 1])
       PROVE  S + 3 \in DOMAIN h /\ h[S + 3] = low(r[2 * k + 1])
  <2>1. 3 < c /\ 3 \in {2, 3}
    BY <1>3, <1>12
  <2>2. node(S + 3) = k /\ S + 3 \in 0..(3 * u - 3)
    BY <1>6, <2>1
  <2> HIDE DEF low
  <2> QED
    BY <1>9, <1>10, <2>2
<1>13. S = StartOf(r, k) /\ h = Halved(r, u, bits)
  BY DEF S, h
<1> QED
  BY <1>11, <1>12, <1>13, Zenon

(* Where node k of the tree is in the table.                               *)
Place(k) ==
  IF InPlace \/ s.dec_leafw = 1 THEN k ELSE StartOf(tree.r, k)

(* A side of a node is found in its cell: the leaf, marked, with the       *)
(* number it holds, or the place of the next node.                         *)
Found(k, bit) ==
  LET a == CellOf(Place(k), bit)
      w == tree.r[2 * k + bit]
  IN  /\ a \in DOMAIN table /\ table[a] \in Nat
      /\ IsLeaf(w) =>
           /\ Marked(table[a]) /\ LeafAt(table[a], Place(k), bit) \in Nat
           /\ s.dec_type = 0 =>
                \A v \in 0..(s.entries - 1) :
                  w = LeafOf(v) => LeafAt(table[a], Place(k), bit) = v
      /\ ~IsLeaf(w) => /\ ~Marked(table[a]) /\ w \in 0..(tree.top - 1)
                       /\ table[a] = Place(w)
Follows ==
  Place(0) = 0 /\ \A k \in 0..(tree.top - 1), bit \in {0, 1} : Found(k, bit)

(* The numbers of the leaves that hold their entry.                        *)
NumbersFit ==
  s.dec_type = 0 /\ s.dec_nodeb \in {1, 2} =>
    /\ s.dec_leafw = 1 => s.entries < TwoTo(s.dec_nodeb * ByteBits - 1)
    /\ s.dec_leafw = 2 => s.entries < TwoTo(2 * (s.dec_nodeb * ByteBits) - 1)

LEMMA FollowsInPlace ==
  ASSUME RealWidths, InPlace, Grown(tree), tree.chase = 0, tree.top \in Nat,
         tree.top > 0, Cells(tree, Room), table = tree.r, s.entries \in Nat,
         s.entries < TwoTo(24)
  PROVE  Follows
<1> DEFINE n == tree.top
           T == TopBit(WordBits)
<1>1. T = 2147483648 /\ T \in Nat /\ CellBits = WordBits /\ s.entries < T
      /\ s.entries \in Nat
  <2>1. TwoTo(24) = 16777216
    BY Thirty
  <2> QED
    BY <2>1, WordTop DEF CellBits
<1>2. Room \in Int /\ DOMAIN tree.r = 0..(Room - 1) /\ 2 * n <= Room
      /\ n \in Nat
  BY DEF Cells
<1>3. \A k : Place(k) = k
  BY DEF Place
<1>4. ASSUME NEW k \in 0..(n - 1), NEW bit \in {0, 1} PROVE Found(k, bit)
  <2> DEFINE a == 2 * k + bit
             w == tree.r[a]
  <2>1. CellOf(Place(k), bit) = a
    BY <1>3 DEF CellOf
  <2>2. a \in DOMAIN table
    <3> HIDE DEF n
    <3>1. 2 * k + bit \in 0..(Room - 1)
      BY <1>2
    <3> QED
      BY <1>2, <3>1
  <2>3. w \in Nat /\ (IsLeaf(w) \/ w < n)
    <3>1. /\ w \in Nat
          /\ tree.chase < tree.top => IsLeaf(w) \/ w < tree.top
      BY DEF Grown
    <3> QED
      BY <3>1
  <2>4. \A c : Marked(c) <=> IsLeaf(c)
    BY <1>1 DEF Marked, IsLeaf
  <2>5. LeafAt(w, Place(k), bit) = w % T
    BY <1>1 DEF LeafAt
  <2>6. w % T \in Nat
    <3> HIDE DEF w, T
    <3> QED
      BY <1>1, <2>3
  <2>7. ASSUME NEW v \in 0..(s.entries - 1), w = LeafOf(v) PROVE w % T = v
    <3>1. w = T + v
      BY <2>7 DEF LeafOf
    <3>2. v \in Nat /\ v < T
      BY <1>1
    <3> HIDE DEF w
    <3>3. (T + v) % T = v
      BY <1>1, <3>2
    <3> QED
      BY <3>1, <3>3
  <2>8. ~IsLeaf(w) => w \in 0..(n - 1)
    <3> HIDE DEF w
    <3> QED
      BY <2>3
  <2>9. table[a] = w
    OBVIOUS
  <2>10. tree.r[2 * k + bit] = w
    OBVIOUS
  <2> DEFINE c == CellOf(Place(k), bit)
  <2>11. /\ c \in DOMAIN table /\ table[c] = w
    BY <2>1, <2>2, <2>9
  <2>12. /\ table[c] \in Nat
         /\ IsLeaf(w) =>
              /\ Marked(table[c]) /\ LeafAt(table[c], Place(k), bit) \in Nat
              /\ s.dec_type = 0 =>
                   \A v \in 0..(s.entries - 1) :
                     w = LeafOf(v) => LeafAt(table[c], Place(k), bit) = v
         /\ ~IsLeaf(w) => /\ ~Marked(table[c]) /\ w \in 0..(n - 1)
                          /\ table[c] = Place(w)
    <3> HIDE DEF w, c, T, a
    <3> QED
      BY <1>3, <2>3, <2>4, <2>5, <2>6, <2>7, <2>8, <2>11
  <2> HIDE DEF w, a
  <2> QED
    BY <2>10, <2>11, <2>12 DEF Found
<1> QED
  BY <1>3, <1>4 DEF Follows

(* What a leaf's cell of one word holds.                                   *)
LEMMA NarrowedIs ==
  ASSUME NEW bits \in {8, 16}, NEW z, z = TopBit(bits), NEW T,
         T = TopBit(WordBits), RealWidths, NEW w \in Nat
  PROVE  /\ Narrowed(w, bits) \in Nat
         /\ w < z /\ ~IsLeaf(w) => Narrowed(w, bits) = w
         /\ IsLeaf(w) => Narrowed(w, bits) >= z
         /\ \A v \in Nat : v < z /\ w = LeafOf(v) => Narrowed(w, bits) % z = v
<1> DEFINE low == w % (2 * z)
<1>1. T = 2147483648
  BY WordTop
<1>2. z \in {128, 32768} /\ 2 ^ bits = 2 * z
  <2>1. TwoTo(7) = 128 /\ TwoTo(8) = 256 /\ TwoTo(15) = 32768 /\ TwoTo(16) = 65536
    BY SMT DEF TwoTo
  <2>2. CASE bits = 8
    <3>1. z = TwoTo(7) /\ 2 ^ bits = TwoTo(8)
      BY <2>2 DEF TopBit, TwoTo
    <3> QED
      BY <2>1, <3>1
  <2>3. CASE bits = 16
    <3>1. z = TwoTo(15) /\ 2 ^ bits = TwoTo(16)
      BY <2>3 DEF TopBit, TwoTo
    <3> QED
      BY <2>1, <3>1
  <2> QED
    BY <2>2, <2>3
<1>3. Narrowed(w, bits) = IF IsLeaf(w) /\ low < z THEN low + z ELSE low
  BY <1>2 DEF Narrowed
<1>4. low \in Nat /\ low < 2 * z
  BY <1>2
<1>5. w < z => low = w
  BY <1>2
<1>6. ASSUME NEW v \in Nat, v < z, w = T + v PROVE low = v
  BY <1>1, <1>2, <1>6
<1>7. \A v : LeafOf(v) = T + v
  BY DEF LeafOf
<1>8. ASSUME NEW v \in Nat, v < z PROVE (v + z) % z = v /\ IsLeaf(T + v)
  BY <1>1, <1>2, <1>8 DEF IsLeaf
<1> HIDE DEF low
<1>9. ASSUME NEW v \in Nat, v < z, w = LeafOf(v) PROVE Narrowed(w, bits) % z = v
  <2>1. w = T + v
    BY <1>7, <1>9
  <2>2. low = v /\ IsLeaf(w)
    BY <1>6, <1>8, <1>9, <2>1
  <2>3. Narrowed(w, bits) = v + z
    BY <1>3, <1>9, <2>2
  <2> QED
    BY <1>8, <1>9, <2>3
<1>10. z \in Nat
  BY <1>2
<1> QED
  BY <1>3, <1>4, <1>5, <1>9, <1>10

LEMMA FollowsFlat ==
  ASSUME RealWidths, s.dec_nodeb \in {1, 2}, s.dec_leafw = 1, NEW u, u \in Nat,
         u >= 2, tree.top = u - 1, u - 2 < TopBit(CellBits),
         \A k \in 0..(u - 2), o \in {0, 1} :
           LET w == tree.r[2 * k + o]
           IN  w \in Nat /\ (IsLeaf(w) \/ (k < w /\ w <= u - 2)),
         table = Flat(tree.r, u, CellBits), NumbersFit, s.entries \in Nat
  PROVE  Follows
<1> DEFINE z == TopBit(CellBits)
           T == TopBit(WordBits)
<1>1. ~InPlace /\ z \in Nat \ {0} /\ CellBits \in {8, 16}
      /\ CellBits = s.dec_nodeb * ByteBits /\ z = TwoTo(CellBits - 1)
  BY CellWidth
<1>2. s.dec_type = 0 => s.entries < z
  BY <1>1 DEF NumbersFit
<1>3. \A k : Place(k) = k
  BY DEF Place
<1>4. ASSUME NEW k \in 0..(u - 2), NEW bit \in {0, 1} PROVE Found(k, bit)
  <2> DEFINE a == 2 * k + bit
             w == tree.r[a]
             c == CellOf(Place(k), bit)
  <2>1. c = a
    BY <1>3 DEF CellOf
  <2>2. a \in 0..(2 * u - 3)
    OBVIOUS
  <2>3. DOMAIN table = 0..(2 * u - 3) /\ table[a] = Narrowed(w, CellBits)
    BY <2>2 DEF Flat
  <2>4. w \in Nat /\ (IsLeaf(w) \/ w <= u - 2)
    OBVIOUS
  <2> DEFINE y == Narrowed(w, CellBits)
  <2>5. /\ y \in Nat /\ (w < z /\ ~IsLeaf(w) => y = w) /\ (IsLeaf(w) => y >= z)
        /\ \A v \in Nat : v < z /\ w = LeafOf(v) => y % z = v
    <3> HIDE DEF w
    <3> QED
      BY <1>1, <2>4, NarrowedIs
  <2>6. \A x : Marked(x) <=> x >= z
    BY DEF Marked
  <2>7. LeafAt(y, Place(k), bit) = y % z
    BY DEF LeafAt
  <2>8. tree.r[2 * k + bit] = w
    OBVIOUS
  <2> HIDE DEF w, y, z, a
  <2>9. y % z \in Nat
    BY <1>1, <2>5
  <2>10. ~IsLeaf(w) => w \in 0..(u - 2) /\ w < z /\ ~(w >= z)
    <3>1. w <= u - 2 /\ u - 2 < z => w \in 0..(u - 2) /\ w < z /\ ~(w >= z)
      BY <1>1, <2>4
    <3>2. u - 2 < z
      BY DEF z
    <3> QED
      BY <2>4, <3>1, <3>2
  <2>11. ASSUME s.dec_type = 0, NEW v \in 0..(s.entries - 1), w = LeafOf(v)
         PROVE  y % z = v
    <3>1. v \in Nat /\ v < z
      BY <1>1, <1>2, <2>11
    <3> QED
      BY <2>5, <2>11, <3>1
  <2>12. c \in DOMAIN table /\ table[c] = y
    <3>1. c \in 0..(2 * u - 3)
      BY <2>1, <2>2
    <3> QED
      BY <2>1, <2>3, <3>1 DEF y
  <2>13. 0..(u - 2) = 0..(tree.top - 1)
    OBVIOUS
  <2> HIDE DEF c
  <2>14. /\ table[c] \in Nat
         /\ IsLeaf(w) =>
              /\ Marked(table[c]) /\ LeafAt(table[c], Place(k), bit) \in Nat
              /\ s.dec_type = 0 =>
                   \A v \in 0..(s.entries - 1) :
                     w = LeafOf(v) => LeafAt(table[c], Place(k), bit) = v
         /\ ~IsLeaf(w) => /\ ~Marked(table[c]) /\ w \in 0..(tree.top - 1)
                          /\ table[c] = Place(w)
    BY <1>3, <2>5, <2>6, <2>7, <2>9, <2>10, <2>11, <2>12, <2>13
  <2> QED
    BY <2>8, <2>12, <2>14 DEF Found, c
<1>5. 0..(tree.top - 1) = 0..(u - 2)
  OBVIOUS
<1> QED
  BY <1>3, <1>4, <1>5 DEF Follows

LEMMA Divided ==
  ASSUME NEW v \in Nat, NEW b \in Nat, b > 0
  PROVE  /\ v \div b \in Nat /\ v % b \in Nat /\ v % b < b
         /\ v = (v \div b) * b + (v % b)
<1> DEFINE q == v \div b
           r == v % b
<1>1. q \in Nat /\ r \in Nat /\ r < b /\ v = q * b + r
  OBVIOUS
<1> QED
  BY <1>1

(* The marks of the two cell sizes, and of their two cells together.       *)
LEMMA CellMarks ==
  ASSUME RealWidths, s.dec_nodeb \in {1, 2}
  PROVE  \/ TopBit(CellBits) = 128 /\ TwoTo(2 * CellBits - 1) = 32768
         \/ TopBit(CellBits) = 32768 /\ TwoTo(2 * CellBits - 1) = 2147483648
<1>1. CellBits \in {8, 16}
  BY CellWidth
<1>2. TwoTo(7) = 128 /\ TwoTo(15) = 32768 /\ TwoTo(31) = 2147483648
  BY SMT DEF TwoTo
<1>3. CASE CellBits = 8
  <2>1. TopBit(CellBits) = TwoTo(7) /\ 2 * CellBits - 1 = 15
    BY <1>3 DEF TopBit, TwoTo
  <2> QED
    BY <1>2, <2>1
<1>4. CASE CellBits = 16
  <2>1. TopBit(CellBits) = TwoTo(15) /\ 2 * CellBits - 1 = 31
    BY <1>4 DEF TopBit, TwoTo
  <2> QED
    BY <1>2, <2>1
<1> QED
  BY <1>1, <1>3, <1>4

(* What the two cells of a leaf hold.                                      *)
Upper(w, M, z) == (w \div M) % z
Whole(w, M, z) == Upper(w, M, z) * M + (w % M)

LEMMA HalvesHold ==
  ASSUME RealWidths, NEW z \in Nat, NEW M \in Nat, M = 2 * z, NEW lim \in Nat,
         (z = 128 /\ lim = 32768) \/ (z = 32768 /\ lim = 2147483648),
         NEW w \in Nat, NEW v \in Nat, v < lim, w = LeafOf(v)
  PROVE  Whole(w, M, z) = v
<1> DEFINE T == TopBit(WordBits)
           q == w \div (2 * z)
<1>1. T = 2147483648
  BY WordTop
<1>2. /\ z \in {128, 32768} /\ (z = 128 => lim = 32768)
      /\ z = 32768 => lim = 2147483648
  OBVIOUS
<1>3. w = T + v
  BY DEF LeafOf
<1>5. (q % z) * (2 * z) + (w % (2 * z)) = v
  <2>1. CASE z = 128
    <3> DEFINE q1 == v \div 256
               t1 == v % 256
               p1 == w \div 256
               s1 == w % 256
    <3>1. /\ q1 \in Nat /\ t1 \in Nat /\ t1 < 256 /\ v = q1 * 256 + t1
          /\ p1 \in Nat /\ s1 \in Nat /\ s1 < 256 /\ w = p1 * 256 + s1
      BY Divided
    <3>2. w = 2147483648 + v /\ v < 32768
      BY <1>1, <1>2, <1>3, <2>1
    <3> HIDE DEF q1, t1, p1, s1
    <3>3. q1 < 128
      BY <3>1, <3>2
    <3>4. p1 = 8388608 + q1 /\ s1 = t1
      BY <3>1, <3>2
    <3>5. p1 % 128 = q1
      BY <3>1, <3>3, <3>4
    <3>6. (p1 % 128) * 256 + s1 = v
      BY <3>1, <3>4, <3>5
    <3> QED
      <4>1. 2 * z = 256
        BY <2>1
      <4>2. q = p1 /\ w % (2 * z) = s1
        BY <4>1 DEF p1, s1
      <4>3. (q % z) * (2 * z) = (p1 % 128) * 256
        BY <2>1, <4>1, <4>2
      <4> HIDE DEF q
      <4> QED
        BY <3>6, <4>2, <4>3
  <2>2. CASE z = 32768
    <3> DEFINE q1 == v \div 65536
               t1 == v % 65536
               p1 == w \div 65536
               s1 == w % 65536
    <3>1. /\ q1 \in Nat /\ t1 \in Nat /\ t1 < 65536 /\ v = q1 * 65536 + t1
          /\ p1 \in Nat /\ s1 \in Nat /\ s1 < 65536 /\ w = p1 * 65536 + s1
      BY Divided
    <3>2. w = 2147483648 + v /\ v < 2147483648
      BY <1>1, <1>2, <1>3, <2>2
    <3> HIDE DEF q1, t1, p1, s1
    <3>3. q1 < 32768
      BY <3>1, <3>2
    <3>4. p1 = 32768 + q1 /\ s1 = t1
      BY <3>1, <3>2
    <3>5. p1 % 32768 = q1
      BY <3>1, <3>3, <3>4
    <3>6. (p1 % 32768) * 65536 + s1 = v
      BY <3>1, <3>4, <3>5
    <3> QED
      <4>1. 2 * z = 65536
        BY <2>2
      <4>2. q = p1 /\ w % (2 * z) = s1
        BY <4>1 DEF p1, s1
      <4>3. (q % z) * (2 * z) = (p1 % 32768) * 65536
        BY <2>2, <4>1, <4>2
      <4> HIDE DEF q
      <4> QED
        BY <3>6, <4>2, <4>3
  <2> QED
    BY <1>2, <2>1, <2>2
<1>7. M = 2 * z
  OBVIOUS
<1> HIDE DEF T
<1>8. q = w \div M /\ w % (2 * z) = w % M
  BY <1>7
<1>9. Whole(w, M, z) = ((w \div M) % z) * M + (w % M)
  BY DEF Whole, Upper
<1>10. ((w \div M) % z) * M + (w % M) = v
  <2> HIDE DEF q
  <2> QED
    BY <1>5, <1>7, <1>8
<1> HIDE DEF q
<1> QED
  BY <1>9, <1>10

LEMMA FollowsHalved ==
  ASSUME RealWidths, s.dec_nodeb \in {1, 2}, s.dec_leafw = 2, NEW u, u \in Nat,
         u >= 2, u < TwoTo(24), ilog(3 * u - 6) < s.dec_nodeb * ByteBits,
         tree.top = u - 1,
         \A k \in 0..(u - 2), o \in {0, 1} :
           LET w == tree.r[2 * k + o]
           IN  w \in Nat /\ (IsLeaf(w) \/ (k < w /\ w <= u - 2)),
         Cardinality(LeafCells(tree.r, 2 * u - 2)) = u,
         table = Halved(tree.r, u, CellBits), NumbersFit, s.entries \in Nat
  PROVE  Follows
<1> DEFINE r == tree.r
           bits == CellBits
           z == TopBit(bits)
           M == 2 ^ bits
<1>1. ~InPlace /\ z \in Nat \ {0} /\ M = 2 * z /\ bits \in {8, 16}
      /\ bits = s.dec_nodeb * ByteBits
  BY CellWidth
<1>2. s.dec_type = 0 => s.entries < TwoTo(2 * bits - 1)
  BY <1>1 DEF NumbersFit
<1>3. \A k : Place(k) = StartOf(r, k)
  BY <1>1 DEF Place
<1>4. \A k \in 0..(u - 2) : /\ StartOf(r, k) \in Nat /\ StartOf(r, k) <= 3 * u - 6
                            /\ StartOf(r, k) < z
  BY StartsFit
<1>5. StartOf(r, 0) = 0
  <2>1. LeafCells(r, 2 * 0) = {}
    BY DEF LeafCells
  <2>2. Cardinality(LeafCells(r, 2 * 0)) = 0
    BY <2>1, FS_EmptySet
  <2>3. StartOf(r, 0) = 2 * 0 + Cardinality(LeafCells(r, 2 * 0))
    BY DEF StartOf
  <2> HIDE DEF r
  <2> QED
    BY <2>2, <2>3
<1>6. ASSUME NEW w \in Nat, IsLeaf(w) \/ w <= u - 2
      PROVE  LET c == Side(r, u, bits, w)
             IN  /\ c \in Nat
                 /\ IsLeaf(w) => c = z + ((w \div M) % z) /\ Marked(c)
                 /\ ~IsLeaf(w) => c = StartOf(r, w) /\ ~Marked(c)
  <2>1. \A c : Marked(c) <=> c >= z
    BY DEF Marked
  <2>2. CASE IsLeaf(w)
    <3> DEFINE x == (w \div M) % z
    <3>1. x \in Nat
      <4>1. M \in Nat \ {0}
        BY <1>1
      <4> HIDE DEF M, z
      <4> DEFINE y == w \div M
      <4>2. y \in Nat
        BY <4>1, Divided
      <4> HIDE DEF y
      <4>3. y % z \in Nat
        BY <1>1, <4>2, Divided
      <4> QED
        BY <4>3 DEF y
    <3>2. Side(r, u, bits, w) = z + x
      BY <2>2 DEF Side
    <3> HIDE DEF x, z
    <3>3. z + x \in Nat /\ z + x >= z
      BY <1>1, <3>1
    <3> QED
      BY <2>1, <2>2, <3>2, <3>3 DEF x
  <2>3. CASE ~IsLeaf(w)
    <3>1. w \in 0..(u - 2)
      BY <1>6, <2>3
    <3> DEFINE v == StartOf(r, w)
    <3>2. Side(r, u, bits, w) = v % M
      <4>1. [k \in 0..(u - 2) |-> StartOf(r, k)][w] = StartOf(r, w)
        BY <3>1
      <4> QED
        BY <2>3, <4>1, Zenon DEF Side
    <3>3. v \in Nat /\ v < z
      BY <1>4, <3>1
    <3> HIDE DEF z, v, M
    <3>4. v % M = v
      <4>1. M \in Nat /\ v < M
        BY <1>1, <3>3
      <4> QED
        BY <3>3, <4>1
    <3>5. ~(v >= z)
      BY <1>1, <3>3
    <3> QED
      BY <2>1, <2>3, <3>2, <3>3, <3>4, <3>5 DEF v
  <2> QED
    BY <2>2, <2>3
<1>8. TwoTo(2 * bits - 1) \in Nat
  <2>1. 2 * bits - 1 \in 0..32
    BY <1>1
  <2>2. TwoTo(2 * bits - 1) \in Nat \ {0}
    BY <2>1, Doubling
  <2> QED
    BY <2>2
<1>7. ASSUME NEW k \in 0..(u - 2), NEW bit \in {0, 1} PROVE Found(k, bit)
  <2> DEFINE p == StartOf(r, k)
             l == r[2 * k]
             m == r[2 * k + 1]
             w == r[2 * k + bit]
             c == p + bit
             high == (w \div M) % z
             low == LowHalf(p, bit)
  <2>1. p \in Nat /\ p <= 3 * u - 6 /\ Place(k) = p
    BY <1>3, <1>4
  <2>2. /\ p \in DOMAIN table /\ table[p] = Side(r, u, bits, l)
        /\ p + 1 \in DOMAIN table /\ table[p + 1] = Side(r, u, bits, m)
    <3>1. p + 1 <= 3 * u - 3
      <4> HIDE DEF p
      <4> QED
        BY <2>1
    <3> QED
      BY <3>1, HalvedCells
  <2>3. /\ IsLeaf(l) => p + 2 \in DOMAIN table /\ table[p + 2] = l % M
        /\ IsLeaf(m) /\ ~IsLeaf(l) => p + 2 \in DOMAIN table /\ table[p + 2] = m % M
        /\ IsLeaf(m) /\ IsLeaf(l) => p + 3 \in DOMAIN table /\ table[p + 3] = m % M
    <3>1. p + 3 <= 3 * u - 3
      <4> HIDE DEF p
      <4> QED
        BY <2>1
    <3> QED
      BY <3>1, HalvedLows
  <2>4. ASSUME NEW o \in {0, 1}
        PROVE  r[2 * k + o] \in Nat /\ (IsLeaf(r[2 * k + o]) \/ r[2 * k + o] <= u - 2)
    <3> DEFINE y == r[2 * k + o]
    <3>1. y \in Nat /\ (IsLeaf(y) \/ (k < y /\ y <= u - 2))
      BY <2>4
    <3> HIDE DEF y
    <3>2. y \in Nat /\ (IsLeaf(y) \/ y <= u - 2)
      BY <3>1
    <3> QED
      BY <3>2 DEF y
  <2>5. /\ l \in Nat /\ (IsLeaf(l) \/ l <= u - 2) /\ 2 * k + 0 = 2 * k
        /\ w \in Nat /\ (IsLeaf(w) \/ w <= u - 2)
    <3>1. 2 * k + 0 = 2 * k /\ 0 \in {0, 1}
      OBVIOUS
    <3>2. l \in Nat /\ (IsLeaf(l) \/ l <= u - 2)
      BY <2>4, <3>1
    <3> QED
      BY <2>4, <3>1, <3>2
  <2>6. Marked(table[p]) <=> IsLeaf(l)
    BY <1>6, <2>2, <2>5
  <2>7. c \in DOMAIN table /\ table[c] = Side(r, u, bits, w)
        /\ CellOf(Place(k), bit) = c
    <3>1. CellOf(Place(k), bit) = c
      BY <1>1, <2>1 DEF CellOf
    <3>2. CASE bit = 0
      <4>1. c = p /\ w = l
        <5> HIDE DEF p
        <5> QED
          BY <2>1, <2>5, <3>2
      <4> QED
        BY <2>2, <3>1, <4>1
    <3>3. CASE bit = 1
      BY <2>2, <3>1, <3>3
    <3> QED
      BY <3>2, <3>3
  <2>8. IsLeaf(w) => low \in DOMAIN table /\ table[low] = w % M
    <3>1. low = p + bit + 1 + (IF bit = 0 \/ IsLeaf(l) THEN 1 ELSE 0)
      BY <2>6 DEF LowHalf
    <3>2. CASE bit = 0
      <4>1. low = p + 2 /\ w = l
        <5> HIDE DEF p
        <5> QED
          BY <2>1, <2>5, <3>1, <3>2
      <4> QED
        BY <2>3, <4>1
    <3>3. CASE bit = 1
      <4>1. low = IF IsLeaf(l) THEN p + 3 ELSE p + 2
        <5> HIDE DEF p, l
        <5> QED
          BY <2>1, <3>1, <3>3
      <4>2. w = m
        BY <3>3
      <4> QED
        BY <2>3, <4>1, <4>2
    <3> QED
      BY <3>2, <3>3
  <2> DEFINE d == table[c]
  <2>9. LeafAt(d, p, bit) = (d % z) * M + table[low]
    BY <1>1 DEF LeafAt
  <2>10. /\ d \in Nat
         /\ IsLeaf(w) => d = z + high /\ Marked(d)
         /\ ~IsLeaf(w) => d = StartOf(r, w) /\ ~Marked(d)
    BY <1>6, <2>5, <2>7
  <2>11. /\ high \in Nat /\ w % M \in Nat /\ (z + high) % z = high
         /\ \A v \in Nat : v < TwoTo(2 * bits - 1) /\ w = LeafOf(v) =>
              high * M + (w % M) = v
    <3> DEFINE lim == TwoTo(2 * bits - 1)
    <3>1. w \in Nat /\ z \in Nat /\ M \in Nat /\ M = 2 * z
          /\ ((z = 128 /\ lim = 32768) \/ (z = 32768 /\ lim = 2147483648))
      BY <1>1, <2>5, CellMarks
    <3>3. lim \in Nat
      BY <1>8
    <3> HIDE DEF lim, w, bits, z, M
    <3>2. ASSUME NEW v \in Nat, v < lim, w = LeafOf(v) PROVE Whole(w, M, z) = v
      BY <3>1, <3>2, <3>3, HalvesHold
    <3>7. w % M \in Nat /\ Upper(w, M, z) \in Nat /\ Upper(w, M, z) < z
      <4>1. w % M \in Nat /\ w \div M \in Nat
        BY <1>1, <3>1, Divided
      <4> DEFINE y == w \div M
      <4> HIDE DEF y
      <4>2. y \in Nat
        BY <4>1 DEF y
      <4>3. y % z \in Nat /\ y % z < z
        BY <1>1, <4>2, Divided
      <4>4. Upper(w, M, z) = y % z
        BY DEF y, Upper
      <4> QED
        BY <4>1, <4>3, <4>4
    <3>4. ASSUME NEW h \in Nat, h < z PROVE (z + h) % z = h
      BY <1>1, <3>4
    <3>5. high = Upper(w, M, z)
      BY DEF Upper
    <3>6. Whole(w, M, z) = high * M + (w % M)
      BY Zenon DEF Upper, Whole
    <3> HIDE DEF high
    <3> QED
      BY <3>2, <3>4, <3>5, <3>6, <3>7, Zenon DEF lim
  <2>12. IsLeaf(w) => LeafAt(d, p, bit) = high * M + (w % M)
    <3> HIDE DEF d, w, high, low, z, M
    <3> QED
      BY <2>8, <2>9, <2>10, <2>11
  <2>13. r[2 * k + bit] = w
    OBVIOUS
  <2> HIDE DEF d, p, l, m, w, c, high, low, z, M
  <2>14. high * M + (w % M) \in Nat
    <3> DEFINE a == w % M
    <3>1. a \in Nat /\ M \in Nat
      BY <1>1, <2>11
    <3>2. high \in Nat
      BY <2>11
    <3> HIDE DEF a
    <3>3. high * M + a \in Nat
      BY <3>1, <3>2
    <3> QED
      BY <3>3 DEF a
  <2>15. ASSUME s.dec_type = 0, IsLeaf(w), NEW v \in 0..(s.entries - 1), w = LeafOf(v)
         PROVE  LeafAt(d, p, bit) = v
    <3>1. v \in Nat /\ v < TwoTo(2 * bits - 1)
      <4> DEFINE x == TwoTo(2 * bits - 1)
      <4>1. x \in Nat
        BY <1>8
      <4>2. s.entries < x
        BY <1>2, <2>15
      <4> HIDE DEF x
      <4>3. v \in Nat /\ v < x
        BY <4>1, <4>2
      <4> QED
        BY <4>3 DEF x
    <3> QED
      BY <2>11, <2>12, <2>15, <3>1
  <2>16. ~IsLeaf(w) => w \in 0..(tree.top - 1)
    BY <2>5
  <2>17. d = table[c] /\ w = tree.r[2 * k + bit]
    BY DEF d, w
  <2>18. /\ table[c] \in Nat
         /\ IsLeaf(w) =>
              /\ Marked(table[c]) /\ LeafAt(table[c], Place(k), bit) \in Nat
              /\ s.dec_type = 0 =>
                   \A v \in 0..(s.entries - 1) :
                     w = LeafOf(v) => LeafAt(table[c], Place(k), bit) = v
         /\ ~IsLeaf(w) => /\ ~Marked(table[c]) /\ w \in 0..(tree.top - 1)
                          /\ table[c] = Place(w)
    BY <1>3, <2>1, <2>10, <2>12, <2>14, <2>15, <2>16, <2>17
  <2> QED
    BY <2>7, <2>17, <2>18 DEF Found
<1>9. 0..(tree.top - 1) = 0..(u - 2)
  OBVIOUS
<1> QED
  BY <1>3, <1>5, <1>7, <1>9 DEF Follows
-----------------------------------------------------------------------------
(* The reader of the packet.                                               *)

Reader(b) ==
  /\ b \in [storage : Nat, live : BOOLEAN, endbyte : Nat, endbit : Nat]
  /\ ReaderOK(b)

LEMMA ReaderStarts ==
  ASSUME RealWidths, NEW bytes \in Nat
  PROVE  Reader(oggpack_readinit(bytes))
BY DEF Reader, ReaderOK, oggpack_readinit, RealWidths

(* What fits in the packet are the bits it has left.                       *)
LEMMA FitsTells ==
  ASSUME RealWidths, NEW b, Reader(b), NEW n \in 0..32
  PROVE  /\ BitsLeft(b) \in Nat
         /\ Fits(b, n) <=> b.live /\ n <= BitsLeft(b)
         /\ Readable(b, n) <=> Fits(b, n)
<1> DEFINE e == b.endbyte
           k == b.endbit
           z == b.storage
           c == (n + k + 7) \div 8
<1>1. /\ e \in Nat /\ k \in Nat /\ z \in Nat /\ e <= z /\ b.live \in BOOLEAN
      /\ b.live => k < 8 /\ (k > 0 => e < z)
      /\ ~b.live => e = z /\ k = 1
  BY DEF Reader, ReaderOK, RealWidths
<1>2. Fits(b, n) <=> e <= z - c
  <2>1. BytesOf(n + k) = c
    BY <1>1 DEF BytesOf, RealWidths
  <2> QED
    BY <2>1 DEF Fits
<1>3. NearEnd(b) <=> e >= z - 7
  BY DEF NearEnd, RealWidths
<1>4. /\ b.live => BitsLeft(b) = (z - e) * 8 - k
      /\ ~b.live => BitsLeft(b) = 0
  BY DEF BitsLeft, RealWidths
<1>5. Readable(b, n) <=> (NearEnd(b) => Fits(b, n))
  BY WordTop DEF Readable
<1>6. c \in Nat /\ 8 * c <= n + k + 7 /\ n + k <= 8 * c
  BY <1>1
<1> HIDE DEF c, e, k, z
<1>7. CASE ~b.live
  <2>1. c > 0 /\ ~(e <= z - c) /\ e >= z - 7
    BY <1>1, <1>6, <1>7
  <2> QED
    BY <1>2, <1>3, <1>4, <1>5, <1>7, <2>1
<1>8. CASE b.live
  <2> DEFINE left == BitsLeft(b)
  <2>1. left = (z - e) * 8 - k /\ left \in Nat
    BY <1>1, <1>4, <1>8
  <2> HIDE DEF left
  <2>2. e <= z - c <=> n <= left
    BY <1>1, <1>6, <1>8, <2>1
  <2>3. ~(e >= z - 7) => e <= z - c
    BY <1>1, <1>6, <1>8
  <2> QED
    BY <1>2, <1>3, <1>5, <1>8, <2>1, <2>2, <2>3 DEF left
<1> QED
  BY <1>1, <1>7, <1>8

(* A skip of bits that are there takes them; another leaves it dead.       *)
LEMMA SkipTells ==
  ASSUME RealWidths, NEW b, Reader(b), NEW n \in 0..32
  PROVE  /\ Reader(oggpack_adv(b, n)) /\ Reader(oggpack_seteop(b))
         /\ ~oggpack_seteop(b).live
         /\ ~Fits(b, n) => ~oggpack_adv(b, n).live
         /\ Fits(b, n) => /\ oggpack_adv(b, n).live
                          /\ BitsLeft(oggpack_adv(b, n)) = BitsLeft(b) - n
<1> DEFINE e == b.endbyte
           k == b.endbit
           z == b.storage
           d == (n + k) \div 8
           m == (n + k) % 8
           next == Advanced(b, n)
           end == Overflow(b)
<1>1. /\ e \in Nat /\ k \in Nat /\ z \in Nat /\ e <= z /\ b.live \in BOOLEAN
      /\ b.live => k < 8 /\ (k > 0 => e < z)
      /\ ~b.live => e = z /\ k = 1
  BY DEF Reader, ReaderOK, RealWidths
<1>2. Reader(end) /\ ~end.live
  <2>1. /\ b \in [storage : Nat, live : BOOLEAN, endbyte : Nat, endbit : Nat]
        /\ FALSE \in BOOLEAN /\ 1 \in Nat /\ z \in Nat
    BY DEF Reader
  <2>2. /\ end \in [storage : Nat, live : BOOLEAN, endbyte : Nat, endbit : Nat]
        /\ end.storage = z /\ end.live = FALSE /\ end.endbyte = z /\ end.endbit = 1
    BY <2>1 DEF Overflow
  <2> HIDE DEF end, z
  <2>3. z \in 0..z
    BY <2>1
  <2> QED
    BY <2>1, <2>2, <2>3 DEF Reader, ReaderOK
<1>3. ASSUME Fits(b, n)
      PROVE  Reader(next) /\ next.live /\ BitsLeft(next) = BitsLeft(b) - n
  <2>1. b.live /\ n <= BitsLeft(b) /\ BitsLeft(b) \in Nat
    BY <1>3, FitsTells
  <2>2. d \in Nat /\ m \in Nat /\ m < 8 /\ n + k = 8 * d + m
    BY <1>1
  <2>3. /\ next.storage = z /\ next.live = b.live /\ next.endbyte = e + d
        /\ next.endbit = m
    BY DEF Advanced, Reader, RealWidths
  <2>4. BitsLeft(b) = (z - e) * 8 - k
    BY <2>1 DEF BitsLeft, RealWidths
  <2>5. BitsLeft(next) = (z - (e + d)) * 8 - m
    BY <2>1, <2>3 DEF BitsLeft, RealWidths
  <2>6. next \in [storage : Nat, live : BOOLEAN, endbyte : Nat, endbit : Nat]
    <3>1. b \in [storage : Nat, live : BOOLEAN, endbyte : Nat, endbit : Nat]
      BY DEF Reader
    <3>2. next = [b EXCEPT !.endbyte = e + d, !.endbit = m]
      BY <3>1 DEF Advanced, RealWidths
    <3>3. e + d \in Nat /\ m \in Nat
      <4> HIDE DEF d, m, e
      <4> QED
        BY <1>1, <2>2
    <3> HIDE DEF e, d, m, next
    <3> QED
      BY <3>1, <3>2, <3>3
  <2> DEFINE left == BitsLeft(b)
             rest == BitsLeft(next)
  <2> HIDE DEF left, rest, next, d, m, e, z, k
  <2>7. left = (z - e) * 8 - k /\ rest = (z - (e + d)) * 8 - m /\ n <= left
        /\ left \in Nat
    BY <2>1, <2>4, <2>5 DEF left, rest
  <2>8. rest = left - n /\ e + d <= z /\ (m > 0 => e + d < z)
    BY <1>1, <2>2, <2>7
  <2>9. Reader(next)
    <3>1. /\ next.storage = z /\ next.live = TRUE /\ next.endbyte = e + d
          /\ next.endbit = m
      BY <2>1, <2>3
    <3>2. /\ z \in Nat /\ e + d \in 0..z /\ m \in 0..(ByteBits - 1)
          /\ (m > 0 => e + d < z)
      BY <1>1, <2>2, <2>8 DEF RealWidths
    <3> QED
      BY <2>6, <3>1, <3>2 DEF Reader, ReaderOK
  <2> QED
    BY <2>1, <2>3, <2>8, <2>9 DEF left, rest
<1> HIDE DEF next, end
<1>4. oggpack_adv(b, n) = (IF Fits(b, n) THEN next ELSE end)
      /\ oggpack_seteop(b) = end
  BY DEF oggpack_adv, oggpack_seteop, next, end
<1> QED
  BY <1>2, <1>3, <1>4

-----------------------------------------------------------------------------
(* The bits of the path as a number.                                       *)

BitsOf(path, n) == \A k \in 1..n : path[k] \in {0, 1}
Numbers(p, path, n) ==
  /\ p \in [0..n -> Nat] /\ p[0] = 0 /\ ValueOf(path, n) = p[n]
  /\ \A k \in 1..n : p[k] = 2 * p[k - 1] + path[k]

LEMMA ValueEquation ==
  ASSUME NEW n \in Nat, NEW path, BitsOf(path, n)
  PROVE  \E p : Numbers(p, path, n)
<1>0. \A k \in 1..n : path[k] \in {0, 1}
  BY DEF BitsOf
<1> DEFINE st == [x \in (1..n) \X Nat |-> 2 * x[2] + path[x[1]]]
<1>1. st \in [(1..n) \X Nat -> Nat]
  BY <1>0
<1>2. PICK g : /\ g \in [0..n -> Nat] /\ g[0] = 0
               /\ \A i \in 1..n : g[i] = st[<<i, g[i - 1]>>]
  <2> HIDE DEF st
  <2>1. 0 \in Nat
    OBVIOUS
  <2> QED
    BY <1>1, <2>1, StepsExist
<1>3. \A i \in 1..n : i - 1 \in 0..n /\ g[i - 1] \in Nat
  BY <1>2
<1>4. \A i \in 1..n : g[i] = 2 * g[i - 1] + path[i]
  BY <1>2, <1>3
<1> DEFINE Eq(p) == p = [k \in 0..n |-> IF k = 0 THEN 0
                                        ELSE 2 * p[k - 1] + path[k]]
           q == CHOOSE p : Eq(p)
<1>5. Eq(g)
  <2>1. g = [k \in 0..n |-> g[k]]
    BY <1>2
  <2>2. \A k \in 0..n : g[k] = IF k = 0 THEN 0 ELSE 2 * g[k - 1] + path[k]
    BY <1>2, <1>4
  <2> QED
    BY <2>1, <2>2
<1>6. Eq(q)
  BY <1>5
<1>7. ValueOf(path, n) = q[n]
  BY DEF ValueOf
<1> HIDE DEF q, Eq
<1>8. q = g
  <2>1. /\ DOMAIN q = 0..n /\ q[0] = 0
        /\ \A k \in 1..n : q[k] = 2 * q[k - 1] + path[k]
        /\ q = [k \in 0..n |-> q[k]]
    <3>1. q = [k \in 0..n |-> IF k = 0 THEN 0 ELSE 2 * q[k - 1] + path[k]]
      BY <1>6 DEF Eq
    <3>2. DOMAIN q = 0..n
      BY <3>1
    <3>3. \A k \in 0..n : q[k] = IF k = 0 THEN 0 ELSE 2 * q[k - 1] + path[k]
      BY <3>1
    <3>4. q[0] = 0
      <4>1. 0 \in 0..n
        OBVIOUS
      <4> QED
        BY <3>3, <4>1
    <3>5. \A k \in 1..n : q[k] = 2 * q[k - 1] + path[k]
      <4>1. \A k \in 1..n : k \in 0..n /\ k # 0
        OBVIOUS
      <4> QED
        BY <3>3, <4>1
    <3>6. q = [k \in 0..n |-> q[k]]
      BY <3>1, <3>2
    <3> QED
      BY <3>2, <3>4, <3>5, <3>6
  <2> DEFINE T == {i \in Nat : i <= n => q[i] = g[i]}
  <2>2. 0 \in T
    BY <1>2, <2>1
  <2>3. ASSUME NEW i \in Nat, i \in T PROVE i + 1 \in T
    <3> SUFFICES ASSUME i + 1 <= n PROVE q[i + 1] = g[i + 1]
      OBVIOUS
    <3>1. i + 1 \in 1..n /\ (i + 1) - 1 = i /\ i <= n
      OBVIOUS
    <3>2. q[i] = g[i]
      BY <2>3, <3>1
    <3> QED
      BY <1>0, <1>3, <1>4, <2>1, <3>1, <3>2
  <2> HIDE DEF T
  <2>4. Nat \subseteq T
    BY <2>2, <2>3, InductiveSet
  <2>5. \A i \in 0..n : q[i] = g[i]
    BY <2>4 DEF T
  <2>6. g = [k \in 0..n |-> g[k]]
    BY <1>2
  <2> QED
    BY <2>1, <2>5, <2>6
<1> QED
  BY <1>2, <1>4, <1>7, <1>8 DEF Numbers

(* A path begins with a word when the number of its bits is the word.      *)
LEMMA ValueTells ==
  ASSUME NEW n \in 0..32, NEW path, BitsOf(path, n),
         NEW v \in Nat, v < TwoTo(n)
  PROVE  ValueOf(path, n) = v <=> \A k \in 0..(n - 1) : path[k + 1] = Bit(v, n, k)
<1>1. /\ n \in Nat /\ \A k \in 1..n : path[k] \in {0, 1}
  BY DEF BitsOf
<1>12. PICK p : Numbers(p, path, n)
  BY <1>1, ValueEquation
<1>13. /\ p \in [0..n -> Nat] /\ p[0] = 0 /\ ValueOf(path, n) = p[n]
       /\ \A k \in 1..n : p[k] = 2 * p[k - 1] + path[k]
  BY <1>12 DEF Numbers
<1> DEFINE Told(i) == i <= n => /\ p[i] < TwoTo(i)
                                /\ \A k \in 0..(i - 1) : Bit(p[i], i, k) = path[k + 1]
           T == {i \in Nat : Told(i)}
<1>2. 0 \in T
  <2>1. TwoTo(0) = 1
    BY Doubling
  <2> QED
    BY <1>1, <1>13, <2>1
<1>3. ASSUME NEW i \in Nat, i \in T PROVE i + 1 \in T
  <2> SUFFICES ASSUME i + 1 <= n PROVE Told(i + 1)
    OBVIOUS
  <2>1. i \in 0..31 /\ i <= n /\ i + 1 \in 1..32 /\ i + 1 \in 1..n
        /\ (i + 1) - 1 = i /\ i \in 0..n /\ i + 1 \in 0..n /\ i \in 0..32 /\ i < 32
    OBVIOUS
  <2>2. p[i] < TwoTo(i) /\ \A k \in 0..(i - 1) : Bit(p[i], i, k) = path[k + 1]
    BY <1>3, <2>1
  <2>3. p[i] \in Nat /\ p[i + 1] \in Nat /\ path[i + 1] \in {0, 1}
        /\ p[i + 1] = 2 * p[i] + path[i + 1]
    BY <1>1, <1>13, <2>1
  <2>4. TwoTo(i) \in Nat /\ TwoTo(i + 1) = 2 * TwoTo(i)
    BY <2>1, Doubling
  <2> DEFINE x == p[i]
             y == p[i + 1]
             b == path[i + 1]
             t == TwoTo(i)
             t2 == TwoTo(i + 1)
  <2>5. /\ x \in Nat /\ y \in Nat /\ b \in {0, 1} /\ y = 2 * x + b /\ x < t
        /\ t \in Nat /\ t2 = 2 * t
    BY <2>2, <2>3, <2>4
  <2> HIDE DEF x, y, b, t, t2
  <2>6. y < t2 /\ y % 2 = b /\ (y = 2 * x \/ y = 2 * x + 1)
    BY <2>5
  <2>7. ASSUME NEW k \in 0..i PROVE Bit(y, i + 1, k) = path[k + 1]
    <3>1. CASE k = i
      <4>1. Bit(y, i + 1, (i + 1) - 1) = y % 2
        BY <2>1, <2>5, LastBit
      <4> QED
        BY <2>1, <2>6, <3>1, <4>1 DEF b
    <3>2. CASE k # i
      <4>1. k \in 0..(i - 1)
        BY <3>2
      <4>2. Bit(y, i + 1, k) = Bit(x, i, k)
        <5>1. /\ Bit(2 * x, i + 1, k) = Bit(x, i, k)
              /\ Bit(2 * x + 1, i + 1, k) = Bit(x, i, k)
          BY <2>1, <2>5, <4>1, BitsHang
        <5> QED
          BY <2>6, <5>1
      <4>3. Bit(x, i, k) = path[k + 1]
        BY <2>2, <4>1 DEF x
      <4> QED
        BY <4>2, <4>3
    <3> QED
      BY <3>1, <3>2
  <2> QED
    BY <2>1, <2>6, <2>7 DEF y, t2
<1> HIDE DEF T
<1>4. Nat \subseteq T
  BY <1>2, <1>3, InductiveSet
<1>5. n \in Nat /\ n \in 0..n
  OBVIOUS
<1>6. Told(n)
  BY <1>4, <1>5 DEF T
<1> DEFINE x == p[n]
<1>7. x \in Nat /\ x < TwoTo(n) /\ \A k \in 0..(n - 1) : Bit(x, n, k) = path[k + 1]
  BY <1>1, <1>13, <1>5, <1>6
<1> HIDE DEF x
<1>8. (\A k \in 0..(n - 1) : path[k + 1] = Bit(v, n, k)) => x = v
  <2> SUFFICES ASSUME \A k \in 0..(n - 1) : path[k + 1] = Bit(v, n, k) PROVE x = v
    OBVIOUS
  <2>1. \A k \in 0..(n - 1) : Bit(x, n, k) = Bit(v, n, k)
    BY <1>7
  <2> QED
    BY <1>7, <2>1, SameBits
<1> QED
  BY <1>1, <1>13, <1>7, <1>8 DEF x
-----------------------------------------------------------------------------
(* A leaf that holds the number of its entry has room for it.              *)

LEMMA LeafNumbers ==
  ASSUME RealWidths, NEW u, NEW e \in Nat, e < TwoTo(24)
  PROVE  LET width == (ilog(e) \div ByteBits) + 1
             nodeb == determine_node_bytes(u, width)
             leafw == determine_leaf_words(nodeb, width)
         IN  nodeb \in {1, 2} =>
               /\ leafw = 1 => e < TwoTo(nodeb * ByteBits - 1)
               /\ leafw = 2 => e < TwoTo(2 * (nodeb * ByteBits) - 1)
<1> DEFINE width == (ilog(e) \div ByteBits) + 1
           nodeb == determine_node_bytes(u, width)
           leafw == determine_leaf_words(nodeb, width)
           lw == IF width = 3 THEN 4 ELSE width
<1>1. width \in 1..4 /\ e < TwoTo(width * ByteBits - 1) /\ ByteBits = 8
  BY BytesHold DEF RealWidths
<1>2. leafw = IF width > nodeb THEN 2 ELSE 1
  BY DEF determine_leaf_words
<1>3. nodeb \in {4, lw, Max({lw \div 2, 1})}
  BY DEF determine_node_bytes
<1> HIDE DEF width, nodeb, leafw
<1>4. lw \in {1, 2, 4} /\ width <= lw /\ (lw = 4 \/ lw = width)
  BY <1>1
<1>5. lw \div 2 \in Nat /\ 1 \in Nat /\ 2 * (lw \div 2) <= lw
      /\ lw <= 2 * (lw \div 2) + 1 /\ (lw = 4 => lw \div 2 = 2)
  <2> HIDE DEF lw
  <2> QED
    BY <1>4
<1> DEFINE h == lw \div 2
           m == Max({h, 1})
<1>6. m \in {h, 1} /\ m >= h /\ m >= 1
  <2> HIDE DEF h, lw
  <2>1. h \in Nat /\ 1 \in Nat
    BY <1>5 DEF h
  <2> QED
    BY <2>1, MaxOfTwo
<1>7. h \in Nat /\ 2 * h <= lw /\ lw <= 2 * h + 1 /\ (lw = 4 => h = 2)
      /\ nodeb \in {4, lw, m}
  BY <1>3, <1>5
<1> HIDE DEF lw, h, m
<1>8. nodeb \in {1, 2} => width <= 2 * nodeb
  BY <1>1, <1>4, <1>6, <1>7
<1>9. ASSUME NEW k \in 1..4, width <= k PROVE e < TwoTo(k * 8 - 1)
  <2> DEFINE i == width * 8 - 1
             n == k * 8 - 1
  <2>1. i \in 0..n /\ n \in 0..32 /\ i \in 0..32
    BY <1>1, <1>9
  <2>2. e < TwoTo(i)
    BY <1>1
  <2> HIDE DEF i, n
  <2>3. TwoTo(i) <= TwoTo(n) /\ TwoTo(i) \in Nat /\ TwoTo(n) \in Nat
    BY <2>1, PowersGrow, Doubling
  <2>4. e < TwoTo(n)
    BY <2>2, <2>3
  <2> QED
    BY <2>4 DEF n
<1>10. ASSUME nodeb \in {1, 2}
       PROVE  /\ leafw = 1 => e < TwoTo(nodeb * ByteBits - 1)
              /\ leafw = 2 => e < TwoTo(2 * (nodeb * ByteBits) - 1)
  <2>1. leafw = 1 => width <= nodeb
    BY <1>1, <1>2, <1>10
  <2>2. leafw = 1 => e < TwoTo(nodeb * 8 - 1)
    BY <1>9, <1>10, <2>1
  <2>3. 2 * nodeb \in 1..4 /\ (2 * nodeb) * 8 = 2 * (nodeb * 8)
    BY <1>10
  <2>4. e < TwoTo((2 * nodeb) * 8 - 1)
    BY <1>8, <1>9, <1>10, <2>3
  <2> QED
    BY <1>1, <2>2, <2>3, <2>4
<1> QED
  BY <1>10 DEF width, nodeb, leafw

Built == {"pack", "scalars", "end", "ok"}
Numbered == pc \in {"table", "words"} \cup Built => NumbersFit

LEMMA NumberedMaps ==
  ASSUME RealWidths, DOMAIN s = DOMAIN NoBook, Lists, Sizing, ReadMapping,
         ~Refuse(heap, TRUE)
  PROVE  Numbered'
<1>1. /\ pc = "mapping" /\ sent.maptype \in 0..2
      /\ pc' = IF sent.maptype = 1 THEN "quantvals" ELSE "table"
  BY DEF ReadMapping
<1>2. s.entries \in Nat /\ s.entries < TwoTo(24)
  BY <1>1, FewEntries DEF Listed
<1>3. PICK bits :
        LET book == [s EXCEPT !.q_bits = bits]
        IN  s' = CASE sent.maptype = 0 ->
                        Sized(book, 0, (ilog(s.entries) \div ByteBits) + 1)
                   [] sent.maptype = 1 -> book
                   [] sent.maptype = 2 /\ PackedWidth(book) <= 4 ->
                        Sized(book, 1, PackedWidth(book))
                   [] OTHER ->
                        Sized(book, 3,
                          (ilog((s.used_entries - 1) % 2 ^ WordBits)
                             \div ByteBits) + 1)
  BY Zenon DEF ReadMapping
<1> DEFINE book == [s EXCEPT !.q_bits = bits]
<1>4. /\ DOMAIN book = DOMAIN NoBook /\ book.entries = s.entries
      /\ book.used_entries = s.used_entries
  BY BookFields
<1>5. \/ sent.maptype = 1
      \/ \E width, type : type \in {1, 3} /\ s' = Sized(book, type, width)
      \/ s' = Sized(book, 0, (ilog(s.entries) \div ByteBits) + 1)
  <2> HIDE DEF book
  <2>1. s' = CASE sent.maptype = 0 ->
                    Sized(book, 0, (ilog(s.entries) \div ByteBits) + 1)
               [] sent.maptype = 1 -> book
               [] sent.maptype = 2 /\ PackedWidth(book) <= 4 ->
                    Sized(book, 1, PackedWidth(book))
               [] OTHER ->
                    Sized(book, 3,
                      (ilog((s.used_entries - 1) % 2 ^ WordBits)
                         \div ByteBits) + 1)
    BY <1>3 DEF book
  <2> QED
    BY <2>1
<1> HIDE DEF book
<1>6. CASE sent.maptype = 1
  BY <1>1, <1>6 DEF Numbered, Built
<1>7. ASSUME NEW width, NEW type \in {1, 3}, s' = Sized(book, type, width)
      PROVE  Numbered'
  <2>1. s'.dec_type = type
    BY <1>4, <1>7, SizedFields
  <2> QED
    BY <2>1 DEF Numbered, NumbersFit
<1>8. CASE s' = Sized(book, 0, (ilog(s.entries) \div ByteBits) + 1)
  <2> DEFINE width == (ilog(s.entries) \div ByteBits) + 1
             u == s.used_entries
             e == s.entries
  <2>1. s' = Sized(book, 0, width)
    BY <1>8
  <2> HIDE DEF width
  <2>2. /\ s'.entries = s.entries
        /\ s'.dec_nodeb = determine_node_bytes(s.used_entries, width)
        /\ s'.dec_leafw = determine_leaf_words(s'.dec_nodeb, width)
    BY <1>4, <2>1, SizedFields
  <2>3. s'.dec_nodeb \in {1, 2} =>
          /\ s'.dec_leafw = 1 => s.entries < TwoTo(s'.dec_nodeb * ByteBits - 1)
          /\ s'.dec_leafw = 2 =>
               s.entries < TwoTo(2 * (s'.dec_nodeb * ByteBits) - 1)
    <3>1. LET w == (ilog(e) \div ByteBits) + 1
              nodeb == determine_node_bytes(u, w)
              leafw == determine_leaf_words(nodeb, w)
          IN  nodeb \in {1, 2} =>
               /\ leafw = 1 => e < TwoTo(nodeb * ByteBits - 1)
               /\ leafw = 2 => e < TwoTo(2 * (nodeb * ByteBits) - 1)
      <4> HIDE DEF u, e
      <4>1. e \in Nat /\ e < TwoTo(24)
        BY <1>2 DEF e
      <4> QED
        BY <4>1, LeafNumbers
    <3> QED
      BY <2>2, <3>1 DEF width
  <2> QED
    BY <2>2, <2>3 DEF Numbered, NumbersFit
<1> QED
  BY <1>5, <1>6, <1>7, <1>8

(* Once the size of the nodes is decided it stays.                         *)
SizeKept ==
  /\ s'.dec_type = s.dec_type /\ s'.dec_nodeb = s.dec_nodeb
  /\ s'.dec_leafw = s.dec_leafw /\ s'.entries = s.entries
  /\ s'.used_entries = s.used_entries /\ s'.dec_maxlength = s.dec_maxlength
  /\ UNCHANGED lengthlist

LEMMA KeepsSize ==
  ASSUME DOMAIN s = DOMAIN NoBook, [DecodeNext]_allVars,
         pc' \in {"table", "words"} \cup Built
  PROVE  \/ ReadMapping /\ ~Refuse(heap, TRUE)
         \/ ReadLattice /\ ~Refuse(heap, TRUE)
         \/ pc \in {"table", "words"} \cup Built /\ SizeKept
<1>0. DOMAIN s = DOMAIN NoBook
  OBVIOUS
<1>1. ASSUME NEW h, NEW listed, Refuse(h, listed) PROVE FALSE
  BY <1>1 DEF Refuse, Built
<1>2. ASSUME RefuseWords PROVE FALSE
  BY <1>1, <1>2 DEF RefuseWords
<1>3. ASSUME s' = s \/ (\E b : s' = [s EXCEPT !.dec_table = b])
               \/ (\E b, c : s' = [s EXCEPT !.dec_table = b, !.q_val = c])
               \/ (\E b, c : s' = [s EXCEPT !.q_val = b, !.q_pack = c]),
             UNCHANGED lengthlist
      PROVE  SizeKept
  <2>1. CASE s' = s
    BY <1>3, <2>1 DEF SizeKept
  <2>2. CASE \E b : s' = [s EXCEPT !.dec_table = b]
    <3>1. PICK b : s' = [s EXCEPT !.dec_table = b]
      BY <2>2
    <3> QED
      BY <1>0, <1>3, <3>1, BookFields, Zenon DEF SizeKept
  <2>3. CASE \E b, c : s' = [s EXCEPT !.dec_table = b, !.q_val = c]
    <3>1. PICK b, c : s' = [s EXCEPT !.dec_table = b, !.q_val = c]
      BY <2>3, Zenon
    <3> QED
      BY <1>0, <1>3, <3>1, BookFields, Zenon DEF SizeKept
  <2>4. CASE \E b, c : s' = [s EXCEPT !.q_val = b, !.q_pack = c]
    <3>1. PICK b, c : s' = [s EXCEPT !.q_val = b, !.q_pack = c]
      BY <2>4, Zenon
    <3> QED
      BY <1>0, <1>3, <3>1, BookFields, Zenon DEF SizeKept
  <2> QED
    BY <1>3, <2>1, <2>2, <2>3, <2>4, Zenon
<1>4. CASE \/ ReadParameters \/ ReadOrdering \/ ReadLength \/ ReadRun
           \/ PolishQuantvals \/ AllocLattice \/ Clear
  <2>1. pc' \notin {"table", "words"} \cup Built
    BY <1>4, Zenon
       DEF ReadParameters, ReadOrdering, ReadLength, ReadRun, NextListed,
                PolishQuantvals, AllocLattice, Refuse, Clear,
                vorbis_book_clear, Built
  <2> QED
    BY <2>1
<1>5. CASE ReadMapping \/ ReadLattice
  BY <1>1, <1>5
<1>6. CASE AllocWords
  <2>1. /\ pc = "table" /\ s' = [s EXCEPT !.dec_table = InPlace]
        /\ UNCHANGED lengthlist
    BY <1>1, <1>6 DEF AllocWords
  <2> QED
    BY <1>3, <2>1, Zenon
<1>7. CASE SkipEntry \/ ChaseTree \/ PlantLeaf \/ EndWords
  <2>1. pc = "words" /\ UNCHANGED <<s, lengthlist>>
    BY <1>2, <1>7 DEF SkipEntry, ChaseTree, PlantLeaf, EndWords
  <2> QED
    BY <1>3, <2>1
<1>8. CASE PackTable
  <2>1. /\ pc = "pack" /\ UNCHANGED lengthlist
        /\ \E c : s' = [s EXCEPT !.dec_table = TRUE, !.q_val = c]
    BY <1>2, <1>8, Zenon DEF PackTable
  <2>2. pc \in Built
    BY <2>1 DEF Built
  <2> QED
    BY <1>3, <2>1, <2>2, Zenon
<1>9. CASE ReadScalars
  <2>1. /\ pc = "scalars" /\ UNCHANGED lengthlist
        /\ \E c : s' = [s EXCEPT !.q_val = TRUE, !.q_pack = c]
    BY <1>1, <1>9, Zenon DEF ReadScalars
  <2>2. pc \in Built
    BY <2>1 DEF Built
  <2> QED
    BY <1>3, <2>1, <2>2, Zenon
<1>10. CASE Finish
  <2>1. pc = "end" /\ UNCHANGED <<s, lengthlist>>
    BY <1>1, <1>10 DEF Finish
  <2>2. pc \in Built
    BY <2>1 DEF Built
  <2> QED
    BY <1>3, <2>1, <2>2
<1>11. CASE \/ StartCall \/ NextVector \/ LookAhead \/ WalkBit \/ WalkEnds
            \/ UseEntry \/ UNCHANGED allVars
  <2>1. UNCHANGED <<pc, s, lengthlist>>
    BY <1>11, Zenon DEF StartCall, NextVector, LookAhead, WalkBit, WalkEnds,
                 UseEntry, Return, vars, allVars
  <2> QED
    BY <1>3, <2>1
<1> QED
  BY <1>4, <1>5, <1>6, <1>7, <1>8, <1>9, <1>10, <1>11 DEF DecodeNext, Unpack,
     vorbis_book_unpack

LEMMA NumberedStep ==
  ASSUME RealWidths, BInv, Lists, Sizing, Numbered, [DecodeNext]_allVars
  PROVE  Numbered'
<1>0. DOMAIN s = DOMAIN NoBook
  BY DEF BInv, Pointers
<1> SUFFICES ASSUME pc' \in {"table", "words"} \cup Built PROVE Numbered'
  BY DEF Numbered
<1>1. CASE ReadMapping /\ ~Refuse(heap, TRUE)
  BY <1>0, <1>1, NumberedMaps
<1>2. CASE ReadLattice /\ ~Refuse(heap, TRUE)
  <2>1. \/ s' = Sized(s, 1, PackedWidth(s))
        \/ s' = Sized([s EXCEPT !.q_pack = LatticePack], 2,
                      LeafBytes(LatticePack * s.dim))
    BY <1>2 DEF ReadLattice
  <2>2. DOMAIN [s EXCEPT !.q_pack = LatticePack] = DOMAIN NoBook
    BY <1>0
  <2>3. s'.dec_type \in {1, 2}
    BY <1>0, <2>1, <2>2, SizedFields
  <2> QED
    BY <2>3 DEF Numbered, NumbersFit
<1>3. CASE pc \in {"table", "words"} \cup Built /\ SizeKept
  BY <1>3 DEF Numbered, NumbersFit, SizeKept
<1> QED
  BY <1>0, <1>1, <1>2, <1>3, KeepsSize
-----------------------------------------------------------------------------
(* The book as it stands when its words are made: the words are those its  *)
(* lengths say, each leads to its leaf, and what is free has its place.    *)

Standing ==
  /\ s.entries \in Nat /\ s.entries < TwoTo(24) /\ s.used_entries \in Nat
  /\ s.used_entries <= s.entries /\ NodeSized(s)
  /\ lengthlist \in Seq(Lengths) /\ Len(lengthlist) = s.entries
  /\ s.entries = 1 =>
       /\ 0 \in DOMAIN tree.r /\ tree.r[0] = LeafOf(0)
       /\ \A a \in DOMAIN tree.r : a # 0 => tree.r[a] = Unset
  /\ s.entries > 1 =>
       /\ tree.chase = 0 /\ tree.top \in Nat /\ tree.count = s.used_entries
       /\ Cells(tree, Room) /\ Grown(tree)
       /\ s.used_entries >= 2 => tree.top = s.used_entries - 1
       /\ tree.i = s.entries /\ tree.marker \in [0..MaxLength -> Nat]
       /\ tree.top = Base(tree) /\ \E ways : Placed(tree, ways, 0)
       /\ Spells(Codewords(lengthlist), lengthlist, tree, s.dec_type)
       /\ s.used_entries = 1 => s.dec_maxlength <= 1

Settled ==
  /\ pc \in Built => Standing
  /\ pc \in {"scalars", "end", "ok"} => table = Packed

LEMMA StandingStays ==
  ASSUME Standing, SizeKept, UNCHANGED tree
  PROVE  Standing'
<1>1. /\ s'.dec_type = s.dec_type /\ s'.dec_nodeb = s.dec_nodeb
      /\ s'.dec_leafw = s.dec_leafw /\ s'.entries = s.entries
      /\ s'.used_entries = s.used_entries /\ s'.dec_maxlength = s.dec_maxlength
      /\ lengthlist' = lengthlist /\ tree' = tree
  BY DEF SizeKept
<1>2. Room' = Room
  BY <1>1 DEF Room, InPlace
<1>3. NodeSized(s') <=> NodeSized(s)
  BY <1>1 DEF NodeSized
<1>4. NodeSized(s)' <=> NodeSized(s')
  BY DEF NodeSized
<1> QED
  BY <1>1, <1>2, <1>3, <1>4 DEF Standing

LEMMA StandsSmall ==
  ASSUME DOMAIN s = DOMAIN NoBook, Lists, Sizing, AllocWords,
         ~Refuse(heap, TRUE), pc' = "pack"
  PROVE  Standing'
<1>1. /\ pc = "table" /\ s' = [s EXCEPT !.dec_table = InPlace]
      /\ tree' = [NoTree EXCEPT !.r =
           [a \in 0..(Room - 1) |-> IF s.entries < 2 /\ a = 0 THEN LeafOf(0)
                                                              ELSE Unset]]
      /\ pc' = (IF s.entries < 2 THEN "pack" ELSE "words")
      /\ UNCHANGED lengthlist
  BY DEF AllocWords
<1>2. s.entries < 2
  BY <1>1
<1>3. /\ s.used_entries \in Nat /\ s.entries \in Nat
      /\ s.used_entries <= s.entries /\ s.entries < TwoTo(24)
  BY <1>1, FewEntries DEF Listed
<1>4. lengthlist \in Seq(Lengths) /\ Len(lengthlist) = s.entries
  BY <1>1 DEF Lists, Listed
<1>5. /\ s'.entries = s.entries /\ s'.used_entries = s.used_entries
      /\ s'.dec_nodeb = s.dec_nodeb /\ s'.dec_leafw = s.dec_leafw
      /\ s'.dec_type = s.dec_type
  BY <1>1, BookFields
<1>6. NodeSized(s)
  BY <1>1 DEF Sizing, Making
<1>7. NodeSized(s)'
  BY <1>5, <1>6 DEF NodeSized
<1>8. s.dec_nodeb = 4
  BY <1>2, <1>3, <1>6 DEF NodeSized
<1>9. Room = 2 * s.used_entries + 1
  BY <1>8 DEF Room, InPlace
<1>10. tree'.r = [a \in 0..(Room - 1) |-> IF s.entries < 2 /\ a = 0 THEN LeafOf(0)
                                                                    ELSE Unset]
  BY <1>1 DEF NoTree
<1>11. 0 \in 0..(Room - 1)
  BY <1>3, <1>9
<1>12. /\ 0 \in DOMAIN tree'.r /\ tree'.r[0] = LeafOf(0)
       /\ \A a \in DOMAIN tree'.r : a # 0 => tree'.r[a] = Unset
  BY <1>2, <1>10, <1>11
<1>13. ~(s'.entries > 1)
  BY <1>2, <1>3, <1>5
<1> QED
  BY <1>1, <1>3, <1>4, <1>5, <1>7, <1>12, <1>13 DEF Standing, LeafOf, Unset

LEMMA StandsWhole ==
  ASSUME RealWidths, BInv, Lists, Trees, Growth, Sizing, Shaped, Longest,
         Spelt, EndWords, ~RefuseWords, pc' = "pack"
  PROVE  Standing'
<1>1. /\ pc = "words" /\ tree.j = 0 /\ ~Unfit /\ tree.i = s.entries
      /\ pc' = "pack" /\ UNCHANGED <<s, tree, lengthlist>>
  BY DEF EndWords
<1>2. Planting
  BY <1>1 DEF Trees
<1>3. /\ s.used_entries \in Nat /\ s.entries \in Nat
      /\ s.used_entries <= s.entries /\ s.entries < TwoTo(24)
  BY <1>1, FewEntries DEF Listed
<1>4. lengthlist \in Seq(Lengths) /\ Len(lengthlist) = s.entries
  BY <1>1 DEF Lists, Listed
<1>5. NodeSized(s) /\ s.entries > 1
  BY <1>1, <1>2, <1>3 DEF Sizing, Making, Planting
<1>6. /\ tree.chase = 0 /\ tree.top \in Nat /\ tree.count = s.used_entries
      /\ Cells(tree, Room) /\ Grown(tree)
      /\ s.used_entries >= 2 => tree.top = s.used_entries - 1
  BY <1>1, <1>2, ShapedEnds
<1>7. tree.top = Base(tree) /\ \E ways : Placed(tree, ways, 0)
  BY <1>1 DEF Growth
<1>8. Spells(Codewords(lengthlist), lengthlist, tree, s.dec_type)
  <2>1. PICK C : Spells(C, lengthlist, tree, s.dec_type)
    BY <1>1 DEF Spelt
  <2>2. tree.i = Len(lengthlist) /\ Len(lengthlist) \in Nat
    BY <1>1, <1>3, <1>4
  <2>3. WordsTo(lengthlist, Len(lengthlist), C)
    BY <2>1, <2>2 DEF Spells
  <2>4. C = Codewords(lengthlist)
    BY <2>2, <2>3, WordsAre
  <2> QED
    BY <2>1, <2>4
<1>9. ASSUME s.used_entries = 1 PROVE s.dec_maxlength <= 1
  <2>1. unused
    BY <1>1, <1>5, <1>9 DEF Lists, Listed
  <2>2. \A e \in 1..tree.i : lengthlist[e] <= 1
    BY <1>2, <1>6, <1>9 DEF Planting, OneWord
  <2>3. \/ s.dec_maxlength = 0
        \/ \E e \in 1..Len(lengthlist) : lengthlist[e] = s.dec_maxlength
    BY <1>1, <2>1 DEF Longest, Listed
  <2> QED
    BY <1>1, <1>4, <2>2, <2>3
<1>12. tree.marker \in [0..MaxLength -> Nat]
  <2>1. tree.count = 0 => tree.marker = NoMarkers
    BY <1>2 DEF Planting
  <2>2. tree.count > 0 => Good(tree.marker)
    BY <1>2 DEF Planting
  <2> QED
    BY <1>3, <1>6, <2>1, <2>2 DEF Good, NoMarkers
<1>10. Standing
  BY <1>1, <1>12, <1>3, <1>4, <1>5, <1>6, <1>7, <1>8, <1>9 DEF Standing
<1>11. SizeKept
  BY <1>1 DEF SizeKept
<1> QED
  BY <1>1, <1>10, <1>11, StandingStays

(* What a step does to a book whose words are made.                        *)
LEMMA BuildsOn ==
  ASSUME [DecodeNext]_allVars, pc' \in Built
  PROVE  \/ AllocWords /\ ~Refuse(heap, TRUE) /\ pc' = "pack"
         \/ EndWords /\ ~RefuseWords /\ pc' = "pack"
         \/ PackTable /\ ~RefuseWords /\ pc = "pack"
         \/ pc \in {"scalars", "end", "ok"} /\ UNCHANGED <<tree, table>>
         \/ UNCHANGED <<pc, tree, table>>
<1>1. ASSUME NEW h, NEW listed, Refuse(h, listed) PROVE FALSE
  BY <1>1 DEF Refuse, Built
<1>2. ASSUME RefuseWords PROVE FALSE
  BY <1>1, <1>2 DEF RefuseWords
<1>4. CASE \/ ReadParameters \/ ReadOrdering \/ ReadLength \/ ReadRun
           \/ PolishQuantvals \/ AllocLattice \/ Clear \/ ReadMapping
           \/ ReadLattice \/ SkipEntry
  <2>1. pc' \notin Built
    BY <1>4, Zenon
       DEF ReadParameters, ReadOrdering, ReadLength, ReadRun, NextListed,
                PolishQuantvals, AllocLattice, Refuse, Clear, ReadMapping,
                ReadLattice, SkipEntry, vorbis_book_clear, Built
  <2> QED
    BY <2>1
<1>5. CASE ChaseTree \/ PlantLeaf
  <2>1. pc = "words" /\ (RefuseWords \/ UNCHANGED pc)
    BY <1>5 DEF ChaseTree, PlantLeaf
  <2> QED
    BY <1>2, <2>1 DEF Built
<1>6. CASE AllocWords
  BY <1>1, <1>6 DEF AllocWords, Built
<1>7. CASE EndWords
  BY <1>2, <1>7 DEF EndWords
<1>8. CASE PackTable
  BY <1>2, <1>8 DEF PackTable
<1>9. CASE ReadScalars \/ Finish
  BY <1>1, <1>9 DEF ReadScalars, Finish
<1>10. CASE \/ StartCall \/ NextVector \/ LookAhead \/ WalkBit \/ WalkEnds
            \/ UseEntry \/ UNCHANGED allVars
  <2>1. UNCHANGED <<pc, tree, table>>
    BY <1>10, Zenon DEF StartCall, NextVector, LookAhead, WalkBit, WalkEnds,
                 UseEntry, Return, vars, allVars
  <2> QED
    BY <2>1
<1> QED
  BY <1>4, <1>5, <1>6, <1>7, <1>8, <1>9, <1>10 DEF DecodeNext, Unpack,
     vorbis_book_unpack

LEMMA PackedStays ==
  ASSUME SizeKept, UNCHANGED tree
  PROVE  Packed' = Packed
<1>1. /\ s'.dec_nodeb = s.dec_nodeb /\ s'.dec_leafw = s.dec_leafw
      /\ s'.used_entries = s.used_entries /\ tree' = tree
  BY DEF SizeKept
<1>2. InPlace' = InPlace
  BY <1>1 DEF InPlace
<1> QED
  BY <1>1, <1>2 DEF Packed

LEMMA SettledStep ==
  ASSUME RealWidths, BInv, Lists, Trees, Growth, Sizing, Shaped, Longest,
         Spelt, Settled, [DecodeNext]_allVars
  PROVE  Settled'
<1>0. DOMAIN s = DOMAIN NoBook
  BY DEF BInv, Pointers
<1> SUFFICES ASSUME pc' \in Built PROVE Settled'
  BY DEF Settled, Built
<1>1. CASE AllocWords /\ ~Refuse(heap, TRUE) /\ pc' = "pack"
  BY <1>0, <1>1, StandsSmall DEF Settled
<1>2. CASE EndWords /\ ~RefuseWords /\ pc' = "pack"
  BY <1>2, StandsWhole DEF Settled
<1>3. CASE PackTable /\ ~RefuseWords /\ pc = "pack"
  <2>1. /\ pc = "pack" /\ table' = Packed /\ UNCHANGED <<tree, lengthlist>>
        /\ \E b : s' = [s EXCEPT !.dec_table = TRUE, !.q_val = b]
    BY <1>3, Zenon DEF PackTable
  <2>2. SizeKept
    BY <1>0, <2>1, BookFields DEF SizeKept
  <2>3. Standing'
    BY <2>1, <2>2, StandingStays DEF Settled, Built
  <2>4. Packed' = Packed
    BY <2>1, <2>2, PackedStays
  <2> QED
    BY <2>1, <2>3, <2>4 DEF Settled
<1>4. ASSUME pc \in {"scalars", "end", "ok"} \/ UNCHANGED pc,
             UNCHANGED <<tree, table>>
      PROVE  Settled'
  <2>1. pc \in Built
    BY <1>4 DEF Built
  <2>2. SizeKept
    <3>1. pc # "mapping" /\ pc # "values"
      BY <2>1 DEF Built
    <3> QED
      BY <1>0, <3>1, KeepsSize DEF ReadMapping, ReadLattice
  <2>3. Standing'
    BY <1>4, <2>1, <2>2, StandingStays DEF Settled
  <2>4. Packed' = Packed
    BY <1>4, <2>2, PackedStays
  <2>5. pc' \in {"scalars", "end", "ok"} => pc \in {"scalars", "end", "ok"}
    BY <1>4
  <2> QED
    BY <1>4, <2>3, <2>4, <2>5 DEF Settled
<1> QED
  BY <1>1, <1>2, <1>3, <1>4, BuildsOn
-----------------------------------------------------------------------------
(* The table follows the tree.                                             *)

(* The nodes can be told from leaves.                                      *)
Addressed ==
  \/ s.dec_type \in {0, 3} \/ s.dec_leafw = 2
  \/ s.used_entries - 2 < TopBit(CellBits)

LEMMA TopOfStanding ==
  ASSUME RealWidths, Standing, s.entries > 1
  PROVE  /\ tree.top \in Nat
         /\ s.used_entries > 0 => tree.top > 0
         /\ \A k \in 0..(tree.top - 1) : ~IsLeaf(k)
         /\ ~IsLeaf(0)
<1> DEFINE n == tree.top
           u == s.used_entries
<1>1. /\ n \in Nat /\ u \in Nat /\ u < TwoTo(24) /\ tree.count = u
      /\ Cells(tree, Room) /\ Grown(tree)
  <2>1. /\ u \in Nat /\ u <= s.entries /\ s.entries \in Nat
        /\ s.entries < TwoTo(24)
    BY DEF Standing
  <2>2. u < TwoTo(24)
    <3> HIDE DEF u
    <3> QED
      BY <2>1, Thirty
  <2> QED
    BY <2>2 DEF Standing
<1>2. TopBit(WordBits) = 2147483648 /\ TwoTo(24) = 16777216
  BY WordTop, Thirty
<1>3. n <= u \/ n = 0
  <2>1. Room <= 2 * u + 1
    BY <1>1 DEF Room
  <2>2. n > 0 => 2 * n <= Room /\ Room \in Int
    BY <1>1 DEF Cells
  <2> HIDE DEF n, u
  <2> QED
    BY <1>1, <2>1, <2>2
<1>4. u > 0 => n > 0
  <2> SUFFICES ASSUME n = 0 PROVE u = 0
    BY <1>1
  <2>1. LeafCells(tree.r, 2 * n) = {}
    BY DEF LeafCells
  <2>2. Cardinality(LeafCells(tree.r, 2 * n)) = tree.count
    BY <1>1 DEF Grown
  <2> HIDE DEF n
  <2> QED
    BY <1>1, <2>1, <2>2, FS_EmptySet
<1> HIDE DEF n, u
<1>5. \A k \in 0..(n - 1) : ~IsLeaf(k)
  BY <1>1, <1>2, <1>3 DEF IsLeaf
<1>6. ~IsLeaf(0)
  BY <1>2 DEF IsLeaf
<1> QED
  BY <1>1, <1>4, <1>5, <1>6 DEF n, u

LEMMA StandingWhole ==
  ASSUME Standing, s.entries > 1, NEW u, u = s.used_entries, u >= 2
  PROVE  /\ \A k \in 0..(u - 2), o \in {0, 1} :
              LET w == tree.r[2 * k + o]
              IN  w \in Nat /\ (IsLeaf(w) \/ (k < w /\ w <= u - 2))
         /\ Cardinality(LeafCells(tree.r, 2 * u - 2)) = u
         /\ tree.top = u - 1 /\ u \in Nat /\ u < TwoTo(24)
<1>1. /\ u \in Nat /\ tree.top = u - 1 /\ tree.count = u /\ tree.chase = 0
      /\ Grown(tree) /\ u < TwoTo(24)
  <2>1. /\ u \in Nat /\ u <= s.entries /\ s.entries \in Nat
        /\ s.entries < TwoTo(24)
    BY DEF Standing
  <2>2. u < TwoTo(24)
    BY <2>1, Thirty
  <2> QED
    BY <2>2 DEF Standing
<1> QED
  BY <1>1, WholeTree

LEMMA TableFollows ==
  ASSUME RealWidths, Standing, NumbersFit, table = Packed, s.entries > 1,
         s.used_entries > 0, Addressed
  PROVE  Follows
<1> DEFINE u == s.used_entries
<1>1. /\ tree.chase = 0 /\ tree.top \in Nat /\ Cells(tree, Room) /\ Grown(tree)
      /\ u \in Nat /\ NodeSized(s) /\ s.entries \in Nat
      /\ s.entries < TwoTo(24)
  BY DEF Standing
<1>2. tree.top > 0
  BY TopOfStanding
<1>3. CASE s.dec_nodeb = 4
  <2>1. InPlace
    BY <1>3 DEF InPlace
  <2>2. table = tree.r
    BY <2>1 DEF Packed
  <2> QED
    BY <1>1, <1>2, <2>1, <2>2, FollowsInPlace
<1>4. CASE /\ u >= 2 /\ s.dec_nodeb \in {1, 2} /\ s.dec_leafw = 1
           /\ s.dec_type \in {0, 3} => u - 2 < TwoTo(s.dec_nodeb * ByteBits - 1)
  <2>1. /\ ~InPlace /\ CellBits = s.dec_nodeb * ByteBits
        /\ TopBit(CellBits) = TwoTo(CellBits - 1)
    BY <1>4, CellWidth
  <2>2. table = Flat(tree.r, u, CellBits)
    BY <1>4, <2>1 DEF Packed
  <2>3. u - 2 < TopBit(CellBits)
    BY <1>4, <2>1 DEF Addressed
  <2>4. u = s.used_entries
    OBVIOUS
  <2> HIDE DEF u
  <2>5. /\ \A k \in 0..(u - 2), o \in {0, 1} :
             LET w == tree.r[2 * k + o]
             IN  w \in Nat /\ (IsLeaf(w) \/ (k < w /\ w <= u - 2))
        /\ tree.top = u - 1
    BY <1>4, <2>4, StandingWhole
  <2> QED
    BY <1>1, <1>4, <2>2, <2>3, <2>5, FollowsFlat
<1>5. CASE /\ u >= 2 /\ s.dec_nodeb \in {1, 2} /\ s.dec_leafw = 2
           /\ ilog(3 * u - 6) < s.dec_nodeb * ByteBits
  <2>1. ~InPlace /\ CellBits = s.dec_nodeb * ByteBits
    BY <1>5, CellWidth
  <2>2. table = Halved(tree.r, u, CellBits)
    BY <1>5, <2>1 DEF Packed
  <2>4. u = s.used_entries
    OBVIOUS
  <2> HIDE DEF u
  <2>5. /\ \A k \in 0..(u - 2), o \in {0, 1} :
             LET w == tree.r[2 * k + o]
             IN  w \in Nat /\ (IsLeaf(w) \/ (k < w /\ w <= u - 2))
        /\ Cardinality(LeafCells(tree.r, 2 * u - 2)) = u
        /\ tree.top = u - 1 /\ u < TwoTo(24)
    BY <1>5, <2>4, StandingWhole
  <2> QED
    BY <1>1, <1>5, <2>2, <2>5, FollowsHalved
<1> QED
  BY <1>1, <1>3, <1>4, <1>5 DEF NodeSized

-----------------------------------------------------------------------------
(* The path that is walked and the words.                                  *)

(* The nodes along the first i bits of a path.                             *)
Walked(w, path, i) ==
  /\ w[0] = 0 /\ \A k \in 0..i : w[k] \in 0..(tree.top - 1)
  /\ \A k \in 0..(i - 1) : tree.r[2 * w[k] + path[k + 1]] = w[k + 1]

(* A word begins the path.                                                 *)
Begun(n, v, path) == \A k \in 0..(n - 1) : path[k + 1] = Bit(v, n, k)

LEMMA SameWay ==
  ASSUME NEW i \in Nat, NEW w, NEW path, Walked(w, path, i),
         NEW n \in 1..MaxLength, NEW v, NEW y, Way(y, tree.r, v, n, tree.top),
         NEW m \in Nat, m <= i, m <= n - 1,
         \A k \in 0..(m - 1) : path[k + 1] = Bit(v, n, k)
  PROVE  y[m] = w[m]
<1>0. n \in Nat
  BY LengthsFit
<1> DEFINE T == {k \in Nat : k <= m => y[k] = w[k]}
<1>1. 0 \in T
  BY DEF Walked, Way
<1>2. ASSUME NEW k \in Nat, k \in T PROVE k + 1 \in T
  <2> SUFFICES ASSUME k + 1 <= m PROVE y[k + 1] = w[k + 1]
    OBVIOUS
  <2>1. k \in 0..(m - 1) /\ k \in 0..(n - 2) /\ k \in 0..(i - 1) /\ k <= m
    BY <1>0
  <2>2. y[k] = w[k]
    BY <1>2, <2>1
  <2>3. tree.r[2 * y[k] + Bit(v, n, k)] = y[k + 1]
    BY <2>1 DEF Way
  <2>4. tree.r[2 * w[k] + path[k + 1]] = w[k + 1]
    BY <2>1 DEF Walked
  <2>5. path[k + 1] = Bit(v, n, k)
    BY <2>1
  <2> QED
    BY <2>2, <2>3, <2>4, <2>5
<1> HIDE DEF T
<1>3. Nat \subseteq T
  BY <1>1, <1>2, InductiveSet
<1> QED
  BY <1>3 DEF T

(* No leaf has been on the way.                                            *)
LEMMA NoLeafYet ==
  ASSUME RealWidths, Standing, s.entries > 1,
         NEW i \in Nat, NEW w, NEW path, Walked(w, path, i),
         NEW n \in 1..MaxLength, NEW v, NEW type, NEW e, NEW y,
         LeadsTo(y, tree.r, v, n, tree.top, type, e), n <= i
  PROVE  ~Begun(n, v, path)
<1> SUFFICES ASSUME Begun(n, v, path) PROVE FALSE
  OBVIOUS
<1>0. n \in Nat /\ n > 0
  BY LengthsFit
<1> DEFINE m == n - 1
<1>1. m \in Nat /\ m <= i /\ m <= n - 1 /\ m \in 0..(n - 1) /\ m \in 0..(i - 1)
      /\ m + 1 \in 0..i
  BY <1>0
<1>2. \A k \in 0..(m - 1) : path[k + 1] = Bit(v, n, k)
  BY <1>0 DEF Begun
<1>3. Way(y, tree.r, v, n, tree.top) /\ IsLeaf(tree.r[2 * y[m] + Bit(v, n, m)])
  BY DEF LeadsTo
<1>4. path[m + 1] = Bit(v, n, m)
  BY <1>1 DEF Begun
<1> HIDE DEF m
<1>5. y[m] = w[m]
  BY <1>1, <1>2, <1>3, SameWay
<1>6. tree.r[2 * w[m] + path[m + 1]] = w[m + 1] /\ w[m + 1] \in 0..(tree.top - 1)
  BY <1>1 DEF Walked
<1> QED
  BY <1>3, <1>4, <1>5, <1>6, TopOfStanding

(* Further on than a leaf there is no node.                                *)
LEMMA NoNodeBeyond ==
  ASSUME RealWidths, Standing, s.entries > 1,
         NEW i \in Nat, NEW w, NEW path, Walked(w, path, i),
         IsLeaf(tree.r[2 * w[i] + path[i + 1]]),
         NEW n \in 1..MaxLength, NEW v, NEW y, Way(y, tree.r, v, n, tree.top),
         n > i + 1, \A k \in 0..i : path[k + 1] = Bit(v, n, k)
  PROVE  FALSE
<1>0. n \in Nat
  BY LengthsFit
<1>1. i <= i /\ i <= n - 1 /\ i \in 0..(n - 2) /\ i + 1 \in 0..(n - 1)
      /\ i \in 0..i /\ \A k \in 0..(i - 1) : k \in 0..i
  BY <1>0
<1>2. y[i] = w[i]
  BY <1>1, SameWay
<1>3. tree.r[2 * y[i] + Bit(v, n, i)] = y[i + 1] /\ path[i + 1] = Bit(v, n, i)
  BY <1>1 DEF Way
<1>4. y[i + 1] \in 0..(tree.top - 1)
  <2>1. y[i + 1] \in Nat /\ y[i + 1] < tree.top
    BY <1>1 DEF Way
  <2>2. tree.top \in Nat
    BY TopOfStanding
  <2> QED
    BY <2>1, <2>2
<1> QED
  BY <1>2, <1>3, <1>4, TopOfStanding

(* The words that begin a path are those it spells.                        *)
LEMMA SpelledIs ==
  ASSUME Coded(spelling), NEW path \in Seq({0, 1})
  PROVE  Spelled(path) =
           {x[1] : x \in {y \in spelling : y[2][1] <= Len(path)
                                           /\ Begun(y[2][1], y[2][2], path)}}
<1>1. ASSUME NEW y \in spelling, y[2][1] <= Len(path)
      PROVE  ValueOf(path, y[2][1]) = y[2][2] <=> Begun(y[2][1], y[2][2], path)
  <2> DEFINE n == y[2][1]
             v == y[2][2]
  <2>1. n \in 1..MaxLength /\ v \in Nat /\ v < TwoTo(n)
    BY DEF Coded
  <2>2. n <= Len(path) /\ Len(path) \in Nat
    BY <1>1
  <2> HIDE DEF n, v
  <2>3. n \in 0..32
    BY <2>1, LengthsFit
  <2>4. BitsOf(path, n)
    <3>1. \A k \in 1..Len(path) : path[k] \in {0, 1}
      OBVIOUS
    <3>2. \A k \in 1..n : k \in 1..Len(path)
      BY <2>2, <2>3
    <3> QED
      BY <3>1, <3>2 DEF BitsOf
  <2>5. ValueOf(path, n) = v <=> Begun(n, v, path)
    BY <2>1, <2>3, <2>4, ValueTells DEF Begun
  <2> QED
    BY <2>5 DEF n, v
<1>2. {y \in spelling : y[2][1] <= Len(path) /\ ValueOf(path, y[2][1]) = y[2][2]}
        = {y \in spelling : y[2][1] <= Len(path)
                            /\ Begun(y[2][1], y[2][2], path)}
  BY <1>1
<1> QED
  BY <1>2, Zenon DEF Spelled

LEMMA NoneSpelledYet ==
  ASSUME RealWidths, Standing, s.entries > 1, spelling = Codewords(lengthlist),
         NEW path \in Seq({0, 1}), NEW i \in Nat, Len(path) = i,
         NEW w, Walked(w, path, i)
  PROVE  Spelled(path) = {}
<1>1. Coded(spelling) /\ Rooted(spelling, tree, s.dec_type)
      /\ Base(tree) = tree.top
  BY DEF Standing, Spells
<1>2. ASSUME NEW y \in spelling, y[2][1] <= Len(path),
             Begun(y[2][1], y[2][2], path)
      PROVE  FALSE
  <2>1. y[2][1] \in 1..MaxLength
    BY <1>1 DEF Coded
  <2>2. PICK g : LeadsTo(g, tree.r, y[2][2], y[2][1], tree.top, s.dec_type, y[1])
    BY <1>1 DEF Rooted
  <2> DEFINE n == y[2][1]
             v == y[2][2]
             e == y[1]
  <2>3. /\ n \in 1..MaxLength /\ n <= i /\ Begun(n, v, path)
        /\ LeadsTo(g, tree.r, v, n, tree.top, s.dec_type, e)
    BY <1>2, <2>1, <2>2
  <2> HIDE DEF n, v, e
  <2> QED
    BY <2>3, NoLeafYet
<1>3. {y \in spelling : y[2][1] <= Len(path) /\ Begun(y[2][1], y[2][2], path)}
        = {}
  BY <1>2
<1> QED
  BY <1>1, <1>3, SpelledIs

(* The free words of a book of one word are not found by a look, and a     *)
(* book of more has none.                                                  *)
LEMMA NoHoleReached ==
  ASSUME RealWidths, Standing, s.entries > 1,
         NEW i \in Nat, NEW w, NEW path, Walked(w, path, i),
         path[i + 1] \in {0, 1}, IsLeaf(tree.r[2 * w[i] + path[i + 1]]),
         i > 0 => s.used_entries >= 2, NEW j \in Odd(tree.marker),
         tree.marker[j] \in Nat, NEW x \in Deep,
         \A k \in 0..i : k < MaxLength => x[k] = path[k + 1],
         Begins(j, tree.marker[j], x)
  PROVE  FALSE
<1> DEFINE m == tree.marker[j]
<1>1. j \in 1..MaxLength /\ m % 2 = 1 /\ j \in 1..32 /\ m \in Nat
  BY LengthsFit DEF Odd
<1>2. PICK ways : Placed(tree, ways, 0)
  BY DEF Standing
<1> DEFINE y == ways[j]
<1>3. Way(y, tree.r, m, j, tree.top) /\ tree.r[2 * y[j - 1] + 1] = 0
  <2>1. Base(tree) = tree.top
    BY DEF Standing
  <2>2. j # 0
    BY <1>1
  <2> QED
    BY <1>2, <2>1, <2>2 DEF Placed
<1>4. \A k \in 0..(j - 1) : k <= i => path[k + 1] = Bit(m, j, k)
  <2> SUFFICES ASSUME NEW k \in 0..(j - 1), k <= i PROVE path[k + 1] = Bit(m, j, k)
    OBVIOUS
  <2>1. k \in 0..i /\ k < MaxLength
    BY <1>1, LengthsFit
  <2>2. x[k] = Bit(m, j, k)
    BY DEF Begins
  <2> QED
    BY <2>1, <2>2
<1> HIDE DEF m, y
<1>5. CASE j > i + 1
  <2>1. \A k \in 0..i : path[k + 1] = Bit(m, j, k)
    <3>1. \A k \in 0..i : k \in 0..(j - 1) /\ k <= i
      BY <1>1, <1>5
    <3> QED
      BY <1>4, <3>1
  <2> QED
    BY <1>1, <1>3, <1>5, <2>1, NoNodeBeyond
<1>6. CASE j = i + 1
  <2>1. i <= i /\ i <= j - 1 /\ j - 1 = i /\ i \in 0..(j - 1)
        /\ \A k \in 0..(i - 1) : k \in 0..(j - 1) /\ k <= i
    BY <1>6
  <2>2. y[i] = w[i]
    BY <1>1, <1>3, <1>4, <2>1, SameWay
  <2>3. path[i + 1] = 1
    <3>1. Bit(m, j, j - 1) = m % 2
      BY <1>1, LastBit
    <3> QED
      BY <1>1, <1>4, <2>1, <3>1
  <2> QED
    BY <1>3, <2>1, <2>2, <2>3, TopOfStanding
<1>7. CASE j <= i
  <2>1. s.used_entries >= 2
    BY <1>1, <1>7
  <2> DEFINE u == s.used_entries
  <2>2. u = s.used_entries /\ u >= 2
    BY <2>1
  <2> HIDE DEF u
  <2>3. /\ \A k \in 0..(u - 2), o \in {0, 1} :
             LET c == tree.r[2 * k + o]
             IN  c \in Nat /\ (IsLeaf(c) \/ (k < c /\ c <= u - 2))
        /\ tree.top = u - 1 /\ u \in Nat
    BY <2>2, StandingWhole
  <2>4. y[j - 1] \in 0..(u - 2)
    <3>1. j - 1 \in 0..(j - 1)
      BY <1>1
    <3>2. y[j - 1] \in Nat /\ y[j - 1] < tree.top
      BY <1>3, <3>1 DEF Way
    <3> QED
      BY <2>3, <3>2
  <2>5. tree.r[2 * y[j - 1] + 1] # 0
    <3> DEFINE k == y[j - 1]
               c == tree.r[2 * k + 1]
    <3>1. c \in Nat /\ (IsLeaf(c) \/ (k < c /\ c <= u - 2))
      BY <2>3, <2>4
    <3>2. k \in Nat /\ ~IsLeaf(0)
      BY <2>3, <2>4, TopOfStanding
    <3> HIDE DEF k, c
    <3>3. c # 0
      BY <3>1, <3>2
    <3> QED
      BY <3>3 DEF k, c
  <2> QED
    BY <1>3, <2>5
<1> QED
  BY <1>1, <1>5, <1>6, <1>7

(* At a leaf one word has been read, and the leaf is that of its entry.    *)
LEMMA LeafSpells ==
  ASSUME RealWidths, Standing, s.entries > 1, s.used_entries > 0,
         spelling = Codewords(lengthlist),
         NEW path \in Seq({0, 1}), NEW i \in Nat, Len(path) = i + 1,
         i < MaxLength, NEW w, Walked(w, path, i),
         IsLeaf(tree.r[2 * w[i] + path[i + 1]]),
         i > 0 => s.used_entries >= 2
  PROVE  \E e \in Used(lengthlist) :
           /\ Spelled(path) = {e} /\ e - 1 \in 0..(s.entries - 1)
           /\ s.dec_type = 0 =>
                tree.r[2 * w[i] + path[i + 1]] = LeafOf(e - 1)
<1> DEFINE m == tree.marker
           C == spelling
           x == [k \in 0..(MaxLength - 1) |-> IF k <= i THEN path[k + 1] ELSE 0]
<1>0. MaxLength \in 1..32 /\ MaxLength \in Nat
  <2>1. MaxLength \in 1..32
    BY LengthsFit
  <2> QED
    BY <2>1
<1>1. /\ Coded(C) /\ Rooted(C, tree, s.dec_type) /\ Base(tree) = tree.top
      /\ \A c \in C : c[1] \in 1..tree.i /\ lengthlist[c[1]] = c[2][1]
      /\ Parted(C \cup Hung(m, Odd(m)))
      /\ WordsTo(lengthlist, tree.i, C)
  <2>1. tree.count # 0
    BY DEF Standing
  <2> QED
    BY <2>1 DEF Standing, Spells, Ends
<1>2. \A k \in 1..(i + 1) : path[k] \in {0, 1}
  OBVIOUS
<1>3. x \in Deep /\ \A k \in 0..i : x[k] = path[k + 1]
  <2>1. ASSUME NEW k \in 0..(MaxLength - 1)
        PROVE  (IF k <= i THEN path[k + 1] ELSE 0) \in {0, 1}
    <3>1. k <= i => k + 1 \in 1..(i + 1)
      OBVIOUS
    <3> QED
      BY <1>2, <3>1
  <2>2. \A k \in 0..i : k \in 0..(MaxLength - 1) /\ k <= i
    BY <1>0
  <2> QED
    BY <2>1, <2>2 DEF Deep
<1> HIDE DEF x
<1>4. PICK c \in C \cup Hung(m, Odd(m)) :
         /\ Begins(c[2][1], c[2][2], x)
         /\ \A d \in C \cup Hung(m, Odd(m)) :
              Begins(d[2][1], d[2][2], x) => d = c
  BY <1>1, <1>3 DEF Parted
<1>5. c \in C
  <2> SUFFICES ASSUME c \in Hung(m, Odd(m)) PROVE FALSE
    BY <1>4
  <2>1. PICK j \in Odd(m) : c = <<0, <<j, m[j]>>>>
    BY DEF Hung
  <2>2. c[2][1] = j /\ c[2][2] = m[j]
    BY <2>1
  <2>3. Begins(j, m[j], x)
    BY <1>4, <2>2
  <2>4. m[j] \in Nat
    <3>1. j \in 1..MaxLength /\ m[j] % 2 = 1
      BY DEF Odd
    <3>2. j \in 0..MaxLength
      BY <1>0, <3>1
    <3> QED
      BY <3>2 DEF Standing
  <2>5. path[i + 1] \in {0, 1}
    BY <1>2
  <2> QED
    BY <1>3, <2>1, <2>3, <2>4, <2>5, NoHoleReached
<1> DEFINE n == c[2][1]
           v == c[2][2]
           e == c[1]
<1>6. /\ n \in 1..MaxLength /\ v \in Nat /\ e \in 1..tree.i /\ lengthlist[e] = n
      /\ n \in 1..32 /\ n \in Nat
  <2>1. /\ n \in 1..MaxLength /\ v \in Nat /\ e \in 1..tree.i
        /\ lengthlist[e] = n
    BY <1>1, <1>5 DEF Coded
  <2> HIDE DEF n, v, e
  <2> QED
    BY <1>0, <2>1
<1>7. PICK y : LeadsTo(y, tree.r, v, n, tree.top, s.dec_type, e)
  BY <1>1, <1>5 DEF Rooted
<1>8. Begins(n, v, x)
  BY <1>4
<1> HIDE DEF n, v, e
<1>9. \A k \in 0..(n - 1) : k <= i => path[k + 1] = Bit(v, n, k)
  BY <1>3, <1>8 DEF Begins
<1>10. ~(n <= i)
  <2> SUFFICES ASSUME n <= i PROVE FALSE
    OBVIOUS
  <2>1. \A k \in 0..(n - 1) : k <= i
    BY <1>6
  <2>2. Begun(n, v, path)
    BY <1>9, <2>1 DEF Begun
  <2> QED
    BY <1>6, <1>7, <2>2, NoLeafYet
<1>11. ~(n > i + 1)
  <2> SUFFICES ASSUME n > i + 1 PROVE FALSE
    OBVIOUS
  <2>1. \A k \in 0..i : path[k + 1] = Bit(v, n, k)
    BY <1>6, <1>9
  <2>2. Way(y, tree.r, v, n, tree.top)
    BY <1>7 DEF LeadsTo
  <2> QED
    BY <1>6, <2>1, <2>2, NoNodeBeyond
<1>12. n = i + 1 /\ n - 1 = i
  BY <1>6, <1>10, <1>11
<1>13. Begun(n, v, path)
  BY <1>9, <1>12 DEF Begun
<1>14. s.dec_type = 0 => tree.r[2 * w[i] + path[i + 1]] = LeafOf(e - 1)
  <2>1. i \in 0..(n - 1) /\ i <= i /\ i <= n - 1
    BY <1>12
  <2>2. \A k \in 0..(i - 1) : path[k + 1] = Bit(v, n, k)
    BY <1>9, <1>12
  <2>3. y[i] = w[i]
    BY <1>6, <1>7, <2>1, <2>2, SameWay DEF LeadsTo
  <2>4. path[i + 1] = Bit(v, n, i)
    BY <1>9, <2>1
  <2> QED
    BY <1>7, <1>12, <2>3, <2>4 DEF LeadsTo
<1>15. ASSUME NEW d \in C, d[2][1] <= Len(path), Begun(d[2][1], d[2][2], path)
       PROVE  d = c
  <2> DEFINE a == d[2][1]
             b == d[2][2]
  <2>1. a \in 1..MaxLength
    BY <1>1 DEF Coded
  <2>2. a <= i + 1 /\ Begun(a, b, path)
    BY <1>15
  <2> HIDE DEF a, b
  <2>3. Begins(a, b, x)
    <3>1. \A k \in 0..(a - 1) : k \in 0..i
      BY <1>0, <2>1, <2>2
    <3> QED
      BY <1>3, <2>2, <3>1 DEF Begins, Begun
  <2> QED
    BY <1>4, <2>3 DEF a, b
<1>16. Spelled(path) = {e}
  <2>1. {d \in C : d[2][1] <= Len(path) /\ Begun(d[2][1], d[2][2], path)} = {c}
    <3>1. c[2][1] <= Len(path) /\ Begun(c[2][1], c[2][2], path)
      BY <1>12, <1>13 DEF n, v
    <3> QED
      BY <1>5, <1>15, <3>1
  <2>2. Spelled(path) = {z[1] : z \in {d \in C : d[2][1] <= Len(path)
                                         /\ Begun(d[2][1], d[2][2], path)}}
    BY <1>1, SpelledIs
  <2> QED
    BY <2>1, <2>2 DEF e
<1>17. e \in Used(lengthlist) /\ e - 1 \in 0..(s.entries - 1)
  <2>1. tree.i = s.entries
    BY DEF Standing
  <2>2. lengthlist \in Seq(Lengths) /\ Len(lengthlist) = s.entries /\ s.entries \in Nat
    BY DEF Standing
  <2>3. e \in 1..s.entries /\ e \in DOMAIN lengthlist
    BY <1>6, <2>1, <2>2
  <2> QED
    BY <1>6, <2>2, <2>3 DEF Used
<1> QED
  BY <1>14, <1>16, <1>17
-----------------------------------------------------------------------------
(* The look ahead.                                                         *)

(* The looks that serve: of one bit or more that are left, and not of a    *)
(* whole long with its top bit set.                                        *)
Looks(most, topset) ==
  {n \in (IF most = 0 THEN {0} ELSE 1..most) :
     Readable(reader, n) /\ ~(topset /\ n = WordBits /\ n = LongBits)}

LEMMA LooksServe ==
  ASSUME RealWidths, Reader(reader), NEW most \in 0..32, NEW topset \in BOOLEAN
  PROVE  /\ Looks(most, topset) = {} =>
              ~Fits(reader, 1) /\ (most = 0 \/ BitsLeft(reader) = 0)
         /\ Looks(most, topset) # {} =>
              LET n == Max(Looks(most, topset))
              IN  /\ reader.live /\ n \in Nat /\ n <= most
                  /\ n <= BitsLeft(reader)
                  /\ \/ n = most \/ n = BitsLeft(reader)
                     \/ topset /\ n = LongBits - 1
<1> DEFINE S == Looks(most, topset)
           left == BitsLeft(reader)
           live == reader.live
<1>0. WordBits = 32 /\ LongBits \in Nat /\ LongBits >= 32
  BY CallAssumption DEF RealWidths, WordBits
<1>1. left \in Nat
  <2>1. 0 \in 0..32
    OBVIOUS
  <2> QED
    BY <2>1, FitsTells
<1>2. \A n \in 0..32 : (Fits(reader, n) <=> live /\ n <= left)
                       /\ (Readable(reader, n) <=> Fits(reader, n))
  BY FitsTells
<1> HIDE DEF left, live
<1>3. CASE most = 0
  <2>1. 0 \in 0..32 /\ 1 \in 0..32 /\ 0 # WordBits
    BY <1>0
  <2>2. S = IF live THEN {0} ELSE {}
    BY <1>1, <1>2, <1>3, <2>1 DEF Looks
  <2>3. CASE live
    <3>1. S = {0, 0}
      BY <2>2, <2>3
    <3>2. Max({0, 0}) \in {0, 0}
      BY MaxOfTwo
    <3>3. Max(S) = 0
      BY <3>1, <3>2
    <3> HIDE DEF S
    <3>4. S # {}
      BY <3>1
    <3> QED
      BY <1>1, <1>3, <2>3, <3>3, <3>4 DEF S, left, live
  <2>4. CASE ~live
    <3>1. S = {} /\ ~Fits(reader, 1)
      BY <1>2, <2>1, <2>2, <2>4
    <3> QED
      BY <1>3, <3>1
  <2> QED
    BY <2>3, <2>4
<1>4. CASE most # 0
  <2>0. \A n \in 1..most : n \in 0..32 /\ n \in Nat
    OBVIOUS
  <2>1. \A n : n \in S <=> n \in 1..most /\ live /\ n <= left
                             /\ ~(topset /\ n = 32 /\ n = LongBits)
    BY <1>0, <1>2, <1>4, <2>0 DEF Looks
  <2>2. S \in SUBSET (1..most) /\ most \in Nat
    BY <2>1
  <2> HIDE DEF S
  <2>3. CASE S = {}
    <3>1. ~(live /\ 1 <= left)
      BY <1>4, <2>1, <2>3
    <3>2. 1 \in 0..32
      OBVIOUS
    <3>3. ~Fits(reader, 1)
      BY <1>2, <3>1, <3>2
    <3>4. left = 0
      <4>1. ~live => left = 0
        BY DEF left, live, BitsLeft
      <4> QED
        BY <1>1, <3>1, <4>1
    <3> QED
      BY <2>3, <3>3, <3>4 DEF S, left
  <2>4. CASE S # {}
    <3> DEFINE n == Max(S)
    <3>1. n \in S /\ \A y \in S : n >= y
      BY <2>2, <2>4, MaxFound
    <3> HIDE DEF n
    <3>2. n \in 1..most /\ live /\ n <= left
      BY <2>1, <3>1
    <3>3. n = most \/ n = left \/ (topset /\ n = LongBits - 1)
      <4> SUFFICES ASSUME n < most, n < left
                   PROVE  topset /\ n = LongBits - 1
        BY <1>1, <3>2
      <4>1. n + 1 \in 1..most /\ n + 1 <= left /\ ~(n >= n + 1)
        BY <1>1, <3>2
      <4>2. n + 1 \notin S
        BY <3>1, <4>1
      <4>3. topset /\ n + 1 = 32 /\ n + 1 = LongBits
        BY <2>1, <3>2, <4>1, <4>2
      <4> QED
        BY <1>0, <3>2, <4>3
    <3>4. n \in Nat /\ n <= most
      BY <3>2
    <3> QED
      BY <2>4, <3>2, <3>3, <3>4 DEF S, n, left, live
  <2> QED
    BY <2>3, <2>4
<1> QED
  BY <1>3, <1>4

(* A book of one entry, or none, has at most the word of zeros.            *)
LEMMA WordsOfOne ==
  ASSUME Standing, s.entries <= 1, NEW c \in Codewords(lengthlist)
  PROVE  /\ c = <<c[1], <<c[2][1], c[2][2]>>>> /\ c[1] \in Nat \ {0}
         /\ c[2][1] \in 1..MaxLength /\ c[2][2] = 0
<1> DEFINE list == lengthlist
           L == list[1]
<1>1. list \in Seq(Lengths) /\ Len(list) = s.entries /\ s.entries \in Nat
  BY DEF Standing
<1>2. Len(list) = 1
  <2> SUFFICES ASSUME Len(list) = 0 PROVE FALSE
    BY <1>1
  <2>1. WordsTo(list, Len(list), {})
    BY NoWords
  <2>2. Len(list) \in Nat
    BY <1>1
  <2> HIDE DEF list
  <2>3. Codewords(list) = {}
    BY <2>1, <2>2, WordsAre
  <2> QED
    BY <2>3 DEF list
<1>3. Codewords(list) = Taking({}, 1, L)
  <2> HIDE DEF list
  <2>1. WordsTo(list, 0, {}) /\ 0 \in Nat /\ 0 + 1 = 1
    BY NoWords
  <2>2. WordsTo(list, 0 + 1, Taking({}, 0 + 1, list[0 + 1]))
    BY <2>1, WordsGrow
  <2>3. WordsTo(list, Len(list), Taking({}, 1, list[1])) /\ Len(list) \in Nat
    BY <1>2, <2>1, <2>2
  <2> QED
    BY <2>3, WordsAre
<1>4. L \in 0..MaxLength /\ MaxLength \in 1..32
  <2>1. 1 \in 1..Len(list)
    BY <1>2
  <2>2. L \in Lengths
    BY <1>1, <2>1
  <2> QED
    BY <2>2, LengthsFit DEF Lengths
<1>5. L # 0
  BY <1>3 DEF Taking
<1>6. L \in 1..MaxLength
  BY <1>4, <1>5
<1> HIDE DEF L, list
<1>7. c \in {<<1, <<L, 0>>>>}
  BY <1>3, <1>6, FirstIsLowest DEF list
<1> QED
  BY <1>6, <1>7

LEMMA StandingCoded ==
  ASSUME Standing
  PROVE  Coded(Codewords(lengthlist))
<1>1. s.entries \in Nat
  BY DEF Standing
<1>2. CASE s.entries > 1
  BY <1>2 DEF Standing, Spells
<1>3. CASE s.entries <= 1
  <2> SUFFICES ASSUME NEW c \in Codewords(lengthlist)
               PROVE  /\ c = <<c[1], <<c[2][1], c[2][2]>>>>
                      /\ c[1] \in Nat \ {0} /\ c[2][1] \in 1..MaxLength
                      /\ c[2][2] \in Nat /\ c[2][2] < TwoTo(c[2][1])
    BY Zenon DEF Coded
  <2>1. /\ c = <<c[1], <<c[2][1], c[2][2]>>>> /\ c[1] \in Nat \ {0}
        /\ c[2][1] \in 1..MaxLength /\ c[2][2] = 0
    BY <1>3, WordsOfOne
  <2> DEFINE n == c[2][1]
  <2>2. n \in 1..MaxLength /\ MaxLength \in 1..32
    BY <2>1, LengthsFit
  <2> HIDE DEF n
  <2>3. n \in 0..32
    BY <2>2
  <2>4. TwoTo(n) \in Nat \ {0}
    BY <2>3, Doubling
  <2> QED
    BY <2>1, <2>4 DEF n
<1> QED
  BY <1>1, <1>2, <1>3

(* Before a bit is walked nothing is spelled.                              *)
LEMMA NothingSpelled ==
  ASSUME Standing, spelling = Codewords(lengthlist)
  PROVE  Spelled(<<>>) = {}
<1>1. Coded(spelling)
  BY StandingCoded
<1>2. ASSUME NEW y \in spelling PROVE ~(y[2][1] <= Len(<<>>))
  <2>1. y[2][1] \in 1..MaxLength /\ MaxLength \in 1..32
    BY <1>1, LengthsFit DEF Coded
  <2> QED
    BY <2>1
<1>3. {y \in spelling : y[2][1] <= Len(<<>>)
          /\ ValueOf(<<>>, y[2][1]) = y[2][2]} = {}
  BY <1>2
<1> QED
  BY <1>3, Zenon DEF Spelled

(* No word of a book of one entry begins with a one.                       *)
LEMMA OneSpellsNothing ==
  ASSUME Standing, s.entries <= 1, spelling = Codewords(lengthlist),
         NEW path \in Seq({0, 1}), path[1] = 1
  PROVE  Spelled(path) = {}
<1>1. Coded(spelling)
  BY StandingCoded
<1>2. ASSUME NEW y \in spelling, Begun(y[2][1], y[2][2], path) PROVE FALSE
  <2> DEFINE n == y[2][1]
  <2>1. n \in 1..MaxLength /\ y[2][2] = 0 /\ MaxLength \in 1..32
    BY WordsOfOne, LengthsFit
  <2>2. Begun(n, 0, path)
    BY <1>2, <2>1
  <2> HIDE DEF n
  <2>3. 0 \in 0..(n - 1) /\ n - 0 - 1 \in 0..32
    BY <2>1
  <2>4. path[0 + 1] = Bit(0, n, 0)
    BY <2>2, <2>3 DEF Begun
  <2>5. Bit(0, n, 0) = 0
    <3> DEFINE d == n - 0 - 1
    <3>1. TwoTo(d) \in Nat \ {0}
      BY <2>3, Doubling
    <3> DEFINE t == TwoTo(d)
    <3> HIDE DEF t
    <3>2. t \in Nat \ {0}
      BY <3>1 DEF t
    <3>3. (0 \div t) % 2 = 0
      <4>1. 0 \div t = 0
        BY <3>2
      <4> QED
        BY <4>1
    <3> QED
      BY <3>3 DEF Bit, t
  <2> QED
    BY <2>4, <2>5
<1>3. {y \in spelling : y[2][1] <= Len(path) /\ Begun(y[2][1], y[2][2], path)}
        = {}
  BY <1>2
<1> QED
  BY <1>1, <1>3, SpelledIs
-----------------------------------------------------------------------------
(* The walk along a codeword.                                              *)

(* The bits that are walked, of those that the look ahead has found.       *)
OnBits ==
  /\ DOMAIN walk = DOMAIN NoWalk /\ reader.live
  /\ walk.left = BitsLeft(reader) /\ walk.entry = -1
  /\ walk.i \in Nat /\ walk.read \in Nat /\ walk.i <= walk.read
  /\ walk.read <= s.dec_maxlength /\ walk.read <= walk.left
  /\ \/ walk.read = s.dec_maxlength \/ walk.read = walk.left
     \/ walk.topset /\ walk.read = LongBits - 1
  /\ walk.path \in Seq({0, 1}) /\ Len(walk.path) = walk.i

(* The nodes they lead along.  A book of one entry has no nodes: a bit of  *)
(* zero ends the walk, and after a one it may lead anywhere.               *)
OnTree ==
  /\ s.entries = 1 => IF walk.i = 0 THEN walk.chase = 0 ELSE walk.path[1] = 1
  /\ s.entries > 1 /\ s.used_entries > 0 /\ Addressed =>
       \E w : /\ Walked(w, walk.path, walk.i)
              /\ walk.chase = Place(w[walk.i])

Decoding ==
  /\ Reader(reader)
  /\ stage \in Calling => spelling = Codewords(lengthlist)
  /\ stage = "walk" => OnBits /\ OnTree
  /\ stage = "entry" => (Addressed => DecodesTheCodeword)

LEMMA WalkFields ==
  DOMAIN NoWalk = {"read", "i", "chase", "entry", "path", "left", "topset"}
BY DEF NoWalk

LEMMA LeastOfTwo ==
  ASSUME NEW a \in Int, NEW b \in Int
  PROVE  Min({a, b}) = IF a <= b THEN a ELSE b
<1> DEFINE m == IF a <= b THEN a ELSE b
<1>1. m \in {a, b} /\ \A y \in {a, b} : m <= y
  OBVIOUS
<1>2. \A x \in {a, b} : (\A y \in {a, b} : x <= y) => x = m
  OBVIOUS
<1> QED
  BY <1>1, <1>2 DEF Min

(* What the book has when it serves a call.                                *)
LEMMA ServesCalls ==
  ASSUME BInv, Longest, Numbered, Settled, Decoding, stage \in Calling
  PROVE  /\ pc = "ok" /\ Standing /\ NumbersFit /\ table = Packed
         /\ Reader(reader) /\ spelling = Codewords(lengthlist)
         /\ s.dec_maxlength \in 0..MaxLength /\ s.dec_maxlength \in 0..32
         /\ s.dec_maxlength > 0 => s.used_entries > 0
         /\ s.dec_maxlength \in Nat /\ s.used_entries \in Nat
         /\ s.entries \in Nat /\ s.used_entries <= s.entries
<1>1. pc = "ok" /\ pc \in Built
  BY DEF BInv, Served, Built
<1>2. Standing
  BY <1>1 DEF Settled
<1>3. NumbersFit /\ table = Packed
  BY <1>1 DEF Numbered, Settled
<1>4. /\ s.dec_maxlength \in 0..MaxLength /\ MaxLength \in 1..32
      /\ s.dec_maxlength > 0 => s.used_entries > 0
  BY LengthsFit DEF Longest
<1>5. s.dec_maxlength \in 0..32
  BY <1>4
<1> QED
  BY <1>1, <1>2, <1>3, <1>4, <1>5 DEF Decoding, Standing

(* A call steps and the book stays.                                        *)
LEMMA BookStays ==
  ASSUME UNCHANGED vars
  PROVE  /\ Addressed' <=> Addressed
         /\ UNCHANGED <<s, tree, table, lengthlist>>
         /\ \A k : Place(k)' = Place(k)
<1>1. UNCHANGED <<s, tree, table, lengthlist>>
  BY DEF vars
<1>2. InPlace' = InPlace /\ CellBits' = CellBits
  BY <1>1 DEF InPlace, CellBits
<1> QED
  BY <1>1, <1>2 DEF Addressed, Place

LEMMA LookSteps ==
  ASSUME LookAhead
  PROVE  \E topset \in BOOLEAN :
           LET S == Looks(s.dec_maxlength, topset)
           IN  \/ /\ S # {}
                  /\ walk' = [NoWalk EXCEPT !.read = Max(S),
                                !.left = BitsLeft(reader), !.topset = topset]
                  /\ stage' = "walk" /\ UNCHANGED reader
               \/ /\ S = {}
                  /\ walk' = [NoWalk EXCEPT !.left = BitsLeft(reader)]
                  /\ stage' = "entry" /\ reader' = oggpack_adv(reader, 1)
BY Zenon DEF LookAhead, Looks

LEMMA LookDecodes ==
  ASSUME RealWidths, BInv, Longest, Numbered, Settled, Decoding, LookAhead
  PROVE  Decoding'
<1>0. stage = "look" /\ stage \in Calling /\ UNCHANGED vars /\ UNCHANGED spelling
  BY DEF LookAhead, Calling
<1>1. /\ Standing /\ NumbersFit /\ table = Packed
      /\ Reader(reader) /\ spelling = Codewords(lengthlist)
      /\ s.dec_maxlength \in 0..32
      /\ s.dec_maxlength > 0 => s.used_entries > 0
      /\ s.entries \in Nat /\ s.used_entries <= s.entries
      /\ s.used_entries \in Nat /\ s.dec_maxlength \in Nat
  BY <1>0, ServesCalls
<1>2. (Addressed' <=> Addressed) /\ UNCHANGED <<s, tree, table, lengthlist>>
      /\ \A k : Place(k)' = Place(k)
  BY <1>0, BookStays
<1>3. spelling' = Codewords(lengthlist')
  BY <1>0, <1>1, <1>2
<1> DEFINE left == BitsLeft(reader)
           most == s.dec_maxlength
<1>4. left \in Nat
  <2>1. 0 \in 0..32
    OBVIOUS
  <2> QED
    BY <1>1, <2>1, FitsTells
<1>5. PICK topset \in BOOLEAN :
        LET S == Looks(s.dec_maxlength, topset)
        IN  \/ /\ S # {}
               /\ walk' = [NoWalk EXCEPT !.read = Max(S),
                             !.left = BitsLeft(reader), !.topset = topset]
               /\ stage' = "walk" /\ UNCHANGED reader
            \/ /\ S = {}
               /\ walk' = [NoWalk EXCEPT !.left = BitsLeft(reader)]
               /\ stage' = "entry" /\ reader' = oggpack_adv(reader, 1)
  BY LookSteps, Zenon
<1> DEFINE S == Looks(most, topset)
<1>6. CASE S = {}
  <2>1. /\ walk' = [NoWalk EXCEPT !.left = left] /\ stage' = "entry"
        /\ reader' = oggpack_adv(reader, 1)
    BY <1>5, <1>6
  <2>2. ~Fits(reader, 1) /\ (most = 0 \/ left = 0)
    BY <1>1, <1>6, LooksServe
  <2>3. Reader(reader') /\ ~reader'.live
    <3>1. 1 \in 0..32
      OBVIOUS
    <3>2. Reader(oggpack_adv(reader, 1)) /\ ~oggpack_adv(reader, 1).live
      BY <1>1, <2>2, <3>1, SkipTells
    <3> QED
      BY <2>1, <3>2
  <2>4. /\ walk'.entry = -1 /\ walk'.path = <<>> /\ walk'.left = left
        /\ s'.dec_maxlength = most
    BY <1>2, <2>1 DEF NoWalk
  <2>5. Spelled(<<>>) = {}
    BY <1>1, NothingSpelled
  <2>6. Spelled(walk.path)' = {}
    BY <1>0, <2>4, <2>5 DEF Spelled
  <2>7. Min({s'.dec_maxlength, walk'.left}) = 0
    <3>1. Min({most, left}) = IF most <= left THEN most ELSE left
      BY <1>1, <1>4, LeastOfTwo
    <3> HIDE DEF most, left
    <3>2. most \in Nat
      BY <1>1 DEF most
    <3>3. Min({most, left}) = 0
      BY <1>4, <2>2, <3>1, <3>2
    <3> QED
      BY <2>4, <3>3 DEF most
  <2>8. Len(walk'.path) = 0
    BY <2>4
  <2>9. DecodesTheCodeword'
    <3>1. ~(walk'.entry >= 0)
      BY <2>4
    <3> QED
      BY <2>3, <2>6, <2>7, <2>8, <3>1 DEF DecodesTheCodeword
  <2>10. Reader(reader)'
    BY <2>3 DEF Reader
  <2> QED
    BY <1>3, <2>1, <2>9, <2>10 DEF Decoding
<1>7. CASE S # {}
  <2> DEFINE n == Max(S)
  <2>1. /\ walk' = [NoWalk EXCEPT !.read = n, !.left = left,
                                  !.topset = topset]
        /\ stage' = "walk" /\ reader' = reader
    BY <1>5, <1>7
  <2>2. /\ reader.live /\ n \in Nat /\ n <= most /\ n <= left
        /\ n = most \/ n = left \/ (topset /\ n = LongBits - 1)
    BY <1>1, <1>7, LooksServe
  <2> HIDE DEF n, S
  <2>3. /\ walk'.entry = -1 /\ walk'.path = <<>> /\ walk'.left = left
        /\ walk'.i = 0 /\ walk'.chase = 0 /\ walk'.read = n
        /\ walk'.topset = topset /\ DOMAIN walk' = DOMAIN NoWalk
    BY <2>1 DEF NoWalk
  <2>4. BitsLeft(reader') = left /\ reader'.live /\ s'.dec_maxlength = most
    BY <1>2, <2>1, <2>2
  <2>5. BitsLeft(reader)' = BitsLeft(reader')
    BY DEF BitsLeft
  <2>6. OnBits'
    <3>1. walk'.path \in Seq({0, 1}) /\ Len(walk'.path) = 0
      BY <2>3
    <3> QED
      BY <2>2, <2>3, <2>4, <2>5, <3>1 DEF OnBits
  <2>7. ASSUME s.entries > 1, s.used_entries > 0, Addressed
        PROVE  \E w : Walked(w, <<>>, 0) /\ 0 = Place(w[0])
    <3>1. Place(0) = 0
      BY <1>1, <2>7, TableFollows DEF Follows
    <3>2. tree.top \in Nat /\ tree.top > 0
      BY <1>1, <2>7, TopOfStanding
    <3> DEFINE w == [k \in {0} |-> 0]
    <3>3. w[0] = 0 /\ 0 \in 0..(tree.top - 1) /\ \A k \in 0..0 : k = 0
      BY <3>2
    <3>4. \A k \in 0..(0 - 1) : FALSE
      OBVIOUS
    <3> HIDE DEF w
    <3>5. Walked(w, <<>>, 0)
      BY <3>3, <3>4 DEF Walked
    <3> QED
      BY <3>1, <3>3, <3>5
  <2>8. OnTree'
    <3> SUFFICES ASSUME s'.entries > 1, s'.used_entries > 0, Addressed'
                 PROVE  \E w : /\ Walked(w, walk.path, walk.i)'
                               /\ (walk.chase = Place(w[walk.i]))'
      BY <2>3 DEF OnTree
    <3>1. PICK w : Walked(w, <<>>, 0) /\ 0 = Place(w[0])
      BY <1>2, <2>7
    <3>2. Walked(w, walk.path, walk.i)'
      BY <1>2, <2>3, <3>1 DEF Walked
    <3> QED
      BY <1>2, <2>3, <3>1, <3>2
  <2>9. Reader(reader)'
    BY <1>1, <2>1 DEF Reader
  <2> QED
    BY <1>3, <2>1, <2>6, <2>8, <2>9 DEF Decoding
<1> QED
  BY <1>6, <1>7

(* A book of one entry gives it for a bit of zero, and for other bits some *)
(* number.                                                                 *)
LEMMA OneEntry ==
  ASSUME RealWidths, Standing, table = Packed, s.entries = 1, NEW chase,
         NEW bit \in {0, 1}, NEW cell \in Held(CellOf(chase, bit))
  PROVE  /\ LeafAt(cell, chase, bit) \in Nat
         /\ chase = 0 /\ bit = 0 => Marked(cell) /\ LeafAt(cell, chase, bit) = 0
<1> DEFINE T == TopBit(WordBits)
<1>1. T = 2147483648 /\ T \in Nat
  BY WordTop
<1>2. /\ s.used_entries \in Nat /\ s.used_entries <= 1 /\ s.dec_nodeb = 4
      /\ 0 \in DOMAIN tree.r /\ tree.r[0] = LeafOf(0)
      /\ \A a \in DOMAIN tree.r : a # 0 => tree.r[a] = Unset
  BY DEF Standing, NodeSized
<1>3. InPlace /\ CellBits = WordBits /\ table = tree.r
  BY <1>2 DEF InPlace, CellBits, Packed
<1> HIDE DEF T
<1>4. cell \in {T, T + 1, s.used_entries + 1}
  <2>1. Strays = {T, T + 1, s.used_entries + 1}
    BY <1>3 DEF Strays, T
  <2>2. LeafOf(0) = T
    BY <1>1 DEF LeafOf, T
  <2> QED
    BY <1>2, <1>3, <2>1, <2>2 DEF Held
<1>5. cell \in Nat /\ cell % T \in Nat
  <2>1. cell \in Nat
    BY <1>1, <1>2, <1>4
  <2> QED
    BY <1>1, <2>1
<1>6. LeafAt(cell, chase, bit) = cell % T
  BY <1>3 DEF LeafAt, T
<1>7. ASSUME chase = 0, bit = 0
      PROVE  cell = T
  <2>1. CellOf(chase, bit) = 0
    BY <1>3, <1>7 DEF CellOf
  <2>2. LeafOf(0) = T /\ T # Unset
    BY <1>1 DEF LeafOf, T, Unset
  <2> QED
    BY <1>2, <1>3, <2>1, <2>2 DEF Held
<1>8. Marked(T) /\ T % T = 0
  BY <1>1, <1>3 DEF Marked, T
<1> QED
  BY <1>5, <1>6, <1>7, <1>8

(* A walk needs no more than the bits that are walked.                     *)
LEMMA WalkedOn ==
  ASSUME NEW i \in Nat, NEW w, NEW path, NEW on, Walked(w, path, i),
         \A k \in 1..i : on[k] = path[k]
  PROVE  Walked(w, on, i)
<1>1. \A k \in 0..(i - 1) : k + 1 \in 1..i
  OBVIOUS
<1> QED
  BY <1>1 DEF Walked

(* Where the next bit leads from the node at the end of a walk.            *)
Turn(w, path, i) == tree.r[2 * w[i] + path[i + 1]]

LEMMA OneNodeOn ==
  ASSUME NEW i \in Nat, NEW w, NEW path, Walked(w, path, i), NEW j \in Nat,
         j = i + 1, NEW x, x = Turn(w, path, i), x \in 0..(tree.top - 1)
  PROVE  \E y : Walked(y, path, j) /\ y[j] = x
<1> DEFINE y == [k \in 0..j |-> IF k <= i THEN w[k] ELSE x]
<1>1. /\ \A k \in 0..i : y[k] = w[k]
      /\ y[j] = x
  OBVIOUS
<1> HIDE DEF y
<1>2. y[0] = 0
  BY <1>1 DEF Walked
<1>3. \A k \in 0..j : y[k] \in 0..(tree.top - 1)
  <2>1. \A k \in 0..j : k \in 0..i \/ k = j
    OBVIOUS
  <2> QED
    BY <1>1, <2>1 DEF Walked
<1>4. \A k \in 0..(j - 1) : tree.r[2 * y[k] + path[k + 1]] = y[k + 1]
  <2>1. \A k \in 0..(j - 1) : k = i \/ (k \in 0..(i - 1) /\ k + 1 \in 0..i)
    OBVIOUS
  <2>2. \A k \in 0..(i - 1) : k \in 0..i
    OBVIOUS
  <2> QED
    BY <1>1, <2>1, <2>2 DEF Walked, Turn
<1>5. Walked(y, path, j)
  BY <1>2, <1>3, <1>4 DEF Walked
<1> QED
  BY <1>1, <1>5

(* The codeword of one entry is the path, and the side holds the entry.     *)
EndsAt(path, side, e) ==
  /\ Spelled(path) = {e} /\ e - 1 \in 0..(s.entries - 1)
  /\ s.dec_type = 0 => side = LeafOf(e - 1)

LEMMA LeafSideSpells ==
  ASSUME RealWidths, Standing, s.entries > 1, s.used_entries > 0,
         spelling = Codewords(lengthlist), NEW path \in Seq({0, 1}),
         NEW i \in Nat, NEW j, j = i + 1, Len(path) = j, i < MaxLength, NEW w,
         Walked(w, path, i), NEW side, side = Turn(w, path, i), IsLeaf(side),
         i > 0 => s.used_entries >= 2
  PROVE  \E e \in Used(lengthlist) : EndsAt(path, side, e)
<1>1. Len(path) = i + 1 /\ IsLeaf(tree.r[2 * w[i] + path[i + 1]])
  BY DEF Turn
<1>2. PICK e \in Used(lengthlist) :
           /\ Spelled(path) = {e} /\ e - 1 \in 0..(s.entries - 1)
           /\ s.dec_type = 0 => tree.r[2 * w[i] + path[i + 1]] = LeafOf(e - 1)
  BY <1>1, LeafSpells
<1> QED
  BY <1>2 DEF EndsAt, Turn

LEMMA BitSteps ==
  ASSUME WalkBit
  PROVE  \E bit \in {0, 1} : \E cell \in Held(CellOf(walk.chase, bit)) :
           LET path == Append(walk.path, bit)
           IN  \/ /\ Marked(cell)
                  /\ walk' = [walk EXCEPT !.path = path,
                                !.entry = LeafAt(cell, walk.chase, bit)]
                  /\ reader' = oggpack_adv(reader, walk.i + 1)
                  /\ stage' = "entry"
               \/ /\ ~Marked(cell)
                  /\ walk' = [walk EXCEPT !.path = path, !.chase = cell,
                                          !.i = @ + 1]
                  /\ reader' = reader /\ stage' = "walk"
<1>1. PICK bit \in NextBits : \E cell \in Held(CellOf(walk.chase, bit)) :
        LET path == Append(walk.path, bit)
        IN  \/ /\ Marked(cell)
               /\ walk' = [walk EXCEPT !.path = path,
                             !.entry = LeafAt(cell, walk.chase, bit)]
               /\ reader' = oggpack_adv(reader, walk.i + 1)
               /\ stage' = "entry"
            \/ /\ ~Marked(cell)
               /\ walk' = [walk EXCEPT !.path = path, !.chase = cell,
                                       !.i = @ + 1]
               /\ reader' = reader /\ stage' = "walk"
  BY Zenon DEF WalkBit
<1>2. bit \in {0, 1}
  BY DEF NextBits
<1> QED
  BY <1>1, <1>2, Zenon

(* The entry is that of the codeword.                                      *)
Gives(path, entry) ==
  \/ \E e \in Used(lengthlist) :
       Spelled(path) = {e} /\ (s.dec_type = 0 => entry = e - 1)
  \/ s.entries = 1 /\ (path = <<0>> => entry = 0)

(* A leaf is that of the codeword that the bits are.                       *)
LEMMA LeafDecodes ==
  ASSUME RealWidths, Standing, NumbersFit, table = Packed, Addressed,
         spelling = Codewords(lengthlist), s.entries > 0, s.used_entries > 0,
         s.dec_maxlength \in 0..MaxLength, OnBits, OnTree, walk.i < walk.read,
         NEW bit \in {0, 1}, NEW cell \in Held(CellOf(walk.chase, bit)),
         Marked(cell), NEW on, on = Append(walk.path, bit)
  PROVE  /\ LeafAt(cell, walk.chase, bit) \in Nat
         /\ Gives(on, LeafAt(cell, walk.chase, bit))
<1> DEFINE i == walk.i
           path == walk.path
           leaf == LeafAt(cell, walk.chase, bit)
<1>1. /\ i \in Nat /\ walk.read \in Nat /\ i < walk.read
      /\ walk.read <= s.dec_maxlength /\ path \in Seq({0, 1}) /\ Len(path) = i
      /\ MaxLength \in 1..32 /\ s.dec_maxlength \in Nat
  <2>1. MaxLength \in 1..32
    BY LengthsFit
  <2> QED
    BY <2>1 DEF OnBits
<1>2. /\ on \in Seq({0, 1}) /\ Len(on) = i + 1 /\ on[i + 1] = bit
      /\ \A k \in 1..i : on[k] = path[k]
  BY <1>1
<1>3. CASE s.entries = 1
  <2>1. /\ leaf \in Nat
        /\ walk.chase = 0 /\ bit = 0 => leaf = 0
    BY <1>3, OneEntry
  <2>2. ASSUME on = << 0 >> PROVE leaf = 0
    <3>1. Len(<< 0 >>) = 1 /\ << 0 >>[1] = 0
      OBVIOUS
    <3>2. i = 0 /\ bit = 0
      BY <1>1, <1>2, <2>2, <3>1
    <3> QED
      BY <1>3, <2>1, <3>2 DEF OnTree
  <2> QED
    BY <1>3, <2>1, <2>2 DEF Gives
<1>4. CASE s.entries > 1
  <2>1. PICK w : Walked(w, path, i) /\ walk.chase = Place(w[i])
    BY <1>4 DEF OnTree
  <2>2. w[i] \in 0..(tree.top - 1)
    BY <1>1, <2>1 DEF Walked
  <2>3. Follows
    BY <1>4, TableFollows
  <2> DEFINE c == tree.r[2 * w[i] + bit]
  <2>4. Found(w[i], bit)
    BY <2>2, <2>3 DEF Follows
  <2>5. cell = table[CellOf(walk.chase, bit)]
    BY <2>1, <2>4 DEF Found, Held, Unset
  <2>6. /\ IsLeaf(c) /\ leaf \in Nat
        /\ s.dec_type = 0 =>
             \A v \in 0..(s.entries - 1) : c = LeafOf(v) => leaf = v
    BY <2>1, <2>4, <2>5 DEF Found
  <2>7. Walked(w, on, i)
    BY <1>1, <1>2, <2>1, WalkedOn
  <2>8. i < MaxLength /\ (i > 0 => s.used_entries >= 2)
    <3>1. s.used_entries \in Nat /\ (s.used_entries = 1 => s.dec_maxlength <= 1)
      BY <1>4 DEF Standing
    <3> HIDE DEF i
    <3>2. i < s.dec_maxlength /\ s.dec_maxlength <= MaxLength
          /\ MaxLength \in Nat
      BY <1>1
    <3> QED
      BY <1>1, <3>1, <3>2
  <2> HIDE DEF leaf, i
  <2>9. c = Turn(w, on, i) /\ IsLeaf(c)
    BY <1>2, <2>6 DEF Turn
  <2> HIDE DEF c
  <2> DEFINE j == i + 1
  <2>10. j = i + 1 /\ Len(on) = j
    BY <1>2
  <2> HIDE DEF j
  <2>11. PICK e \in Used(lengthlist) : EndsAt(on, c, e)
    BY <1>1, <1>2, <1>4, <2>7, <2>8, <2>9, <2>10, LeafSideSpells
  <2>12. Spelled(on) = {e} /\ (s.dec_type = 0 => leaf = e - 1)
    BY <2>6, <2>11 DEF EndsAt, c
  <2> QED
    BY <2>6, <2>12 DEF leaf, Gives
<1>5. s.entries \in Nat
  BY DEF Standing
<1> QED
  BY <1>3, <1>4, <1>5

(* A node is the next along the bits.                                      *)
LEMMA NodeLeadsOn ==
  ASSUME RealWidths, Standing, NumbersFit, table = Packed,
         s.entries > 0, s.used_entries > 0, OnBits, OnTree,
         NEW bit \in {0, 1}, NEW cell \in Held(CellOf(walk.chase, bit)),
         ~Marked(cell), NEW on, on = Append(walk.path, bit)
  PROVE  /\ s.entries = 1 => on[1] = 1
         /\ s.entries > 1 /\ Addressed =>
              \E y : /\ Walked(y, on, walk.i + 1)
                     /\ cell = Place(y[walk.i + 1])
<1> DEFINE i == walk.i
           path == walk.path
<1>1. i \in Nat /\ path \in Seq({0, 1}) /\ Len(path) = i
  BY DEF OnBits
<1>2. /\ Len(on) = i + 1 /\ on[i + 1] = bit
      /\ \A k \in 1..i : on[k] = path[k]
  BY <1>1
<1>3. ASSUME s.entries = 1 PROVE on[1] = 1
  <2>1. CASE i = 0
    <3>1. walk.chase = 0
      BY <1>3, <2>1 DEF OnTree
    <3>2. bit # 0
      BY <1>3, <3>1, OneEntry
    <3> QED
      BY <1>2, <2>1, <3>2
  <2>2. CASE i # 0
    <3>1. path[1] = 1 /\ 1 \in 1..i
      BY <1>1, <1>3, <2>2 DEF OnTree
    <3> QED
      BY <1>2, <3>1
  <2> QED
    BY <2>1, <2>2
<1>4. ASSUME s.entries > 1, Addressed
      PROVE  \E y : Walked(y, on, i + 1) /\ cell = Place(y[i + 1])
  <2>1. PICK w : Walked(w, path, i) /\ walk.chase = Place(w[i])
    BY <1>4 DEF OnTree
  <2>2. w[i] \in 0..(tree.top - 1)
    BY <1>1, <2>1 DEF Walked
  <2>3. Follows
    BY <1>4, TableFollows
  <2> DEFINE c == tree.r[2 * w[i] + bit]
  <2>4. Found(w[i], bit)
    BY <2>2, <2>3 DEF Follows
  <2>5. cell = table[CellOf(walk.chase, bit)]
    BY <2>1, <2>4 DEF Found, Held, Unset
  <2>6. c \in 0..(tree.top - 1) /\ cell = Place(c)
    BY <2>1, <2>4, <2>5 DEF Found
  <2>7. Walked(w, on, i)
    BY <1>1, <1>2, <2>1, WalkedOn
  <2>8. c = Turn(w, on, i)
    BY <1>2 DEF Turn
  <2> DEFINE j == i + 1
  <2>9. j \in Nat /\ j = i + 1
    BY <1>1
  <2> HIDE DEF c, i, j
  <2>10. PICK y : Walked(y, on, j) /\ y[j] = c
    BY <1>1, <2>6, <2>7, <2>8, <2>9, OneNodeOn
  <2> QED
    BY <2>6, <2>10 DEF j
<1> QED
  BY <1>3, <1>4

LEMMA BitDecodes ==
  ASSUME RealWidths, BInv, Longest, Numbered, Settled, Decoding, WalkBit
  PROVE  Decoding'
<1>0. /\ stage = "walk" /\ stage \in Calling /\ UNCHANGED vars
      /\ UNCHANGED spelling /\ walk.i < walk.read
  BY DEF WalkBit, Calling
<1>1. /\ Standing /\ NumbersFit /\ table = Packed
      /\ Reader(reader) /\ spelling = Codewords(lengthlist)
      /\ s.dec_maxlength \in 0..MaxLength /\ s.dec_maxlength \in 0..32
      /\ s.dec_maxlength > 0 => s.used_entries > 0
      /\ s.entries \in Nat /\ s.used_entries <= s.entries
      /\ s.used_entries \in Nat /\ s.dec_maxlength \in Nat
  BY <1>0, ServesCalls
<1>2. (Addressed' <=> Addressed) /\ UNCHANGED <<s, tree, table, lengthlist>>
      /\ \A k : Place(k)' = Place(k)
  BY <1>0, BookStays
<1>3. spelling' = Codewords(lengthlist')
  BY <1>0, <1>1, <1>2
<1>4. OnBits /\ OnTree
  BY <1>0 DEF Decoding
<1> DEFINE i == walk.i
<1>5. /\ DOMAIN walk = DOMAIN NoWalk /\ reader.live
      /\ walk.left = BitsLeft(reader) /\ walk.entry = -1
      /\ i \in Nat /\ walk.read \in Nat /\ i < walk.read
      /\ walk.read <= s.dec_maxlength /\ walk.read <= walk.left
      /\ walk.path \in Seq({0, 1}) /\ Len(walk.path) = i
  BY <1>0, <1>4 DEF OnBits
<1>6. BitsLeft(reader) \in Nat
  <2>1. 0 \in 0..32
    OBVIOUS
  <2> QED
    BY <1>1, <2>1, FitsTells
<1>7. s.entries > 0 /\ s.used_entries > 0
  BY <1>1, <1>5
<1>8. PICK bit \in {0, 1} : \E cell \in Held(CellOf(walk.chase, bit)) :
        LET path == Append(walk.path, bit)
        IN  \/ /\ Marked(cell)
               /\ walk' = [walk EXCEPT !.path = path,
                             !.entry = LeafAt(cell, walk.chase, bit)]
               /\ reader' = oggpack_adv(reader, walk.i + 1)
               /\ stage' = "entry"
            \/ /\ ~Marked(cell)
               /\ walk' = [walk EXCEPT !.path = path, !.chase = cell,
                                       !.i = @ + 1]
               /\ reader' = reader /\ stage' = "walk"
  BY BitSteps
<1>12. PICK cell \in Held(CellOf(walk.chase, bit)) :
        LET path == Append(walk.path, bit)
        IN  \/ /\ Marked(cell)
               /\ walk' = [walk EXCEPT !.path = path,
                             !.entry = LeafAt(cell, walk.chase, bit)]
               /\ reader' = oggpack_adv(reader, walk.i + 1)
               /\ stage' = "entry"
            \/ /\ ~Marked(cell)
               /\ walk' = [walk EXCEPT !.path = path, !.chase = cell,
                                       !.i = @ + 1]
               /\ reader' = reader /\ stage' = "walk"
  BY <1>8, Zenon
<1> DEFINE on == Append(walk.path, bit)
           leaf == LeafAt(cell, walk.chase, bit)
<1>9. on \in Seq({0, 1}) /\ Len(on) = i + 1
  BY <1>5
<1>10. CASE Marked(cell)
  <2>1. /\ walk' = [walk EXCEPT !.path = on, !.entry = leaf]
        /\ reader' = oggpack_adv(reader, i + 1) /\ stage' = "entry"
    BY <1>12, <1>10
  <2>2. walk'.path = on /\ walk'.entry = leaf /\ walk'.left = walk.left
    <3>1. /\ "path" \in DOMAIN walk /\ "entry" \in DOMAIN walk
          /\ "left" \in DOMAIN walk
      BY <1>5, WalkFields
    <3> HIDE DEF on, leaf
    <3> QED
      BY <2>1, <3>1
  <2>3. Reader(reader') /\ reader'.live /\ BitsLeft(reader') = walk.left - (i + 1)
    <3> DEFINE n == i + 1
    <3>1. n \in 0..32 /\ n <= BitsLeft(reader)
      <4> DEFINE most == s.dec_maxlength
                 left == BitsLeft(reader)
                 read == walk.read
      <4>1. /\ i \in Nat /\ read \in Nat /\ i < read /\ read <= most
            /\ read <= left /\ most \in 0..32 /\ left \in Nat
        BY <1>1, <1>5, <1>6
      <4> HIDE DEF i, most, left, read
      <4> QED
        BY <4>1 DEF left
    <3> HIDE DEF n
    <3>2. Fits(reader, n)
      BY <1>1, <1>5, <3>1, FitsTells
    <3>3. /\ Reader(oggpack_adv(reader, n)) /\ oggpack_adv(reader, n).live
          /\ BitsLeft(oggpack_adv(reader, n)) = BitsLeft(reader) - n
      BY <1>1, <3>1, <3>2, SkipTells
    <3>4. reader' = oggpack_adv(reader, n)
      BY <2>1 DEF n
    <3> QED
      BY <1>5, <3>3, <3>4 DEF n
  <2>4. ASSUME Addressed PROVE DecodesTheCodeword'
    <3>1. leaf \in Nat /\ Gives(on, leaf)
      BY <1>0, <1>1, <1>4, <1>7, <1>10, <2>4, LeafDecodes
    <3>2. Spelled(walk.path)' = Spelled(on)
      BY <1>0, <2>2 DEF Spelled
    <3>3. BitsLeft(reader)' = walk'.left - Len(walk'.path)
      <4>1. BitsLeft(reader)' = BitsLeft(reader')
        BY DEF BitsLeft
      <4> QED
        BY <1>9, <2>2, <2>3, <4>1
    <3>4. Used(lengthlist)' = Used(lengthlist)
      BY <1>2 DEF Used
    <3> HIDE DEF on, leaf
    <3>5. leaf >= 0
      BY <3>1
    <3> QED
      BY <1>2, <2>2, <2>3, <3>1, <3>2, <3>3, <3>4, <3>5
         DEF DecodesTheCodeword, Gives
  <2>5. Reader(reader)'
    BY <2>3 DEF Reader
  <2> QED
    BY <1>2, <1>3, <2>1, <2>4, <2>5 DEF Decoding
<1>11. CASE ~Marked(cell)
  <2>1. /\ walk' = [walk EXCEPT !.path = on, !.chase = cell, !.i = @ + 1]
        /\ reader' = reader /\ stage' = "walk"
    BY <1>12, <1>11
  <2>2. /\ walk'.path = on /\ walk'.chase = cell /\ walk'.i = i + 1
        /\ walk'.left = walk.left /\ walk'.entry = walk.entry
        /\ walk'.read = walk.read /\ walk'.topset = walk.topset
        /\ DOMAIN walk' = DOMAIN walk
    <3>1. /\ "path" \in DOMAIN walk /\ "chase" \in DOMAIN walk
          /\ "i" \in DOMAIN walk /\ "left" \in DOMAIN walk
          /\ "entry" \in DOMAIN walk /\ "read" \in DOMAIN walk
          /\ "topset" \in DOMAIN walk
      BY <1>5, WalkFields
    <3> HIDE DEF on
    <3> QED
      BY <2>1, <3>1
  <2>3. /\ s.entries = 1 => on[1] = 1
        /\ s.entries > 1 /\ Addressed =>
             \E y : Walked(y, on, walk.i + 1) /\ cell = Place(y[walk.i + 1])
    BY <1>1, <1>4, <1>7, <1>11, NodeLeadsOn
  <2>4. BitsLeft(reader)' = BitsLeft(reader)
    BY <2>1 DEF BitsLeft
  <2>5. OnBits'
    <3> HIDE DEF on
    <3>1. i + 1 \in Nat /\ i + 1 <= walk.read
      BY <1>5
    <3> QED
      BY <1>2, <1>4, <1>5, <1>9, <2>1, <2>2, <2>4, <3>1 DEF OnBits
  <2>6. OnTree'
    <3> HIDE DEF on
    <3>1. s'.entries = 1 => walk'.path[1] = 1 /\ walk'.i # 0
      BY <1>2, <1>5, <2>2, <2>3
    <3>2. ASSUME s'.entries > 1, s'.used_entries > 0, Addressed'
          PROVE  \E w : /\ Walked(w, walk.path, walk.i)'
                        /\ (walk.chase = Place(w[walk.i]))'
      <4>1. PICK w : Walked(w, on, walk.i + 1) /\ cell = Place(w[walk.i + 1])
        BY <1>2, <2>3, <3>2
      <4>2. Walked(w, walk.path, walk.i)'
        BY <1>2, <2>2, <4>1 DEF Walked
      <4>3. (walk.chase = Place(w[walk.i]))'
        BY <1>2, <2>2, <4>1
      <4> QED
        BY <4>2, <4>3
    <3> QED
      BY <3>1, <3>2 DEF OnTree
  <2>7. Reader(reader)'
    BY <1>1, <2>1 DEF Reader
  <2> QED
    BY <1>3, <2>1, <2>5, <2>6, <2>7 DEF Decoding
<1> QED
  BY <1>10, <1>11

LEMMA EndDecodes ==
  ASSUME RealWidths, BInv, Longest, Numbered, Settled, Decoding, WalkEnds
  PROVE  Decoding'
<1>0. /\ stage = "walk" /\ stage \in Calling /\ UNCHANGED vars
      /\ UNCHANGED <<spelling, walk>> /\ walk.i = walk.read
      /\ reader' = oggpack_seteop(reader) /\ stage' = "entry"
  BY DEF WalkEnds, Calling
<1>1. /\ Standing /\ Reader(reader) /\ spelling = Codewords(lengthlist)
      /\ s.dec_maxlength > 0 => s.used_entries > 0
      /\ s.entries \in Nat /\ s.used_entries <= s.entries
      /\ s.used_entries \in Nat /\ s.dec_maxlength \in Nat
  BY <1>0, ServesCalls
<1>2. (Addressed' <=> Addressed) /\ UNCHANGED <<s, tree, table, lengthlist>>
  BY <1>0, BookStays
<1>3. spelling' = Codewords(lengthlist')
  BY <1>0, <1>1, <1>2
<1>4. OnBits /\ OnTree
  BY <1>0 DEF Decoding
<1> DEFINE i == walk.i
           path == walk.path
<1>5. /\ walk.left = BitsLeft(reader) /\ walk.entry = -1
      /\ i \in Nat /\ walk.read = i
      /\ i <= s.dec_maxlength /\ i <= walk.left
      /\ i = s.dec_maxlength \/ i = walk.left
         \/ (walk.topset /\ i = LongBits - 1)
      /\ path \in Seq({0, 1}) /\ Len(path) = i
  BY <1>0, <1>4 DEF OnBits
<1>6. walk.left \in Nat
  <2>1. 0 \in 0..32
    OBVIOUS
  <2> QED
    BY <1>1, <1>5, <2>1, FitsTells
<1>7. Reader(reader') /\ ~reader'.live
  <2>1. 0 \in 0..32
    OBVIOUS
  <2>2. Reader(oggpack_seteop(reader)) /\ ~oggpack_seteop(reader).live
    BY <1>1, <2>1, SkipTells
  <2> QED
    BY <1>0, <2>2
<1>8. ASSUME Addressed PROVE Spelled(path) = {}
  <2>1. CASE i = 0
    <3>1. path = <<>>
      BY <1>5, <2>1
    <3> QED
      BY <1>1, <3>1, NothingSpelled
  <2>2. CASE i # 0
    <3>1. s.used_entries > 0 /\ s.entries > 0
      BY <1>1, <1>5, <2>2
    <3>2. CASE s.entries = 1
      <4>1. path[1] = 1 /\ s.entries <= 1
        BY <1>4, <2>2, <3>2 DEF OnTree
      <4> QED
        BY <1>1, <1>5, <4>1, OneSpellsNothing
    <3>3. CASE s.entries > 1
      <4>1. PICK w : Walked(w, path, i)
        BY <1>4, <1>8, <3>1, <3>3 DEF OnTree
      <4> QED
        BY <1>1, <1>5, <3>3, <4>1, NoneSpelledYet
    <3> QED
      BY <1>1, <3>1, <3>2, <3>3
  <2> QED
    BY <2>1, <2>2
<1>9. \/ Len(path) = Min({s.dec_maxlength, walk.left})
      \/ walk.topset /\ Len(path) = LongBits - 1
  <2>1. Min({s.dec_maxlength, walk.left}) =
          IF s.dec_maxlength <= walk.left THEN s.dec_maxlength ELSE walk.left
    BY <1>1, <1>6, LeastOfTwo
  <2> QED
    BY <1>1, <1>5, <1>6, <2>1
<1>10. ASSUME Addressed PROVE DecodesTheCodeword'
  <2>1. Spelled(walk.path)' = {}
    BY <1>0, <1>8, <1>10 DEF Spelled
  <2>2. /\ walk' = walk /\ s'.dec_maxlength = s.dec_maxlength
        /\ ~(walk'.entry >= 0)
    BY <1>0, <1>2, <1>5
  <2> QED
    BY <1>7, <1>9, <2>1, <2>2 DEF DecodesTheCodeword
<1>11. Reader(reader)'
  BY <1>7 DEF Reader
<1> QED
  BY <1>0, <1>2, <1>3, <1>10, <1>11 DEF Decoding

LEMMA DecodingStep ==
  ASSUME RealWidths, BInv, Longest, Numbered, Settled, Decoding,
         [DecodeNext]_allVars
  PROVE  Decoding'
<1>1. ASSUME Reader(reader'), stage' \notin Calling PROVE Decoding'
  <2>1. Reader(reader)'
    BY <1>1 DEF Reader
  <2> QED
    BY <1>1, <2>1 DEF Decoding, Calling
<1>2. Reader(reader)
  BY DEF Decoding
<1>3. CASE Unpack
  <2>1. UNCHANGED callVars /\ pc # "ok"
    BY <1>3, Zenon DEF Unpack, vorbis_book_unpack, ReadParameters, ReadOrdering,
       ReadLength, ReadRun, ReadMapping, PolishQuantvals, AllocLattice,
       ReadLattice, AllocWords, SkipEntry, ChaseTree, PlantLeaf, EndWords,
       PackTable, ReadScalars, Finish
  <2>2. reader' = reader /\ stage' = stage
    BY <2>1 DEF callVars
  <2>3. stage \notin Calling
    BY <2>1 DEF BInv, Served
  <2> QED
    BY <1>1, <1>2, <2>2, <2>3
<1>4. CASE Clear
  <2>1. reader' = reader /\ stage' = stage /\ stage \in {"idle", "done"}
    BY <1>4 DEF Clear, callVars
  <2> QED
    BY <1>1, <1>2, <2>1 DEF Calling
<1>5. CASE StartCall
  <2>1. /\ spelling' = Codewords(lengthlist) /\ UNCHANGED lengthlist
        /\ stage' \in {"done", "look", "next"}
    BY <1>5, Zenon DEF StartCall, Return, vars
  <2>2. PICK bytes \in Packets, bit \in {0, 1} :
          reader' = oggpack_adv(oggpack_readinit(bytes), bit)
    BY <1>5, Zenon DEF StartCall
  <2>3. Reader(reader')
    <3>1. bytes \in Nat /\ bit \in 0..32
      BY CallAssumption
    <3>2. Reader(oggpack_readinit(bytes))
      BY <3>1, ReaderStarts
    <3>3. Reader(oggpack_adv(oggpack_readinit(bytes), bit))
      BY <3>1, <3>2, SkipTells
    <3> QED
      BY <2>2, <3>3
  <2>4. Reader(reader)'
    BY <2>3 DEF Reader
  <2> QED
    BY <2>1, <2>4 DEF Decoding
<1>6. CASE NextVector
  <2>1. /\ stage = "next" /\ UNCHANGED <<reader, spelling, lengthlist>>
        /\ stage' \in {"done", "look"}
    BY <1>6, Zenon DEF NextVector, Return, vars
  <2>2. Reader(reader)'
    BY <1>2, <2>1 DEF Reader
  <2> QED
    BY <2>1, <2>2 DEF Decoding, Calling
<1>7. CASE LookAhead
  BY <1>7, LookDecodes
<1>8. CASE WalkBit
  BY <1>8, BitDecodes
<1>9. CASE WalkEnds
  BY <1>9, EndDecodes
<1>10. CASE UseEntry
  <2>1. /\ stage = "entry" /\ UNCHANGED <<reader, spelling, lengthlist>>
        /\ stage' \in {"done", "next"}
    BY <1>10, Zenon DEF UseEntry, Return, vars
  <2>2. Reader(reader)'
    BY <1>2, <2>1 DEF Reader
  <2> QED
    BY <2>1, <2>2 DEF Decoding, Calling
<1>11. CASE UNCHANGED allVars
  <2>1. /\ UNCHANGED vars /\ UNCHANGED <<stage, reader, walk, spelling>>
    BY <1>11 DEF allVars, callVars
  <2>2. (Addressed' <=> Addressed) /\ UNCHANGED <<s, tree, table, lengthlist>>
        /\ \A k : Place(k)' = Place(k)
    BY <2>1, BookStays
  <2>3. Reader(reader)'
    BY <1>2, <2>1 DEF Reader
  <2>4. stage' \in Calling => spelling' = Codewords(lengthlist')
    BY <2>1, <2>2 DEF Decoding
  <2>5. BitsLeft(reader)' = BitsLeft(reader)
    BY <2>1 DEF BitsLeft
  <2>6. OnBits => OnBits'
    BY <2>1, <2>2, <2>5 DEF OnBits
  <2>7. OnTree => OnTree'
    BY <2>1, <2>2 DEF OnTree, Walked
  <2>8. DecodesTheCodeword => DecodesTheCodeword'
    <3>1. Spelled(walk.path)' = Spelled(walk.path)
      BY <2>1 DEF Spelled
    <3>2. Used(lengthlist)' = Used(lengthlist)
      BY <2>2 DEF Used
    <3> QED
      BY <2>1, <2>2, <2>5, <3>1, <3>2, Zenon DEF DecodesTheCodeword
  <2> QED
    BY <2>1, <2>2, <2>3, <2>4, <2>6, <2>7, <2>8 DEF Decoding
<1> QED
  BY <1>3, <1>4, <1>5, <1>6, <1>7, <1>8, <1>9, <1>10, <1>11 DEF DecodeNext

(* On real widths a walk finds the entry whose codeword is next in the     *)
(* packet and takes its bits, and when none is the reader is dead, in      *)
(* every book that is accepted and whose nodes can be told from leaves,    *)
(* however they are packed (decode_packed_entry_number,                    *)
(* codebook.c:673-766; _make_words, codebook.c:168-291).                   *)
THEOREM DecodesCodewords ==
  ASSUME RealWidths
  PROVE  DecodeSpec => [](Addressed => DecodesTheCodeword)
<1> DEFINE Decodes == Addressed => DecodesTheCodeword
<1>1. DecodeInit => BInv
  BY BookStarts
<1>2. DecodeInit => /\ Lists /\ Trees /\ Growth /\ Searching /\ Longest
                    /\ Sizing /\ Shaped
  BY LengthsFit DEF DecodeInit, Init, Lists, Trees, Growing, Listed, Growth,
     Searching, Longest, Sizing, Making, Shaped, NoBook
<1>3. DecodeInit => Spelt /\ Numbered /\ Settled
  BY DEF DecodeInit, Init, Spelt, Numbered, Settled, Built
<1>4. DecodeInit => Decoding
  <2> SUFFICES ASSUME DecodeInit PROVE Decoding
    OBVIOUS
  <2>1. stage = "idle" /\ reader = oggpack_readinit(0)
    BY DEF DecodeInit
  <2> QED
    BY <2>1, ReaderStarts DEF Decoding, Calling
<1>5. BInv /\ Decoding => Decodes
  <2> SUFFICES ASSUME Decoding, stage # "entry" PROVE DecodesTheCodeword
    BY DEF Decoding
  <2> QED
    BY DEF DecodesTheCodeword
<1>6. BInv /\ Lists /\ Trees /\ Growth /\ [DecodeNext]_allVars
        => Lists' /\ Trees' /\ Growth'
  BY ListsStep, TreesStep, GrowthStep
<1>7. BInv /\ [DecodeNext]_allVars => BInv'
  BY BookInductive
<1>8. BInv /\ Searching /\ [DecodeNext]_allVars => Searching'
  BY SearchStep
<1>9. BInv /\ Lists /\ Longest /\ [DecodeNext]_allVars => Longest'
  BY LongestStep
<1>10. BInv /\ Lists /\ Searching /\ Sizing /\ [DecodeNext]_allVars => Sizing'
  BY SizingStep
<1>11. BInv /\ Lists /\ Trees /\ Growth /\ Sizing /\ Shaped
         /\ [DecodeNext]_allVars => Shaped'
  BY ShapedStep
<1>12. BInv /\ Lists /\ Trees /\ Growth /\ Sizing /\ Spelt
         /\ [DecodeNext]_allVars => Spelt'
  BY SpeltStep
<1>13. BInv /\ Lists /\ Sizing /\ Numbered /\ [DecodeNext]_allVars => Numbered'
  BY NumberedStep
<1>14. BInv /\ Lists /\ Trees /\ Growth /\ Sizing /\ Shaped /\ Longest
         /\ Spelt /\ Settled /\ [DecodeNext]_allVars => Settled'
  BY SettledStep
<1>15. BInv /\ Longest /\ Numbered /\ Settled /\ Decoding
         /\ [DecodeNext]_allVars => Decoding'
  BY DecodingStep
<1> QED
  BY <1>1, <1>2, <1>3, <1>4, <1>5, <1>6, <1>7, <1>8, <1>9, <1>10, <1>11,
     <1>12, <1>13, <1>14, <1>15, PTL DEF DecodeSpec
=============================================================================
