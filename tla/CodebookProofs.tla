--------------------------- MODULE CodebookProofs ---------------------------
(***************************************************************************)
(* Whatever a setup header holds, wherever it ends and whichever block     *)
(* finds no memory, each block of a codebook has one owner, a lattice has  *)
(* as many values along each axis as its entries allow, and the words of a *)
(* book are accepted only when they are a whole tree (codebook.c).         *)
(***************************************************************************)
EXTENDS BookDecode, TLAPS, FiniteSetTheorems

Calling == {"next", "look", "walk", "entry"}
Reading == {"params", "ordering", "lengths", "runs", "mapping", "quantvals",
            "lattice"}
WithList == {"lengths", "runs", "mapping", "quantvals", "lattice", "values",
             "table", "words", "pack", "scalars", "end"}

(* The type of the leaves, by the mapping.                                 *)
Typed ==
  \/ sent.maptype = 0 /\ s.dec_type = 0
  \/ sent.maptype = 1 /\ s.dec_type \in {1, 2}
  \/ sent.maptype = 2 /\ s.dec_type \in {1, 3}

(* Which blocks the book points to, step by step.                          *)
Pointers ==
  /\ DOMAIN s = DOMAIN NoBook /\ s.q_val \in BOOLEAN /\ s.dec_table \in BOOLEAN
  /\ pc \in Reading \cup {"refused", "cleared"} => ~s.q_val /\ ~s.dec_table
  /\ pc = "values" => s.q_val /\ ~s.dec_table
  /\ pc \in {"values", "quantvals", "lattice"} => sent.maptype = 1
  /\ pc \in {"table", "words", "pack"} =>
       Typed /\ s.q_val = (sent.maptype = 1)
  /\ pc = "table" => ~s.dec_table
  /\ pc \in {"words", "pack"} => s.dec_table = InPlace
  /\ pc \in {"scalars", "end", "ok"} => s.dec_table
  /\ pc = "scalars" => ~s.q_val /\ s.dec_type = 3
  /\ pc \in {"end", "ok"} => s.q_val = (s.dec_type \in {2, 3})

(* Which blocks there are.                                                 *)
Heap ==
  /\ heap \in [Blocks -> {0, 1}]
  /\ heap["lengthlist"] = 1 <=> pc \in WithList
  /\ heap["work"] = 1 <=> pc \in {"words", "pack"} /\ ~InPlace
  /\ heap["q_val"] = 1 <=> s.q_val
  /\ heap["dec_table"] = 1 <=> s.dec_table
  /\ heap["vec"] = 1 <=> OnHeap /\ stage \in Calling

(* Calls come when the book has been accepted.                             *)
Served ==
  /\ stage # "idle" => pc \in {"ok", "cleared"}
  /\ stage \in Calling => pc = "ok"

BInv == Pointers /\ Heap /\ Served

LEMMA BookFields ==
  DOMAIN NoBook =
    {"dim", "entries", "used_entries", "dec_maxlength", "dec_table",
     "dec_nodeb", "dec_leafw", "dec_type", "q_bits", "q_pack", "q_val"}
BY DEF NoBook

LEMMA Counted ==
  ASSUME NEW h \in [Blocks -> {0, 1}], NEW b \in Blocks
  PROVE  /\ h[b] = 0 => /\ More(h, b) \in [Blocks -> {0, 1}]
                        /\ More(h, b)[b] = 1
                        /\ \A c \in Blocks \ {b} : More(h, b)[c] = h[c]
         /\ h[b] = 1 => /\ Less(h, b) \in [Blocks -> {0, 1}]
                        /\ Less(h, b)[b] = 0
                        /\ \A c \in Blocks \ {b} : Less(h, b)[c] = h[c]
BY DEF More, Less

(* vorbis_book_clear frees what the pointers name.                         *)
LEMMA ClearedHeap ==
  ASSUME NEW h \in [Blocks -> {0, 1}], s.q_val \in BOOLEAN,
         s.dec_table \in BOOLEAN, h["q_val"] = 1 <=> s.q_val,
         h["dec_table"] = 1 <=> s.dec_table
  PROVE  /\ Cleared(h) \in [Blocks -> {0, 1}]
         /\ Cleared(h)["q_val"] = 0 /\ Cleared(h)["dec_table"] = 0
         /\ \A b \in {"lengthlist", "work", "vec"} : Cleared(h)[b] = h[b]
<1> DEFINE h1 == IF s.q_val THEN Less(h, "q_val") ELSE h
<1>1. /\ h1 \in [Blocks -> {0, 1}] /\ h1["q_val"] = 0
      /\ h1["dec_table"] = h["dec_table"]
      /\ \A b \in {"lengthlist", "work", "vec"} : h1[b] = h[b]
  BY Counted DEF Blocks
<1>2. Cleared(h) = IF s.dec_table THEN Less(h1, "dec_table") ELSE h1
  BY DEF Cleared
<1> HIDE DEF h1
<1> QED BY <1>1, <1>2, Counted DEF Blocks

(* A book that is refused leaves nothing, from a heap in which the words   *)
(* have been freed.                                                        *)
LEMMA RefuseStep ==
  ASSUME BInv, NEW h \in [Blocks -> {0, 1}], NEW listed \in BOOLEAN,
         \A b \in Blocks \ {"work"} : h[b] = heap[b], h["work"] = 0,
         listed <=> pc \in WithList, pc \notin {"ok", "cleared"},
         Refuse(h, listed), UNCHANGED callVars
  PROVE  BInv'
<1>1. /\ pc' = "refused" /\ s' = NoBook /\ sent' = sent
      /\ heap' = IF listed THEN Less(Cleared(h), "lengthlist") ELSE Cleared(h)
      /\ stage' = stage /\ call' = call
  BY DEF Refuse, callVars
<1>2. stage = "idle"
  BY DEF BInv, Served
<1>3. /\ Cleared(h) \in [Blocks -> {0, 1}] /\ Cleared(h)["q_val"] = 0
      /\ Cleared(h)["dec_table"] = 0 /\ Cleared(h)["work"] = 0
      /\ Cleared(h)["vec"] = 0 /\ (Cleared(h)["lengthlist"] = 1 <=> listed)
  <2>1. h["vec"] = 0 /\ (h["lengthlist"] = 1 <=> listed)
    BY <1>2 DEF BInv, Heap, Blocks, Calling
  <2> QED BY <2>1, ClearedHeap DEF BInv, Pointers, Heap, Blocks
<1>4. heap' \in [Blocks -> {0, 1}] /\ \A b \in Blocks : heap'[b] = 0
  BY <1>1, <1>3, Counted DEF Blocks
<1>5. s'.q_val = FALSE /\ s'.dec_table = FALSE /\ DOMAIN s' = DOMAIN NoBook
  BY <1>1 DEF NoBook
<1>6. Pointers'
  BY <1>1, <1>5 DEF Pointers, Reading
<1>7. Heap'
  BY <1>1, <1>2, <1>4, <1>5 DEF Heap, WithList, Calling, Blocks
<1> QED BY <1>1, <1>2, <1>6, <1>7 DEF BInv, Served, Calling

-----------------------------------------------------------------------------
(* The steps of vorbis_book_unpack.                                        *)

(* A book that cannot be read on is refused with the heap as it is.        *)
LEMMA RefuseAsIs ==
  ASSUME BInv, NEW listed \in BOOLEAN, heap["work"] = 0,
         listed <=> pc \in WithList, pc \notin {"ok", "cleared"},
         Refuse(heap, listed), UNCHANGED callVars
  PROVE  BInv'
BY RefuseStep DEF BInv, Heap

LEMMA RefuseOfWords ==
  ASSUME BInv, pc \in {"words", "pack"}, RefuseWords, UNCHANGED callVars
  PROVE  BInv'
<1> DEFINE h == IF InPlace THEN heap ELSE Less(heap, "work")
<1>1. h \in [Blocks -> {0, 1}] /\ h["work"] = 0
      /\ \A b \in Blocks \ {"work"} : h[b] = heap[b]
  BY Counted DEF BInv, Heap, Blocks
<1>2. Refuse(h, TRUE) /\ TRUE \in BOOLEAN /\ (TRUE <=> pc \in WithList)
  BY Zenon DEF RefuseWords, WithList
<1> HIDE DEF h
<1>3. pc \notin {"ok", "cleared"}
  OBVIOUS
<1> QED BY <1>1, <1>2, <1>3, RefuseStep

(* Steps that allocate nothing and leave the pointers as they are.         *)
LEMMA QuietStep ==
  ASSUME BInv, UNCHANGED <<sent, heap, callVars>>, stage = "idle",
         DOMAIN s' = DOMAIN NoBook, s'.q_val = s.q_val,
         s'.dec_table = s.dec_table, pc \in WithList, pc' \in WithList,
         pc \in {"words", "pack"} <=> pc' \in {"words", "pack"},
         pc \in {"words", "pack"} => s' = s,
         Pointers'
  PROVE  BInv'
<1>1. Heap'
  <2>1. InPlace' = InPlace \/ pc \notin {"words", "pack"}
    BY DEF InPlace
  <2> QED BY <2>1 DEF BInv, Heap, callVars, Calling
<1> QED BY <1>1 DEF BInv, Served, callVars, Calling

LEMMA ParametersStep ==
  ASSUME BInv, ReadParameters, UNCHANGED callVars
  PROVE  BInv'
<1>0. pc = "params" /\ stage = "idle" /\ heap["work"] = 0
  BY DEF ReadParameters, BInv, Served, Heap, Blocks
<1>1. CASE Refuse(heap, FALSE)
  BY <1>0, <1>1, RefuseAsIs DEF WithList
<1>2. CASE ~Refuse(heap, FALSE)
  <2>1. /\ s' = [s EXCEPT !.dim = sent.dim, !.entries = sent.entries]
        /\ pc' = "ordering" /\ UNCHANGED <<sent, heap>>
    BY <1>2 DEF ReadParameters
  <2>2. /\ DOMAIN s' = DOMAIN NoBook /\ s'.q_val = s.q_val
        /\ s'.dec_table = s.dec_table
    BY <2>1, BookFields DEF BInv, Pointers
  <2>3. Pointers'
    BY <1>0, <2>1, <2>2 DEF BInv, Pointers, Reading
  <2>4. Heap'
    BY <1>0, <2>1, <2>2 DEF BInv, Heap, WithList, callVars, Calling
  <2> QED BY <1>0, <2>3, <2>4 DEF BInv, Served, callVars, Calling
<1> QED BY <1>1, <1>2, Zenon

LEMMA OrderingStep ==
  ASSUME BInv, ReadOrdering, UNCHANGED callVars
  PROVE  BInv'
<1>0. /\ pc = "ordering" /\ stage = "idle" /\ heap["work"] = 0
      /\ heap["lengthlist"] = 0 /\ heap \in [Blocks -> {0, 1}]
  BY DEF ReadOrdering, BInv, Served, Heap, WithList, Blocks
<1>1. CASE Refuse(heap, FALSE)
  BY <1>0, <1>1, RefuseAsIs DEF WithList
<1>2. CASE ~Refuse(heap, FALSE)
  <2>1. /\ heap' = More(heap, "lengthlist")
        /\ s' = [s EXCEPT !.used_entries = IF unused' THEN 0 ELSE s.entries]
        /\ pc' \in {"mapping", "runs", "lengths"} /\ UNCHANGED <<sent>>
    BY <1>2 DEF ReadOrdering
  <2>2. /\ DOMAIN s' = DOMAIN NoBook /\ s'.q_val = s.q_val
        /\ s'.dec_table = s.dec_table
    BY <2>1, BookFields DEF BInv, Pointers
  <2>3. Pointers'
    BY <1>0, <2>1, <2>2 DEF BInv, Pointers, Reading
  <2>4. /\ heap' \in [Blocks -> {0, 1}] /\ heap'["lengthlist"] = 1
        /\ \A b \in Blocks \ {"lengthlist"} : heap'[b] = heap[b]
    BY <1>0, <2>1, Counted DEF Blocks
  <2>5. Heap'
    BY <1>0, <2>1, <2>2, <2>4 DEF BInv, Heap, WithList, callVars, Calling, Blocks
  <2> QED BY <1>0, <2>3, <2>5 DEF BInv, Served, callVars, Calling
<1> QED BY <1>1, <1>2, Zenon

LEMMA LengthsStep ==
  ASSUME BInv, ReadLength \/ ReadRun, UNCHANGED callVars
  PROVE  BInv'
<1>0. /\ pc \in {"lengths", "runs"} /\ stage = "idle" /\ heap["work"] = 0
  BY Zenon DEF ReadLength, ReadRun, BInv, Served, Heap, Blocks
<1>1. CASE Refuse(heap, TRUE)
  BY <1>0, <1>1, RefuseAsIs DEF WithList
<1>2. CASE ~Refuse(heap, TRUE)
  <2>1. /\ \/ \E u, d : s' = [s EXCEPT !.used_entries = u, !.dec_maxlength = d]
           \/ s' = [s EXCEPT !.dec_maxlength = length]
        /\ pc' \in {pc, "mapping"} /\ UNCHANGED <<sent, heap>>
    <3>1. CASE ReadLength
      <4>1. PICK len \in sent.lengths \cup (IF unused THEN {0} ELSE {}) :
              /\ s' = [s EXCEPT
                   !.used_entries = IF unused /\ len > 0 THEN @ + 1 ELSE @,
                   !.dec_maxlength = Max({@, len})]
              /\ pc' = NextListed(lengthlist') /\ UNCHANGED <<sent, heap>>
        BY <1>2, <3>1, Zenon DEF ReadLength
      <4>2. \E u, d : s' = [s EXCEPT !.used_entries = u, !.dec_maxlength = d]
        BY <4>1, Zenon
      <4> QED BY <4>1, <4>2, Zenon DEF NextListed
    <3>2. CASE ReadRun
      BY <1>2, <3>2, Zenon DEF ReadRun, NextListed
    <3> QED BY <3>1, <3>2, Zenon
  <2>2. /\ DOMAIN s' = DOMAIN NoBook /\ s'.q_val = s.q_val
        /\ s'.dec_table = s.dec_table
    BY <2>1, BookFields, Zenon DEF BInv, Pointers
  <2>3. Pointers'
    BY <1>0, <2>1, <2>2, Zenon DEF BInv, Pointers, Reading
  <2> QED BY <1>0, <2>1, <2>2, <2>3, QuietStep, Zenon DEF WithList
<1> QED BY <1>1, <1>2, Zenon

LEMMA MappingStep ==
  ASSUME BInv, ReadMapping, UNCHANGED callVars
  PROVE  BInv'
<1>0. /\ pc = "mapping" /\ stage = "idle" /\ heap["work"] = 0
  BY DEF ReadMapping, BInv, Served, Heap, Blocks
<1>1. CASE Refuse(heap, TRUE)
  BY <1>0, <1>1, RefuseAsIs DEF WithList
<1>2. CASE ~Refuse(heap, TRUE)
  <2>1. PICK bits \in {0, sent.q_bits} :
          LET book == [s EXCEPT !.q_bits = bits]
          IN  s' = CASE sent.maptype = 0 ->
                          Sized(book, 0, (ilog(s.entries) \div ByteBits) + 1)
                     [] sent.maptype = 1 -> book
                     [] sent.maptype = 2 /\ PackedWidth(book) <= 4 ->
                          Sized(book, 1, PackedWidth(book))
                     [] OTHER ->
                          Sized(book, 3,
                            (ilog((s.used_entries - 1) % 2 ^ WordBits)
                               \div ByteBits) + 1)
    BY <1>2 DEF ReadMapping
  <2>2. /\ sent.maptype \in 0..2 /\ UNCHANGED <<sent, heap>>
        /\ pc' = IF sent.maptype = 1 THEN "quantvals" ELSE "table"
    BY <1>2 DEF ReadMapping
  <2> DEFINE book == [s EXCEPT !.q_bits = bits]
  <2>3. /\ DOMAIN book = DOMAIN NoBook /\ book.q_val = s.q_val
        /\ book.dec_table = s.dec_table
    BY BookFields DEF BInv, Pointers
  <2>4. \/ sent.maptype = 0 /\ \E w : s' = Sized(book, 0, w)
        \/ sent.maptype = 1 /\ s' = book
        \/ sent.maptype = 2 /\ \E w : \E t \in {1, 3} : s' = Sized(book, t, w)
    <3>1. CASE sent.maptype = 0
      BY <2>1, <3>1
    <3>2. CASE sent.maptype = 1
      BY <2>1, <3>2
    <3>3. CASE sent.maptype = 2 /\ PackedWidth(book) <= 4
      BY <2>1, <3>3
    <3>4. CASE sent.maptype = 2 /\ ~(PackedWidth(book) <= 4)
      BY <2>1, <3>4
    <3> QED BY <2>2, <3>1, <3>2, <3>3, <3>4
  <2> HIDE DEF book
  <2>5. \A t, w : /\ DOMAIN Sized(book, t, w) = DOMAIN NoBook
                  /\ Sized(book, t, w).dec_type = t
                  /\ Sized(book, t, w).q_val = s.q_val
                  /\ Sized(book, t, w).dec_table = s.dec_table
    BY <2>3, BookFields DEF Sized
  <2>6. /\ DOMAIN s' = DOMAIN NoBook /\ s'.q_val = s.q_val
        /\ s'.dec_table = s.dec_table /\ (sent.maptype # 1 => Typed')
    BY <2>2, <2>3, <2>4, <2>5 DEF Typed
  <2>7. /\ s.q_val = FALSE /\ s.dec_table = FALSE
        /\ pc' = "quantvals" \/ pc' = "table"
    BY <1>0, <2>2 DEF BInv, Pointers, Reading
  <2>8. Pointers'
    <3>1. CASE sent.maptype = 1
      <4>1. pc' = "quantvals"
        BY <2>2, <3>1
      <4> QED BY <2>2, <2>6, <2>7, <3>1, <4>1 DEF Pointers, Reading
    <3>2. CASE sent.maptype # 1
      <4>1. pc' = "table"
        BY <2>2, <3>2
      <4> QED BY <2>2, <2>6, <2>7, <3>2, <4>1 DEF Pointers, Reading
    <3> QED BY <3>1, <3>2
  <2> QED BY <1>0, <2>2, <2>6, <2>7, <2>8, QuietStep DEF WithList
<1> QED BY <1>1, <1>2, Zenon

LEMMA PolishStep ==
  ASSUME BInv, PolishQuantvals, UNCHANGED callVars
  PROVE  BInv'
<1>1. /\ pc = "quantvals" /\ pc' \in {"quantvals", "lattice"} /\ stage = "idle"
      /\ UNCHANGED <<sent, s, heap>>
  BY DEF PolishQuantvals, BInv, Served
<1>2. Pointers'
  BY <1>1 DEF BInv, Pointers, Reading
<1> QED BY <1>1, <1>2, QuietStep DEF WithList, BInv, Pointers

LEMMA LatticeStep ==
  ASSUME BInv, AllocLattice, UNCHANGED callVars
  PROVE  BInv'
<1>0. /\ pc = "lattice" /\ stage = "idle" /\ heap["work"] = 0
      /\ heap["q_val"] = 0 /\ heap \in [Blocks -> {0, 1}]
      /\ ~s.q_val /\ ~s.dec_table
  BY DEF AllocLattice, BInv, Served, Heap, Blocks, Pointers, Reading
<1>1. CASE Refuse(heap, TRUE)
  BY <1>0, <1>1, RefuseAsIs DEF WithList
<1>2. CASE ~Refuse(heap, TRUE)
  <2>1. /\ heap' = More(heap, "q_val") /\ s' = [s EXCEPT !.q_val = TRUE]
        /\ pc' = "values" /\ UNCHANGED sent
    BY <1>2 DEF AllocLattice
  <2>2. /\ DOMAIN s' = DOMAIN NoBook /\ s'.q_val = TRUE
        /\ s'.dec_table = s.dec_table
    BY <2>1, BookFields DEF BInv, Pointers
  <2>3. Pointers'
    BY <1>0, <2>1, <2>2 DEF BInv, Pointers, Reading
  <2>4. /\ heap' \in [Blocks -> {0, 1}] /\ heap'["q_val"] = 1
        /\ \A b \in Blocks \ {"q_val"} : heap'[b] = heap[b]
    BY <1>0, <2>1, Counted DEF Blocks
  <2>5. Heap'
    BY <1>0, <2>1, <2>2, <2>4 DEF BInv, Heap, WithList, callVars, Calling, Blocks
  <2> QED BY <1>0, <2>3, <2>5 DEF BInv, Served, callVars, Calling
<1> QED BY <1>1, <1>2, Zenon

LEMMA ReadLatticeStep ==
  ASSUME BInv, ReadLattice, UNCHANGED callVars
  PROVE  BInv'
<1>0. /\ pc = "values" /\ stage = "idle" /\ heap["work"] = 0
  BY DEF ReadLattice, BInv, Served, Heap, Blocks
<1>1. CASE Refuse(heap, TRUE)
  BY <1>0, <1>1, RefuseAsIs DEF WithList
<1>2. CASE ~Refuse(heap, TRUE)
  <2>1. /\ pc' = "table" /\ UNCHANGED <<sent, heap>>
        /\ \/ s' = Sized(s, 1, PackedWidth(s))
           \/ s' = Sized([s EXCEPT !.q_pack = LatticePack], 2,
                         LeafBytes(LatticePack * s.dim))
    BY <1>2 DEF ReadLattice
  <2>2. \A b, t, w : DOMAIN b = DOMAIN NoBook =>
          /\ DOMAIN Sized(b, t, w) = DOMAIN NoBook
          /\ Sized(b, t, w).dec_type = t /\ Sized(b, t, w).q_val = b.q_val
          /\ Sized(b, t, w).dec_table = b.dec_table
    BY BookFields DEF Sized
  <2>3. DOMAIN s = DOMAIN NoBook /\ sent.maptype = 1 /\ s.q_val = TRUE
    BY <1>0 DEF BInv, Pointers
  <2> DEFINE b == [s EXCEPT !.q_pack = LatticePack]
  <2>4. DOMAIN b = DOMAIN NoBook /\ b.q_val = s.q_val /\ b.dec_table = s.dec_table
    BY <2>3, BookFields
  <2> HIDE DEF b
  <2>5. \E w : s' = Sized(s, 1, w) \/ s' = Sized(b, 2, w)
    BY <2>1 DEF b
  <2>6. /\ DOMAIN s' = DOMAIN NoBook /\ s'.q_val = s.q_val
        /\ s'.dec_table = s.dec_table /\ s'.dec_type \in {1, 2}
    BY <2>2, <2>3, <2>4, <2>5
  <2>7. Pointers'
    BY <1>0, <2>1, <2>3, <2>6 DEF BInv, Pointers, Reading, Typed
  <2> QED BY <1>0, <2>1, <2>6, <2>7, QuietStep DEF WithList
<1> QED BY <1>1, <1>2, Zenon

LEMMA AllocWordsStep ==
  ASSUME BInv, AllocWords, UNCHANGED callVars
  PROVE  BInv'
<1>0. /\ pc = "table" /\ stage = "idle" /\ heap["work"] = 0
      /\ heap["dec_table"] = 0 /\ heap \in [Blocks -> {0, 1}] /\ ~s.dec_table
  BY DEF AllocWords, BInv, Served, Heap, Blocks, Pointers
<1>1. CASE Refuse(heap, TRUE)
  BY <1>0, <1>1, RefuseAsIs DEF WithList
<1>2. CASE ~Refuse(heap, TRUE)
  <2>1. /\ heap' = More(heap, IF InPlace THEN "dec_table" ELSE "work")
        /\ s' = [s EXCEPT !.dec_table = InPlace]
        /\ pc' \in {"pack", "words"} /\ UNCHANGED sent
    BY <1>2 DEF AllocWords
  <2>2. /\ DOMAIN s' = DOMAIN NoBook /\ s'.q_val = s.q_val
        /\ s'.dec_table = InPlace /\ s'.dec_type = s.dec_type
        /\ s'.dec_nodeb = s.dec_nodeb /\ InPlace \in BOOLEAN
    BY <2>1, BookFields DEF BInv, Pointers, InPlace
  <2>3. InPlace' = InPlace
    BY <2>2 DEF InPlace
  <2>4. Pointers'
    BY <1>0, <2>1, <2>2, <2>3 DEF BInv, Pointers, Reading, Typed
  <2>5. CASE InPlace
    <3>1. /\ heap' \in [Blocks -> {0, 1}] /\ heap'["dec_table"] = 1
          /\ \A b \in Blocks \ {"dec_table"} : heap'[b] = heap[b]
      BY <1>0, <2>1, <2>5, Counted DEF Blocks
    <3>2. Heap'
      BY <1>0, <2>1, <2>2, <2>3, <2>5, <3>1
         DEF BInv, Heap, WithList, callVars, Calling, Blocks
    <3> QED BY <1>0, <2>4, <3>2 DEF BInv, Served, callVars, Calling
  <2>6. CASE ~InPlace
    <3>1. /\ heap' \in [Blocks -> {0, 1}] /\ heap'["work"] = 1
          /\ \A b \in Blocks \ {"work"} : heap'[b] = heap[b]
      BY <1>0, <2>1, <2>6, Counted DEF Blocks
    <3>2. Heap'
      BY <1>0, <2>1, <2>2, <2>3, <2>6, <3>1
         DEF BInv, Heap, WithList, callVars, Calling, Blocks
    <3> QED BY <1>0, <2>4, <3>2 DEF BInv, Served, callVars, Calling
  <2> QED BY <2>5, <2>6
<1> QED BY <1>1, <1>2, Zenon

LEMMA WordsStep ==
  ASSUME BInv, SkipEntry \/ ChaseTree \/ PlantLeaf \/ EndWords, UNCHANGED callVars
  PROVE  BInv'
<1>1. CASE RefuseWords
  BY <1>1, RefuseOfWords DEF SkipEntry, ChaseTree, PlantLeaf, EndWords
<1>2. CASE ~RefuseWords
  <2>1. /\ pc = "words" /\ pc' \in {"words", "pack"} /\ UNCHANGED <<sent, s, heap>>
        /\ stage = "idle"
    BY <1>2 DEF SkipEntry, ChaseTree, PlantLeaf, EndWords, BInv, Served
  <2>2. Pointers'
    BY <2>1 DEF BInv, Pointers, Reading, Typed, InPlace
  <2> QED BY <2>1, <2>2, QuietStep DEF WithList, BInv, Pointers
<1> QED BY <1>1, <1>2

LEMMA PackStep ==
  ASSUME BInv, PackTable, UNCHANGED callVars
  PROVE  BInv'
<1> DEFINE done == sent.maptype = 1 /\ s.dec_type = 1
           freed == IF InPlace THEN heap
                    ELSE Less(More(heap, "dec_table"), "work")
<1>0. /\ pc = "pack" /\ stage = "idle" /\ heap \in [Blocks -> {0, 1}]
      /\ (heap["work"] = 1 <=> ~InPlace) /\ (heap["dec_table"] = 1 <=> InPlace)
      /\ (heap["q_val"] = 1 <=> s.q_val) /\ heap["lengthlist"] = 1
      /\ heap["vec"] = 0 /\ DOMAIN s = DOMAIN NoBook
      /\ s.q_val = (sent.maptype = 1) /\ Typed
  BY DEF PackTable, BInv, Served, Heap, Blocks, Pointers, WithList, Calling
<1>1. CASE RefuseWords
  BY <1>0, <1>1, RefuseOfWords
<1>2. CASE ~(~InPlace /\ RefuseWords)
  <2>1. /\ heap' = IF done THEN Less(freed, "q_val") ELSE freed
        /\ s' = [s EXCEPT !.dec_table = TRUE, !.q_val = IF done THEN FALSE ELSE @]
        /\ pc' = IF s.dec_type = 3 THEN "scalars" ELSE "end"
        /\ sent' = sent
    BY <1>2 DEF PackTable
  <2>2. /\ DOMAIN s' = DOMAIN NoBook /\ s'.dec_table = TRUE
        /\ s'.q_val = IF done THEN FALSE ELSE s.q_val
        /\ s'.dec_type = s.dec_type
    BY <1>0, <2>1, BookFields
  <2>3. /\ freed \in [Blocks -> {0, 1}] /\ freed["dec_table"] = 1
        /\ freed["work"] = 0
        /\ \A b \in {"lengthlist", "q_val", "vec"} : freed[b] = heap[b]
    <3>1. CASE InPlace
      BY <1>0, <3>1 DEF Blocks
    <3>2. CASE ~InPlace
      <4> DEFINE more == More(heap, "dec_table")
      <4>1. /\ more \in [Blocks -> {0, 1}] /\ more["dec_table"] = 1
            /\ \A b \in Blocks \ {"dec_table"} : more[b] = heap[b]
        <5>1. heap["dec_table"] = 0 /\ "dec_table" \in Blocks
          BY <1>0, <3>2 DEF Blocks
        <5> QED BY <1>0, <5>1, Counted
      <4> HIDE DEF more
      <4>2. more["work"] = 1 /\ "work" \in Blocks
        BY <1>0, <3>2, <4>1 DEF Blocks
      <4>3. /\ Less(more, "work") \in [Blocks -> {0, 1}]
            /\ Less(more, "work")["work"] = 0
            /\ \A b \in Blocks \ {"work"} : Less(more, "work")[b] = more[b]
        BY <4>1, <4>2, Counted
      <4>4. freed = Less(more, "work")
        BY <3>2 DEF more
      <4> HIDE DEF freed
      <4> QED BY <4>1, <4>3, <4>4 DEF Blocks
    <3> QED BY <3>1, <3>2
  <2> HIDE DEF freed
  <2>4. /\ heap' \in [Blocks -> {0, 1}] /\ heap'["dec_table"] = 1
        /\ heap'["work"] = 0 /\ heap'["lengthlist"] = 1 /\ heap'["vec"] = 0
        /\ heap'["q_val"] = 1 <=> s'.q_val
    <3>1. CASE done
      <4>1. freed["q_val"] = 1 /\ "q_val" \in Blocks
        BY <1>0, <2>3, <3>1 DEF Blocks
      <4>2. /\ heap' \in [Blocks -> {0, 1}] /\ heap'["q_val"] = 0
            /\ \A b \in Blocks \ {"q_val"} : heap'[b] = freed[b]
        BY <2>1, <2>3, <3>1, <4>1, Counted
      <4>3. s'.q_val = FALSE
        BY <2>2, <3>1
      <4> HIDE DEF done
      <4> QED BY <1>0, <2>3, <4>2, <4>3 DEF Blocks
    <3>2. CASE ~done
      <4>1. heap' = freed /\ s'.q_val = s.q_val
        BY <2>1, <2>2, <3>2
      <4> HIDE DEF done
      <4> QED BY <1>0, <2>3, <4>1
    <3> QED BY <3>1, <3>2
  <2>5. /\ pc' = "scalars" => s'.q_val = FALSE /\ s'.dec_type = 3
        /\ pc' = "end" => s'.q_val = (s'.dec_type \in {2, 3})
        /\ pc' \in {"scalars", "end"} /\ s'.q_val \in BOOLEAN
    <3>1. \/ sent.maptype = 1 /\ s.q_val = TRUE
          \/ sent.maptype # 1 /\ s.q_val = FALSE
      BY <1>0
    <3>2. CASE sent.maptype = 1 /\ s.dec_type = 1
      <4>1. s'.q_val = FALSE /\ pc' = "end" /\ s'.dec_type = 1
        BY <2>1, <2>2, <3>2
      <4>2. (s'.dec_type \in {2, 3}) = FALSE
        BY <4>1
      <4>3. s'.q_val = (s'.dec_type \in {2, 3})
        BY <4>1, <4>2
      <4> QED BY <4>1, <4>3
    <3>3. CASE sent.maptype = 1 /\ s.dec_type = 2
      <4>1. s'.q_val = TRUE /\ pc' = "end" /\ s'.dec_type = 2
        BY <2>1, <2>2, <3>1, <3>3
      <4> QED BY <4>1
    <3>4. CASE sent.maptype # 1 /\ s.dec_type \in {0, 1}
      <4>1. s'.q_val = FALSE /\ pc' = "end" /\ s'.dec_type \in {0, 1}
        BY <2>1, <2>2, <3>1, <3>4
      <4>2. (s'.dec_type \in {2, 3}) = FALSE
        BY <4>1
      <4>3. s'.q_val = (s'.dec_type \in {2, 3})
        BY <4>1, <4>2
      <4> QED BY <4>1, <4>3
    <3>5. CASE sent.maptype # 1 /\ s.dec_type = 3
      <4>1. s'.q_val = FALSE /\ pc' = "scalars" /\ s'.dec_type = 3
        BY <2>1, <2>2, <3>1, <3>5
      <4> QED BY <4>1
    <3> QED BY <1>0, <3>2, <3>3, <3>4, <3>5 DEF Typed
  <2>6. Pointers'
    BY <2>2, <2>5 DEF Pointers, Reading
  <2>7. Heap'
    BY <1>0, <2>2, <2>4, <2>5 DEF Heap, WithList, Calling, callVars
  <2> QED BY <1>0, <2>6, <2>7 DEF BInv, Served, callVars, Calling
<1> QED BY <1>1, <1>2

LEMMA ScalarsStep ==
  ASSUME BInv, ReadScalars, UNCHANGED callVars
  PROVE  BInv'
<1>0. /\ pc = "scalars" /\ stage = "idle" /\ heap["work"] = 0
      /\ heap["q_val"] = 0 /\ heap \in [Blocks -> {0, 1}]
      /\ s.dec_table = TRUE /\ s.dec_type = 3 /\ DOMAIN s = DOMAIN NoBook
  BY DEF ReadScalars, BInv, Served, Heap, Blocks, Pointers
<1>1. CASE Refuse(heap, TRUE)
  BY <1>0, <1>1, RefuseAsIs DEF WithList
<1>2. CASE ~Refuse(heap, TRUE)
  <2>1. /\ heap' = More(heap, "q_val")
        /\ s' = [s EXCEPT !.q_val = TRUE, !.q_pack = ValueBytes(s.q_bits) * s.dim]
        /\ pc' = "end" /\ sent' = sent
    BY <1>2 DEF ReadScalars
  <2>2. /\ DOMAIN s' = DOMAIN NoBook /\ s'.q_val = TRUE
        /\ s'.dec_table = TRUE /\ s'.dec_type = 3
    BY <1>0, <2>1, BookFields
  <2>3. Pointers'
    BY <2>1, <2>2 DEF Pointers, Reading
  <2>4. /\ heap' \in [Blocks -> {0, 1}] /\ heap'["q_val"] = 1
        /\ \A b \in Blocks \ {"q_val"} : heap'[b] = heap[b]
    BY <1>0, <2>1, Counted DEF Blocks
  <2>5. Heap'
    BY <1>0, <2>1, <2>2, <2>4 DEF BInv, Heap, WithList, callVars, Calling, Blocks
  <2> QED BY <1>0, <2>3, <2>5 DEF BInv, Served, callVars, Calling
<1> QED BY <1>1, <1>2, Zenon

LEMMA FinishStep ==
  ASSUME BInv, Finish, UNCHANGED callVars
  PROVE  BInv'
<1>0. /\ pc = "end" /\ stage = "idle" /\ heap["work"] = 0
      /\ heap["lengthlist"] = 1 /\ heap \in [Blocks -> {0, 1}]
  BY DEF Finish, BInv, Served, Heap, Blocks, WithList
<1>1. CASE Refuse(heap, TRUE)
  BY <1>0, <1>1, RefuseAsIs DEF WithList
<1>2. CASE ~Refuse(heap, TRUE)
  <2>1. heap' = Less(heap, "lengthlist") /\ pc' = "ok" /\ UNCHANGED <<sent, s>>
    BY <1>2, Zenon DEF Finish
  <2>2. Pointers'
    BY <1>0, <2>1 DEF BInv, Pointers, Reading
  <2>3. /\ heap' \in [Blocks -> {0, 1}] /\ heap'["lengthlist"] = 0
        /\ \A b \in Blocks \ {"lengthlist"} : heap'[b] = heap[b]
    BY <1>0, <2>1, Counted DEF Blocks
  <2>4. Heap'
    BY <1>0, <2>1, <2>3 DEF BInv, Heap, WithList, callVars, Calling, Blocks
  <2> QED BY <1>0, <2>1, <2>2, <2>4 DEF BInv, Served, callVars, Calling
<1> QED BY <1>1, <1>2, Zenon

-----------------------------------------------------------------------------
(* The steps of a call, and vorbis_book_clear.                             *)

LEMMA ClearStep ==
  ASSUME BInv, Clear
  PROVE  BInv'
<1>1. /\ pc = "ok" /\ pc' = "cleared" /\ s' = NoBook /\ heap' = Cleared(heap)
      /\ stage \in {"idle", "done"} /\ stage' = stage /\ sent' = sent
  BY DEF Clear, vorbis_book_clear, callVars
<1>2. /\ heap \in [Blocks -> {0, 1}] /\ heap["lengthlist"] = 0
      /\ heap["work"] = 0 /\ heap["vec"] = 0
  BY <1>1 DEF BInv, Heap, WithList, Calling, Blocks
<1>3. heap' \in [Blocks -> {0, 1}] /\ \A b \in Blocks : heap'[b] = 0
  BY <1>1, <1>2, ClearedHeap DEF BInv, Pointers, Heap, Blocks
<1>4. s'.q_val = FALSE /\ s'.dec_table = FALSE /\ DOMAIN s' = DOMAIN NoBook
  BY <1>1 DEF NoBook
<1>5. Pointers'
  BY <1>1, <1>4 DEF Pointers, Reading
<1>6. Heap'
  BY <1>1, <1>3, <1>4 DEF Heap, WithList, Calling, Blocks
<1> QED BY <1>1, <1>5, <1>6 DEF BInv, Served, Calling

(* The book stays, and the block for the vector comes and goes.            *)
LEMMA CallStep ==
  ASSUME BInv, pc = "ok", UNCHANGED <<sent, pc, s>>,
         \/ heap' = heap /\ (heap["vec"] = 1 <=> OnHeap' /\ stage' \in Calling)
         \/ /\ heap' = More(heap, "vec") /\ heap["vec"] = 0
            /\ OnHeap' /\ stage' \in Calling
         \/ /\ heap' = Less(heap, "vec") /\ heap["vec"] = 1
            /\ ~(OnHeap' /\ stage' \in Calling)
  PROVE  BInv'
<1>1. /\ heap \in [Blocks -> {0, 1}] /\ heap["lengthlist"] = 0 /\ heap["work"] = 0
      /\ (heap["q_val"] = 1 <=> s.q_val) /\ (heap["dec_table"] = 1 <=> s.dec_table)
  BY DEF BInv, Heap, WithList, Blocks
<1>2. /\ heap' \in [Blocks -> {0, 1}]
      /\ \A b \in Blocks \ {"vec"} : heap'[b] = heap[b]
      /\ heap'["vec"] = 1 <=> OnHeap' /\ stage' \in Calling
  BY <1>1, Counted DEF Blocks
<1>3. Heap'
  BY <1>1, <1>2 DEF Heap, WithList, Blocks
<1>4. Pointers'
  BY DEF BInv, Pointers, Typed, InPlace
<1> QED BY <1>3, <1>4 DEF BInv, Served, Calling

LEMMA StartCallStep ==
  ASSUME BInv, StartCall
  PROVE  BInv'
<1>1. /\ pc = "ok" /\ stage = "idle" /\ heap["vec"] = 0 /\ call' \in Calls
  BY DEF StartCall, BInv, Heap, Calling, Blocks
<1>2. CASE stage' = "done" /\ UNCHANGED <<sent, pc, s, heap>>
  BY <1>1, <1>2, CallStep DEF Calling
<1>3. CASE call'.op = "decode" /\ stage' = "look" /\ UNCHANGED vars
  <2>1. ~OnHeap'
    BY <1>3 DEF OnHeap
  <2> QED BY <1>1, <1>3, <2>1, CallStep DEF vars
<1>4. CASE /\ call'.op # "decode" /\ stage' = "next" /\ UNCHANGED <<sent, pc, s>>
           /\ heap' = IF s.dim > DECODE_VEC_STACK THEN More(heap, "vec") ELSE heap
  <2>1. OnHeap' <=> s.dim > DECODE_VEC_STACK
    BY <1>1, <1>4, CallAssumption DEF OnHeap
  <2>2. CASE s.dim > DECODE_VEC_STACK
    BY <1>1, <1>4, <2>1, <2>2, CallStep DEF Calling
  <2>3. CASE ~(s.dim > DECODE_VEC_STACK)
    BY <1>1, <1>4, <2>1, <2>3, CallStep DEF Calling
  <2> QED BY <2>2, <2>3
<1> QED BY <1>2, <1>3, <1>4 DEF StartCall, Return

LEMMA MidCallStep ==
  ASSUME BInv, NextVector \/ LookAhead \/ WalkBit \/ WalkEnds \/ UseEntry
  PROVE  BInv'
<1>1. /\ stage \in Calling /\ pc = "ok" /\ UNCHANGED <<sent, pc, s, call>>
      /\ (heap["vec"] = 1 <=> OnHeap) /\ (OnHeap' <=> OnHeap)
      /\ heap \in [Blocks -> {0, 1}]
  <2>1. /\ stage \in Calling /\ UNCHANGED <<sent, pc, s, call>>
    BY Zenon DEF NextVector, LookAhead, WalkBit, WalkEnds, UseEntry, Calling, vars, Return
  <2> QED BY <2>1 DEF BInv, Served, Heap, OnHeap
<1>2. CASE stage' \in Calling /\ UNCHANGED vars
  BY <1>1, <1>2, CallStep DEF vars
<1>3. CASE stage' = "done" /\ heap' = Freed
  BY <1>1, <1>3, CallStep DEF Freed, Calling
<1>4. CASE stage' = "done" /\ heap' = heap /\ call.op = "decode"
  <2>1. ~OnHeap
    BY <1>4 DEF OnHeap
  <2> QED BY <1>1, <1>4, <2>1, CallStep DEF Calling
<1> QED BY <1>2, <1>3, <1>4, Zenon
        DEF NextVector, LookAhead, WalkBit, WalkEnds, UseEntry, Return, Calling

LEMMA BookInductive ==
  ASSUME BInv, [DecodeNext]_allVars
  PROVE  BInv'
<1>1. CASE Unpack
  BY <1>1, ParametersStep, OrderingStep, LengthsStep, MappingStep, PolishStep,
     LatticeStep, ReadLatticeStep, AllocWordsStep, WordsStep, PackStep,
     ScalarsStep, FinishStep DEF Unpack, vorbis_book_unpack
<1>2. CASE UNCHANGED allVars
  BY <1>2 DEF allVars, vars, callVars, BInv, Pointers, Heap, Served, Typed,
              InPlace, OnHeap
<1> QED BY <1>1, <1>2, StartCallStep, MidCallStep, ClearStep DEF DecodeNext

LEMMA BookStarts == DecodeInit => BInv
<1> SUFFICES ASSUME DecodeInit PROVE BInv
  OBVIOUS
<1>1. /\ pc = "params" /\ stage = "idle" /\ s = NoBook
      /\ heap = [b \in Blocks |-> 0]
  BY DEF DecodeInit, Init
<1>2. s.q_val = FALSE /\ s.dec_table = FALSE
  BY <1>1 DEF NoBook
<1>3. Pointers
  BY <1>1, <1>2 DEF Pointers, Reading
<1>4. heap \in [Blocks -> {0, 1}] /\ \A b \in Blocks : heap[b] = 0
  BY <1>1
<1>5. Heap
  BY <1>1, <1>2, <1>4 DEF Heap, Calling, WithList, Blocks
<1> QED BY <1>1, <1>3, <1>5 DEF BInv, Served, Calling

(* Every block of a codebook is freed once: by vorbis_book_unpack where it *)
(* fails, by the call that took it, or by vorbis_book_clear.               *)
THEOREM BookMemoryIsOwned == DecodeSpec => []MemoryOwned
<1>1. DecodeInit => BInv
  BY BookStarts
<1>2. BInv => MemoryOwned
  <2> SUFFICES ASSUME BInv PROVE MemoryOwned
    OBVIOUS
  <2>1. BookMemoryOwned
    BY DEF BInv, Pointers, Heap, WithList, Blocks, BookMemoryOwned
  <2>2. (heap["vec"] = 1) = (OnHeap /\ stage \in {"next", "look", "walk", "entry"})
    BY DEF BInv, Heap, Calling
  <2> QED BY <2>1, <2>2 DEF MemoryOwned
<1> QED BY <1>1, <1>2, BookInductive, PTL DEF DecodeSpec

-----------------------------------------------------------------------------
(* Induction, stated for sets of numbers, and the functions it defines.    *)

LEMMA LeastNumber ==
  ASSUME NEW T \in SUBSET Nat, T # {}
  PROVE  \E x \in T : \A y \in T : x <= y
<1> DEFINE R == {ss \in Nat \X Nat : ss[1] < ss[2]}
<1>1. IsWellFoundedOn(R, Nat)
  BY NatLessThanWellFounded DEF OpToRel
<1> HIDE DEF R
<1>2. PICK x \in T : \A y \in T : ~(<<y, x>> \in R)
  BY <1>1, WFMin
<1>3. \A y \in T : ~(y < x)
  BY <1>2 DEF R
<1> QED
  BY <1>3

LEMMA InductiveSet ==
  ASSUME NEW T, 0 \in T, \A n \in Nat : n \in T => n + 1 \in T
  PROVE  Nat \subseteq T
<1> SUFFICES ASSUME NEW n \in Nat, n \notin T PROVE FALSE
  OBVIOUS
<1> DEFINE U == {k \in Nat : k \notin T}
<1>1. PICK x \in U : \A y \in U : x <= y
  BY LeastNumber
<1>2. x \in Nat /\ x # 0 /\ x \notin T /\ x - 1 \in Nat /\ x - 1 \notin U
  BY <1>1
<1>3. x - 1 \in T
  BY <1>2
<1> QED
  BY <1>2, <1>3

-----------------------------------------------------------------------------
(* Powers of two, up to that of a word.                                    *)

TwoTo(n) == 2 ^ n

LEMMA Doubling ==
  ASSUME NEW k \in 0..32
  PROVE  /\ TwoTo(0) = 1 /\ TwoTo(k) \in Nat \ {0}
         /\ k < 32 => TwoTo(k + 1) = 2 * TwoTo(k)
<1>1. \/ k = 0 \/ k = 1 \/ k = 2 \/ k = 3 \/ k = 4 \/ k = 5 \/ k = 6
      \/ k = 7 \/ k = 8 \/ k = 9 \/ k = 10 \/ k = 11 \/ k = 12 \/ k = 13
      \/ k = 14 \/ k = 15 \/ k = 16 \/ k = 17 \/ k = 18 \/ k = 19
      \/ k = 20 \/ k = 21 \/ k = 22 \/ k = 23 \/ k = 24 \/ k = 25
      \/ k = 26 \/ k = 27 \/ k = 28 \/ k = 29 \/ k = 30 \/ k = 31
      \/ k = 32
  BY SMT
<1>2. /\ TwoTo(0) = 1 /\ TwoTo(1) = 2 /\ TwoTo(2) = 4 /\ TwoTo(3) = 8
      /\ TwoTo(4) = 16 /\ TwoTo(5) = 32 /\ TwoTo(6) = 64 /\ TwoTo(7) = 128
      /\ TwoTo(8) = 256 /\ TwoTo(9) = 512 /\ TwoTo(10) = 1024
      /\ TwoTo(11) = 2048 /\ TwoTo(12) = 4096 /\ TwoTo(13) = 8192
      /\ TwoTo(14) = 16384 /\ TwoTo(15) = 32768 /\ TwoTo(16) = 65536
      /\ TwoTo(17) = 131072 /\ TwoTo(18) = 262144 /\ TwoTo(19) = 524288
      /\ TwoTo(20) = 1048576 /\ TwoTo(21) = 2097152 /\ TwoTo(22) = 4194304
      /\ TwoTo(23) = 8388608 /\ TwoTo(24) = 16777216
      /\ TwoTo(25) = 33554432 /\ TwoTo(26) = 67108864
      /\ TwoTo(27) = 134217728 /\ TwoTo(28) = 268435456
      /\ TwoTo(29) = 536870912 /\ TwoTo(30) = 1073741824
      /\ TwoTo(31) = 2147483648 /\ TwoTo(32) = 4294967296
  BY SMT DEF TwoTo
<1>3. TwoTo(k) \in Nat \ {0}
  BY <1>1, <1>2, SMT
<1>4. k < 32 => TwoTo(k + 1) = 2 * TwoTo(k)
  BY <1>1, <1>2, SMTT(60)
<1>5. TwoTo(0) = 1
  BY <1>2, SMT
<1> QED
  BY <1>3, <1>4, <1>5 

LEMMA PowersGrow ==
  ASSUME NEW k \in 0..32, NEW j \in 0..k
  PROVE  TwoTo(j) <= TwoTo(k)
<1> DEFINE T == {d \in Nat : j + d <= 32 => TwoTo(j) <= TwoTo(j + d)}
<1>0. j \in 0..32
  OBVIOUS
<1>1. 0 \in T
  <2>1. j + 0 = j /\ j \in 0..32
    OBVIOUS
  <2>2. TwoTo(j) \in Nat
    BY <2>1, Doubling
  <2> QED
    BY <2>1, <2>2
<1>2. ASSUME NEW d \in Nat, d \in T PROVE d + 1 \in T
  <2> SUFFICES ASSUME j + (d + 1) <= 32 PROVE TwoTo(j) <= TwoTo(j + (d + 1))
    OBVIOUS
  <2> DEFINE c == j + d
  <2>1. c \in 0..32 /\ c < 32 /\ j + (d + 1) = c + 1
    OBVIOUS
  <2>2. TwoTo(j) <= TwoTo(c)
    BY <1>2, <2>1
  <2> HIDE DEF c
  <2>3. TwoTo(c + 1) = 2 * TwoTo(c) /\ TwoTo(c) \in Nat
    BY <2>1, Doubling
  <2>4. TwoTo(j) \in Nat
    BY <1>0, Doubling
  <2> QED
    BY <2>1, <2>2, <2>3, <2>4
<1> HIDE DEF T
<1>3. k - j \in T
  BY <1>1, <1>2, InductiveSet
<1>4. j + (k - j) = k
  OBVIOUS
<1> QED
  BY <1>3, <1>4 DEF T

-----------------------------------------------------------------------------
(* The values of a lattice: the saturated power of the polishing loop says *)
(* on which side of the number of entries the power is.                    *)

LEMMA PowersExist ==
  ASSUME NEW v \in Nat, NEW n \in Nat
  PROVE  \E g : /\ g \in [0..n -> Nat] /\ g[0] = 1
                /\ \A i \in 1..n : g[i] = g[i - 1] * v
<1> DEFINE Ok(k, g) == /\ g \in [0..k -> Nat] /\ g[0] = 1
                       /\ \A i \in 1..k : g[i] = g[i - 1] * v
           T == {k \in Nat : \E g : Ok(k, g)}
<1>1. 0 \in T
  <2>1. Ok(0, [i \in 0..0 |-> 1])
    OBVIOUS
  <2> QED
    BY <2>1
<1>2. ASSUME NEW k \in Nat, k \in T PROVE k + 1 \in T
  <2>1. PICK g : Ok(k, g)
    BY <1>2
  <2>2. PICK x \in Nat : x = g[k] * v
    BY <2>1
  <2> DEFINE h == [i \in 0..(k + 1) |-> IF i <= k THEN g[i] ELSE x]
  <2>3. h[k + 1] = x /\ h[k] = g[k] /\ h[0] = 1
    BY <2>1
  <2>4. \A i \in 1..k : h[i] = g[i] /\ h[i - 1] = g[i - 1]
    BY <2>1
  <2>5. h \in [0..(k + 1) -> Nat]
    BY <2>1
  <2>6. \A i \in 1..(k + 1) : i \in 1..k \/ (i = k + 1 /\ i - 1 = k)
    OBVIOUS
  <2> HIDE DEF h
  <2>7. ASSUME NEW i \in 1..(k + 1) PROVE h[i] = h[i - 1] * v
    <3>1. CASE i \in 1..k
      BY <2>1, <2>4, <3>1
    <3>2. CASE i = k + 1
      BY <2>2, <2>3, <2>6, <3>2
    <3> QED
      BY <2>6, <3>1, <3>2
  <2>8. Ok(k + 1, h)
    BY <2>3, <2>5, <2>7
  <2> HIDE DEF Ok
  <2> QED
    BY <2>8
<1> HIDE DEF T
<1>3. n \in T
  BY <1>1, <1>2, InductiveSet
<1> QED
  BY <1>3 DEF T

LEMMA PowerEquation ==
  ASSUME NEW v \in Nat, NEW n \in Nat
  PROVE  \E p : /\ p \in [0..n -> Nat] /\ p[n] = Power(v, n) /\ p[0] = 1
                /\ \A i \in 1..n : p[i] = p[i - 1] * v
<1> DEFINE Eq(p) == p = [i \in 0..n |->
                          IF i = 0 THEN 1 ELSE p[i - 1] * v]
           q == CHOOSE p : Eq(p)
<1>1. PICK g : /\ g \in [0..n -> Nat] /\ g[0] = 1
               /\ \A i \in 1..n : g[i] = g[i - 1] * v
  BY PowersExist
<1>2. Eq(g)
  <2>1. \A i \in 0..n : i = 0 \/ i \in 1..n
    OBVIOUS
  <2>2. g = [i \in 0..n |-> g[i]]
    BY <1>1
  <2> QED
    BY <1>1, <2>1, <2>2
<1>3. Eq(q)
  BY <1>2
<1>4. Power(v, n) = q[n]
  BY DEF Power
<1> HIDE DEF q
<1>5. q[0] = 1 /\ \A i \in 1..n : q[i] = q[i - 1] * v
  BY <1>3
<1>6. \A i \in Nat : i <= n => q[i] \in Nat
  <2> DEFINE T == {i \in Nat : i <= n => q[i] \in Nat}
  <2>1. 0 \in T
    BY <1>5
  <2>2. ASSUME NEW i \in Nat, i \in T PROVE i + 1 \in T
    BY <1>5, <2>2
  <2> HIDE DEF T
  <2>3. Nat \subseteq T
    BY <2>1, <2>2, InductiveSet
  <2> QED
    BY <2>3 DEF T
<1>7. q \in [0..n -> Nat]
  BY <1>3, <1>6
<1> QED
  BY <1>4, <1>5, <1>7

LEMMA SaturatedExist ==
  ASSUME NEW v \in Nat, v > 0, NEW n \in Nat, NEW e \in Nat
  PROVE  \E g : /\ g \in [0..n -> Nat] /\ g[0] = 1
                /\ \A i \in 1..n :
                     g[i] = IF g[i - 1] > e \div v THEN e + 1 ELSE g[i - 1] * v
<1> DEFINE Ok(k, g) == /\ g \in [0..k -> Nat] /\ g[0] = 1
                       /\ \A i \in 1..k :
                            g[i] = IF g[i - 1] > e \div v THEN e + 1 ELSE g[i - 1] * v
           T == {k \in Nat : \E g : Ok(k, g)}
<1>1. 0 \in T
  <2>1. Ok(0, [i \in 0..0 |-> 1])
    OBVIOUS
  <2> QED
    BY <2>1
<1>2. ASSUME NEW k \in Nat, k \in T PROVE k + 1 \in T
  <2>1. PICK g : Ok(k, g)
    BY <1>2
  <2>2. PICK x \in Nat : x = IF g[k] > e \div v THEN e + 1 ELSE g[k] * v
    <3>1. g[k] \in Nat
      BY <2>1
    <3>2. e + 1 \in Nat /\ g[k] * v \in Nat
      BY <3>1
    <3> QED
      BY <3>2
  <2> DEFINE h == [i \in 0..(k + 1) |-> IF i <= k THEN g[i] ELSE x]
  <2>3. h[k + 1] = x /\ h[k] = g[k] /\ h[0] = 1
    BY <2>1
  <2>4. \A i \in 1..k : h[i] = g[i] /\ h[i - 1] = g[i - 1]
    BY <2>1
  <2>5. h \in [0..(k + 1) -> Nat]
    BY <2>1
  <2>6. \A i \in 1..(k + 1) : i \in 1..k \/ (i = k + 1 /\ i - 1 = k)
    OBVIOUS
  <2> HIDE DEF h
  <2>7. ASSUME NEW i \in 1..(k + 1)
        PROVE h[i] = IF h[i - 1] > e \div v THEN e + 1 ELSE h[i - 1] * v
    <3>1. CASE i \in 1..k
      BY <2>1, <2>4, <3>1
    <3>2. CASE i = k + 1
      BY <2>2, <2>3, <2>6, <3>2
    <3> QED
      BY <2>6, <3>1, <3>2
  <2>8. Ok(k + 1, h)
    BY <2>3, <2>5, <2>7
  <2> HIDE DEF Ok
  <2> QED
    BY <2>8
<1> HIDE DEF T
<1>3. n \in T
  BY <1>1, <1>2, InductiveSet
<1> QED
  BY <1>3 DEF T

LEMMA SaturatedEquation ==
  ASSUME NEW v \in Nat, v > 0, NEW n \in Nat, NEW e \in Nat
  PROVE  \E p : /\ p \in [0..n -> Nat] /\ p[n] = Saturated(v, n, e) /\ p[0] = 1
                /\ \A i \in 1..n :
                     p[i] = IF p[i - 1] > e \div v THEN e + 1 ELSE p[i - 1] * v
<1> DEFINE Eq(p) == p = [i \in 0..n |->
                          IF i = 0 THEN 1
                          ELSE IF p[i - 1] > e \div v THEN e + 1 ELSE p[i - 1] * v]
           q == CHOOSE p : Eq(p)
<1>1. PICK g : /\ g \in [0..n -> Nat] /\ g[0] = 1
               /\ \A i \in 1..n :
                    g[i] = IF g[i - 1] > e \div v THEN e + 1 ELSE g[i - 1] * v
  BY SaturatedExist
<1>2. Eq(g)
  <2>1. \A i \in 0..n : i = 0 \/ i \in 1..n
    OBVIOUS
  <2>2. g = [i \in 0..n |-> g[i]]
    BY <1>1
  <2> QED
    BY <1>1, <2>1, <2>2
<1>3. Eq(q)
  BY <1>2
<1>4. Saturated(v, n, e) = q[n]
  BY DEF Saturated
<1> HIDE DEF q
<1>5. q[0] = 1 /\ \A i \in 1..n :
                    q[i] = IF q[i - 1] > e \div v THEN e + 1 ELSE q[i - 1] * v
  BY <1>3
<1>6. \A i \in Nat : i <= n => q[i] \in Nat
  <2> DEFINE T == {i \in Nat : i <= n => q[i] \in Nat}
  <2>1. 0 \in T
    BY <1>5
  <2>2. ASSUME NEW i \in Nat, i \in T PROVE i + 1 \in T
    BY <1>5, <2>2
  <2> HIDE DEF T
  <2>3. Nat \subseteq T
    BY <2>1, <2>2, InductiveSet
  <2> QED
    BY <2>3 DEF T
<1>7. q \in [0..n -> Nat]
  BY <1>3, <1>6
<1> QED
  BY <1>4, <1>5, <1>7

LEMMA DivisionTells ==
  ASSUME NEW v \in Nat, v > 0, NEW e \in Nat, NEW x \in Nat
  PROVE  x > e \div v <=> x * v > e
<1> DEFINE q == e \div v
           r == e % v
<1>1. q \in Nat /\ r \in Nat /\ r < v /\ e = q * v + r
  OBVIOUS
<1> HIDE DEF q, r
<1>2. ASSUME x > q PROVE x * v > e
  <2>1. PICK d \in Nat : x = q + 1 + d
    <3>1. x - q - 1 \in Nat /\ x = q + 1 + (x - q - 1)
      BY <1>1, <1>2
    <3> QED
      BY <3>1
  <2>2. x * v = q * v + v + d * v
    BY <1>1, <2>1
  <2>3. d * v \in Nat /\ q * v \in Nat
    BY <1>1
  <2> QED
    BY <1>1, <2>2, <2>3
<1>3. ASSUME ~(x > q) PROVE ~(x * v > e)
  <2>1. PICK d \in Nat : q = x + d
    <3>1. q - x \in Nat /\ q = x + (q - x)
      BY <1>1, <1>3
    <3> QED
      BY <3>1
  <2>2. q * v = x * v + d * v
    BY <1>1, <2>1
  <2>3. d * v \in Nat /\ x * v \in Nat
    OBVIOUS
  <2> QED
    BY <1>1, <2>2, <2>3
<1> QED
  BY <1>2, <1>3 DEF q

(* The saturated power is the power as long as that is no larger than e.   *)
LEMMA SaturatedTells ==
  ASSUME NEW v \in Nat, v > 0, NEW n \in Nat, NEW e \in Nat, e > 0
  PROVE  /\ Saturated(v, n, e) <= e <=> Power(v, n) <= e
         /\ Saturated(v, n, e) \in Nat /\ Power(v, n) \in Nat
<1>1. PICK p : /\ p \in [0..n -> Nat] /\ p[n] = Power(v, n) /\ p[0] = 1
               /\ \A i \in 1..n : p[i] = p[i - 1] * v
  BY PowerEquation
<1>2. PICK a : /\ a \in [0..n -> Nat] /\ a[n] = Saturated(v, n, e) /\ a[0] = 1
               /\ \A i \in 1..n :
                    a[i] = IF a[i - 1] > e \div v THEN e + 1 ELSE a[i - 1] * v
  BY SaturatedEquation
<1> DEFINE Good(i) == IF p[i] <= e THEN a[i] = p[i] ELSE a[i] = e + 1
           T == {i \in Nat : i <= n => Good(i)}
<1>3. 0 \in T
  BY <1>1, <1>2
<1>4. ASSUME NEW i \in Nat, i \in T PROVE i + 1 \in T
  <2> SUFFICES ASSUME i + 1 <= n PROVE Good(i + 1)
    OBVIOUS
  <2>1. Good(i) /\ i + 1 \in 1..n /\ p[i] \in Nat
    BY <1>1, <1>4
  <2>2. /\ p[i + 1] = p[i] * v
        /\ a[i + 1] = IF a[i] > e \div v THEN e + 1 ELSE a[i] * v
    BY <1>1, <1>2, <2>1
  <2>3. CASE p[i] <= e
    <3>1. a[i] = p[i]
      BY <2>1, <2>3
    <3>2. a[i] > e \div v <=> p[i + 1] > e
      BY <2>1, <2>2, <3>1, DivisionTells
    <3>3. p[i + 1] \in Nat
      BY <2>1, <2>2
    <3> QED
      BY <2>2, <3>1, <3>2, <3>3
  <2>4. CASE ~(p[i] <= e)
    <3>1. a[i] = e + 1
      BY <2>1, <2>4
    <3>2. p[i] * v > e /\ (e + 1) * v > e
      <4>1. PICK w \in Nat : v = 1 + w
        <5>1. v - 1 \in Nat /\ v = 1 + (v - 1)
          OBVIOUS
        <5> QED
          BY <5>1
      <4>2. p[i] * v = p[i] + p[i] * w /\ (e + 1) * v = e + 1 + (e + 1) * w
        BY <2>1, <4>1
      <4>3. p[i] * w \in Nat /\ (e + 1) * w \in Nat
        BY <2>1, <4>1
      <4> QED
        BY <2>1, <2>4, <4>2, <4>3
    <3>3. a[i] > e \div v
      BY <3>1, <3>2, DivisionTells
    <3>4. p[i + 1] \in Nat
      BY <2>1, <2>2
    <3> QED
      BY <2>2, <3>2, <3>3, <3>4
  <2> QED
    BY <2>3, <2>4
<1> HIDE DEF T
<1>5. Nat \subseteq T
  BY <1>3, <1>4, InductiveSet
<1>6. Good(n)
  BY <1>5 DEF T
<1>7. p[n] \in Nat
  BY <1>1
<1> QED
  BY <1>1, <1>2, <1>6, <1>7

LEMMA PowerOfOne ==
  ASSUME NEW n \in Nat
  PROVE  Power(1, n) = 1
<1>1. PICK p : /\ p \in [0..n -> Nat] /\ p[n] = Power(1, n) /\ p[0] = 1
               /\ \A i \in 1..n : p[i] = p[i - 1] * 1
  BY PowerEquation
<1> DEFINE T == {i \in Nat : i <= n => p[i] = 1}
<1>2. 0 \in T
  BY <1>1
<1>3. ASSUME NEW i \in Nat, i \in T PROVE i + 1 \in T
  BY <1>1, <1>3
<1> HIDE DEF T
<1>4. n \in T
  BY <1>2, <1>3, InductiveSet
<1> QED
  BY <1>1, <1>4 DEF T

-----------------------------------------------------------------------------
(* What 24 bits hold.                                                      *)
Sizes == {n \in Nat : n < 2 ^ 24}

LEMMA SizesAre ==
  ASSUME NEW n \in Sizes
  PROVE  n \in Nat /\ n < 16777216
<1>1. 2 ^ 24 = 16777216
  BY SMT
<1> QED
  BY <1>1, SMT DEF Sizes

(* The width of a number of at most 24 bits.                               *)
LEMMA IlogBounded ==
  ASSUME NEW v \in Sizes, v > 0
  PROVE  ilog(v) \in 1..30
<1> DEFINE Bits(n) == TwoTo(n - 1) <= v /\ v < TwoTo(n)
           T == {n \in Nat : n <= 24 /\ v < TwoTo(n)}
<1>0. v \in Nat /\ v > 0 /\ v < 16777216
  BY SizesAre, SMT
<1>1. 24 \in T
  <2>1. TwoTo(24) = 16777216
    BY SMT DEF TwoTo
  <2> QED
    BY <1>0, <2>1, SMT
<1>2. PICK n \in T : \A k \in T : n <= k
  BY <1>1, LeastNumber
<1>3. n \in 1..24 /\ n - 1 \in 0..32
  <2>1. 0 \in 0..32
    OBVIOUS
  <2>2. TwoTo(0) = 1
    BY <2>1, Doubling
  <2>3. n # 0
    BY <1>0, <1>2, <2>2
  <2> QED
    BY <1>2, <2>3
<1>4. ~(v < TwoTo(n - 1)) /\ TwoTo(n - 1) \in Nat
  <2>1. TwoTo(n - 1) \in Nat
    BY <1>3, Doubling
  <2>2. n - 1 \notin T
    BY <1>2, <1>3
  <2> QED
    BY <1>3, <2>1, <2>2
<1>5. n \in 1..30 /\ Bits(n)
  BY <1>0, <1>2, <1>3, <1>4
<1>6. ilog(v) = CHOOSE k \in 1..30 : Bits(k)
  <2>1. v # 0
    BY <1>0, SMT
  <2> QED
    BY <2>1, Zenon DEF ilog, TwoTo
<1> HIDE DEF Bits
<1> QED
  BY <1>5, <1>6

LEMMA PowerOfTwo ==
  ASSUME NEW k \in 0..29
  PROVE  2 ^ k \in Nat \ {0}
<1>1. k \in 0..32
  OBVIOUS
<1>2. TwoTo(k) \in Nat \ {0}
  BY <1>1, Doubling
<1> QED
  BY <1>2, Zenon DEF TwoTo

(* The search starts with at least one value.                              *)
LEMMA HintStarts ==
  ASSUME NEW d \in Nat \ {0}, NEW e \in Sizes
  PROVE  QuantvalsHint(d, e) \in Nat \ {0}
<1>1. CASE e < 1
  <2>1. QuantvalsHint(d, e) = 1
    BY <1>1, Zenon DEF QuantvalsHint
  <2> QED
    BY <2>1
<1>2. CASE ~(e < 1)
  <2> DEFINE b == ilog(e)
             k == ((b - 1) * (d - 1)) \div d
             x == e \div 2 ^ k
  <2>0. e \in Nat /\ e > 0
    BY <1>2, SizesAre, SMT
  <2>1. b \in 1..30
    BY <2>0, IlogBounded
  <2> HIDE DEF b
  <2>2. k \in 0..29
    <3> DEFINE p == b - 1
               q == d - 1
               z == p * q
    <3>1. p \in Nat /\ q \in Nat /\ b = p + 1 /\ d = q + 1
      BY <2>1
    <3> HIDE DEF p, q
    <3>2. z \in Nat
      BY <3>1
    <3>3. b * d = z + p + q + 1
      BY <3>1
    <3>4. b \in Nat /\ b * d > z
      <4> HIDE DEF z
      <4> QED
        BY <3>1, <3>2, <3>3
    <3> HIDE DEF z
    <3>5. b > z \div d
      BY <3>2, <3>4, DivisionTells
    <3>6. z \div d \in Nat
      BY <3>2
    <3>7. z \div d \in 0..29
      BY <2>1, <3>5, <3>6
    <3> QED
      BY <3>7 DEF z, k, p, q
  <2> HIDE DEF k
  <2>3. x \in Nat
    <3>1. 2 ^ k \in Nat \ {0}
      BY <2>2, PowerOfTwo
    <3> QED
      BY <2>0, <3>1
  <2> HIDE DEF x
  <2>4. QuantvalsHint(d, e) = Max({x, 1})
    <3>1. ~(d < 1)
      OBVIOUS
    <3> QED
      BY <1>2, <3>1, Zenon DEF QuantvalsHint, x, k, b
  <2>5. \E m \in {x, 1} : \A y \in {x, 1} : m >= y
    BY <2>3
  <2>6. Max({x, 1}) \in {x, 1} /\ Max({x, 1}) >= 1
    BY <2>5 DEF Max
  <2> QED
    BY <2>3, <2>4, <2>6
<1> QED
  BY <1>1, <1>2

(* Where the size of the lattice is looked for.                            *)
Searching ==
  /\ sent \in Shapes
  /\ pc \in {"ordering", "lengths", "runs", "mapping", "quantvals", "lattice"}
       => s.dim \in Nat \ {0} /\ s.entries \in Sizes
  /\ pc \in {"quantvals", "lattice"} => quantvals \in Nat \ {0}
  /\ pc = "lattice" => QuantvalsFound(quantvals, s.dim, s.entries)

LEMMA SentFits ==
  ASSUME sent \in Shapes
  PROVE  sent.dim \in Nat /\ sent.entries \in Sizes
<1>1. sent.dim \in Nat /\ sent.entries \in Nat /\ sent.entries < 2 ^ 24
  BY ShapeAssumption, Zenon
<1> QED
  BY <1>1, Zenon DEF Sizes

(* A step of the polishing loop keeps the number of values positive: only  *)
(* a power past the entries brings it down, and that of 1 is none.         *)
LEMMA PolishKeeps ==
  ASSUME NEW q \in Nat \ {0}, NEW d \in Nat \ {0}, NEW e \in Sizes,
         ~QuantvalsFound(q, d, e)
  PROVE  QuantvalsPolished(q, d, e) \in Nat \ {0}
<1>1. e \in Nat
  BY SizesAre, SMT
<1>2. ~(Saturated(q, d, e) > e /\ q <= 1)
  BY Zenon DEF QuantvalsFound
<1> DEFINE over == Saturated(q, d, e) > e
<1> HIDE DEF over
<1>3. QuantvalsPolished(q, d, e) = IF over THEN q - 1 ELSE q + 1
  BY DEF QuantvalsPolished, over
<1>4. ~(over /\ q <= 1)
  BY <1>2 DEF over
<1> QED
  BY <1>3, <1>4

LEMMA SearchStep ==
  ASSUME BInv, Searching, [DecodeNext]_allVars
  PROVE  Searching'
<1> USE DEF Searching
<1>0. DOMAIN s = DOMAIN NoBook
  BY DEF BInv, Pointers
<1>1. ASSUME NEW h, NEW listed, Refuse(h, listed) PROVE Searching'
  BY <1>1 DEF Refuse
<1>2. ASSUME RefuseWords PROVE Searching'
  BY <1>1, <1>2 DEF RefuseWords
<1>3. CASE ReadParameters
  <2>1. CASE ~Refuse(heap, FALSE)
    <3>1. /\ pc' = "ordering" /\ sent' = sent /\ sent.dim >= 1
          /\ s' = [s EXCEPT !.dim = sent.dim, !.entries = sent.entries]
      BY <1>3, <2>1 DEF ReadParameters
    <3>2. s'.dim = sent.dim /\ s'.entries = sent.entries
      BY <1>0, <3>1, BookFields
    <3> QED
      BY <3>1, <3>2, SentFits
  <2> QED
    BY <1>1, <2>1
<1>4. CASE ReadOrdering
  <2>1. CASE ~Refuse(heap, FALSE)
    <3>1. /\ sent' = sent /\ pc = "ordering" /\ pc' \notin {"quantvals", "lattice"}
          /\ \E n : s' = [s EXCEPT !.used_entries = n]
      BY <1>4, <2>1 DEF ReadOrdering
    <3>2. s'.dim = s.dim /\ s'.entries = s.entries
      BY <1>0, <3>1, BookFields
    <3> QED
      BY <3>1, <3>2
  <2> QED
    BY <1>1, <2>1
<1>5. CASE ReadLength
  <2>1. CASE ~Refuse(heap, TRUE)
    <3>1. /\ sent' = sent /\ pc = "lengths" /\ pc' \in {"lengths", "mapping"}
          /\ \E n, m : s' = [s EXCEPT !.used_entries = n, !.dec_maxlength = m]
      BY <1>5, <2>1, Zenon DEF ReadLength, NextListed
    <3>2. s'.dim = s.dim /\ s'.entries = s.entries
      BY <1>0, <3>1, BookFields
    <3> QED
      BY <3>1, <3>2
  <2> QED
    BY <1>1, <2>1
<1>6. CASE ReadRun
  <2>1. CASE \E num : RunTooLong(num) /\ Refuse(heap, TRUE)
    BY <1>1, <2>1
  <2>2. CASE ~Refuse(heap, TRUE)
    <3>1. /\ sent' = sent /\ pc = "runs" /\ pc' \in {"runs", "mapping"}
          /\ \E m : s' = [s EXCEPT !.dec_maxlength = m]
      BY <1>6, <2>2 DEF ReadRun, NextListed
    <3>2. s'.dim = s.dim /\ s'.entries = s.entries
      BY <1>0, <3>1, BookFields
    <3> QED
      BY <3>1, <3>2
  <2> QED
    BY <1>1, <2>2
<1>7. CASE ReadMapping
  <2>1. CASE ~Refuse(heap, TRUE)
    <3>1. /\ sent' = sent /\ pc = "mapping"
          /\ pc' = IF sent.maptype = 1 THEN "quantvals" ELSE "table"
          /\ sent.maptype = 1 => /\ quantvals' = QuantvalsHint(s.dim, s.entries)
                                 /\ \E n : s' = [s EXCEPT !.q_bits = n]
      <4>1. PICK bits : s' =
              CASE sent.maptype = 0 ->
                     Sized([s EXCEPT !.q_bits = bits], 0,
                           (ilog(s.entries) \div ByteBits) + 1)
                [] sent.maptype = 1 -> [s EXCEPT !.q_bits = bits]
                [] sent.maptype = 2 /\ PackedWidth([s EXCEPT !.q_bits = bits]) <= 4 ->
                     Sized([s EXCEPT !.q_bits = bits], 1,
                           PackedWidth([s EXCEPT !.q_bits = bits]))
                [] OTHER ->
                     Sized([s EXCEPT !.q_bits = bits], 3,
                       (ilog((s.used_entries - 1) % 2 ^ WordBits)
                          \div ByteBits) + 1)
        BY <1>7, <2>1 DEF ReadMapping
      <4>2. sent.maptype = 1 => s' = [s EXCEPT !.q_bits = bits]
        BY <4>1
      <4>3. /\ sent' = sent /\ pc = "mapping"
            /\ pc' = IF sent.maptype = 1 THEN "quantvals" ELSE "table"
        BY <1>7, <2>1 DEF ReadMapping
      <4>4. quantvals' = CASE sent.maptype = 0 -> 0
                           [] sent.maptype = 1 -> QuantvalsHint(s.dim, s.entries)
                           [] OTHER -> s.entries * s.dim
        BY <1>7, <2>1 DEF ReadMapping
      <4>5. sent.maptype = 1 => quantvals' = QuantvalsHint(s.dim, s.entries)
        BY <4>4
      <4> QED
        BY <4>2, <4>3, <4>5
    <3>2. CASE sent.maptype = 1
      <4>1. s'.dim = s.dim /\ s'.entries = s.entries
        BY <1>0, <3>1, <3>2, BookFields
      <4>2. pc' = "quantvals" /\ quantvals' \in Nat \ {0}
        BY <3>1, <3>2, HintStarts
      <4> QED
        BY <3>1, <4>1, <4>2
    <3> QED
      BY <3>1, <3>2
  <2> QED
    BY <1>1, <2>1
<1>8. CASE PolishQuantvals
  <2>1. CASE QuantvalsFound(quantvals, s.dim, s.entries)
    BY <1>8, <2>1 DEF PolishQuantvals
  <2>2. CASE ~QuantvalsFound(quantvals, s.dim, s.entries)
    <3>1. /\ pc = "quantvals" /\ pc' = pc /\ s' = s /\ sent' = sent
          /\ quantvals' = QuantvalsPolished(quantvals, s.dim, s.entries)
      BY <1>8, <2>2 DEF PolishQuantvals
    <3>2. quantvals' \in Nat \ {0}
      BY <2>2, <3>1, PolishKeeps
    <3> QED
      BY <3>1, <3>2
  <2> QED
    BY <2>1, <2>2
<1>9. CASE AllocLattice \/ ReadLattice \/ AllocWords
  <2>1. CASE ~Refuse(heap, TRUE)
    <3>1. sent' = sent /\ pc' \in {"values", "table", "pack", "words"}
      BY <1>9, <2>1 DEF AllocLattice, ReadLattice, AllocWords
    <3> QED
      BY <3>1
  <2> QED
    BY <1>1, <2>1
<1>10. CASE SkipEntry \/ ChaseTree \/ PlantLeaf \/ EndWords
  <2>1. CASE ~RefuseWords
    <3>1. sent' = sent /\ pc' \in {"words", "pack"}
      BY <1>10, <2>1 DEF SkipEntry, ChaseTree, PlantLeaf, EndWords
    <3> QED
      BY <3>1
  <2> QED
    BY <1>2, <2>1
<1>11. CASE PackTable
  <2>1. CASE ~RefuseWords
    <3>1. sent' = sent /\ pc' \in {"scalars", "end"}
      BY <1>11, <2>1 DEF PackTable
    <3> QED
      BY <3>1
  <2> QED
    BY <1>2, <2>1
<1>12. CASE ReadScalars \/ Finish
  <2>1. CASE ~Refuse(heap, TRUE)
    <3>1. sent' = sent /\ pc' \in {"end", "ok"}
      BY <1>12, <2>1 DEF ReadScalars, Finish
    <3> QED
      BY <3>1
  <2> QED
    BY <1>1, <2>1
<1>13. CASE Clear
  BY <1>13 DEF Clear, vorbis_book_clear
<1>14. CASE StartCall \/ NextVector \/ LookAhead \/ WalkBit \/ WalkEnds \/ UseEntry
  <2>1. UNCHANGED <<sent, pc, s, quantvals>>
    BY <1>14, Zenon DEF StartCall, NextVector, LookAhead, WalkBit, WalkEnds, UseEntry,
                 Return, vars
  <2> QED
    BY <2>1
<1>15. CASE UNCHANGED allVars
  BY <1>15 DEF allVars, vars
<1> QED
  BY <1>3, <1>4, <1>5, <1>6, <1>7, <1>8, <1>9, <1>10, <1>11, <1>12, <1>13,
     <1>14, <1>15 DEF DecodeNext, Unpack, vorbis_book_unpack

(* The loop stops where the powers tell.                                   *)
LEMMA SearchTells == Searching => QuantvalsExact
<1> SUFFICES ASSUME Searching, pc = "lattice", s.entries > 0
             PROVE  /\ Power(quantvals, s.dim) <= s.entries
                    /\ Power(quantvals + 1, s.dim) > s.entries
  BY DEF QuantvalsExact
<1> DEFINE q == quantvals
           d == s.dim
           e == s.entries
<1>1. q \in Nat \ {0} /\ d \in Nat \ {0} /\ e \in Sizes
  BY DEF Searching
<1>2. QuantvalsFound(q, d, e) /\ e > 0
  BY DEF Searching
<1> HIDE DEF q, d, e
<1>3. e \in Nat
  BY <1>1, SizesAre, SMT
<1>4. ASSUME NEW v \in Nat \ {0}
      PROVE  /\ Saturated(v, d, e) <= e <=> Power(v, d) <= e
             /\ Saturated(v, d, e) \in Nat /\ Power(v, d) \in Nat
  <2>1. v \in Nat /\ v > 0 /\ d \in Nat
    BY <1>1
  <2> QED
    BY <1>2, <1>3, <2>1, SaturatedTells
<1>5. CASE Saturated(q, d, e) > e /\ q <= 1
  <2>1. q = 1 /\ Power(1, d) = 1
    BY <1>1, <1>5, PowerOfOne
  <2>2. Power(q, d) <= e
    BY <1>2, <1>3, <2>1
  <2>3. Saturated(q, d, e) <= e /\ Saturated(q, d, e) \in Nat
    BY <1>1, <1>4, <2>2
  <2> QED
    BY <1>3, <1>5, <2>3
<1>6. CASE Saturated(q, d, e) <= e /\ Saturated(q + 1, d, e) > e
  <2>1. q + 1 \in Nat \ {0}
    BY <1>1
  <2>2. Power(q, d) <= e /\ ~(Power(q + 1, d) <= e) /\ Power(q + 1, d) \in Nat
    BY <1>1, <1>3, <1>4, <1>6, <2>1
  <2> QED
    BY <1>3, <2>2 DEF q, d, e
<1>7. ~(d < 1 \/ e < 1)
  BY <1>1, <1>2, <1>3
<1> QED
  BY <1>2, <1>5, <1>6, <1>7 DEF QuantvalsFound

(* Whatever dim and entries a header holds, the polishing loop comes out   *)
(* at the most values an axis can have, by powers that are cut short.      *)
THEOREM LatticeIsExact == DecodeSpec => []QuantvalsExact
<1>1. DecodeInit => BInv
  BY BookStarts
<1>2. DecodeInit => Searching
  BY DEF DecodeInit, Init, Searching
<1>3. Searching => QuantvalsExact
  BY SearchTells
<1> QED
  BY <1>1, <1>2, <1>3, BookInductive, SearchStep, PTL DEF DecodeSpec

-----------------------------------------------------------------------------
(* The markers.  A length whose marker is odd has that word free beside    *)
(* the tree grown so far, and the words free of the other lengths hang     *)
(* from those of the shorter ones.                                         *)

Good(m) ==
  /\ m \in [0..MaxLength -> Nat] /\ m[0] = 0
  /\ \A j \in 1..MaxLength :
       /\ m[j] % 2 = 1 \/ m[j] = 2 * m[j - 1]
       /\ m[j] < TwoTo(j)
       /\ m[j - 1] > 0 => m[j] <= 2 * m[j - 1]

(* f[j] words of length j are free.                                        *)
FreeBy(m, f) ==
  /\ f \in [0..MaxLength -> Nat] /\ f[0] = 0
  /\ \A j \in 1..MaxLength : f[j] = 2 * f[j - 1] + (m[j] % 2)

LEMMA LengthsFit ==
  /\ MaxLength \in 1..32 /\ WordBits \in 1..32 /\ MaxLength <= WordBits
BY LengthAssumption, WidthAssumption DEF WordBits

(* A length has words free when its marker is not 0.                       *)
LEMMA FreeMarked ==
  ASSUME NEW m, NEW f, Good(m), FreeBy(m, f), NEW n \in 0..MaxLength
  PROVE  f[n] = 0 <=> m[n] = 0
<1> DEFINE T == {k \in Nat : k <= MaxLength => (f[k] = 0 <=> m[k] = 0)}
<1>0. MaxLength \in Nat
  BY LengthsFit
<1>1. 0 \in T
  BY DEF Good, FreeBy
<1>2. ASSUME NEW k \in Nat, k \in T PROVE k + 1 \in T
  <2> SUFFICES ASSUME k + 1 <= MaxLength
               PROVE  f[k + 1] = 0 <=> m[k + 1] = 0
    OBVIOUS
  <2>1. k + 1 \in 1..MaxLength /\ k \in 0..MaxLength /\ (k + 1) - 1 = k
    BY <1>0
  <2>2. f[k] = 0 <=> m[k] = 0
    BY <1>0, <1>2, <2>1
  <2>3. f[k + 1] = 2 * f[k] + (m[k + 1] % 2)
    BY <2>1 DEF FreeBy
  <2>4. m[k + 1] % 2 = 1 \/ m[k + 1] = 2 * m[k]
    BY <2>1 DEF Good
  <2>5. m[k] \in Nat /\ m[k + 1] \in Nat /\ f[k] \in Nat
    BY <1>0, <2>1 DEF Good, FreeBy
  <2>6. CASE m[k + 1] % 2 = 1
    <3>1. m[k + 1] # 0
      BY <2>6
    <3> QED
      BY <2>3, <2>5, <2>6, <3>1
  <2>7. CASE m[k + 1] = 2 * m[k]
    <3>1. m[k + 1] % 2 = 0
      BY <2>5, <2>7
    <3>2. f[k + 1] = 2 * f[k]
      BY <2>3, <2>5, <3>1
    <3> QED
      BY <2>2, <2>5, <2>7, <3>2
  <2> QED
    BY <2>4, <2>6, <2>7
<1> HIDE DEF T
<1>3. n \in T
  BY <1>0, <1>1, <1>2, InductiveSet
<1> QED
  BY <1>0, <1>3 DEF T

(* Words free from length n on: less than one of length n makes, if that   *)
(* has none.                                                               *)
LEMMA FreeBelow ==
  ASSUME NEW m, NEW f, Good(m), FreeBy(m, f), NEW n \in 1..MaxLength,
         m[n] = 0
  PROVE  f[MaxLength] < TwoTo(MaxLength - n)
<1> DEFINE T == {d \in Nat : n + d <= MaxLength => f[n + d] < TwoTo(d)}
<1>0. MaxLength \in Nat /\ MaxLength <= 32 /\ n \in 0..MaxLength
  BY LengthsFit
<1>1. 0 \in T
  BY <1>0, FreeMarked, Doubling
<1>2. ASSUME NEW d \in Nat, d \in T PROVE d + 1 \in T
  <2> SUFFICES ASSUME n + (d + 1) <= MaxLength
               PROVE  f[n + (d + 1)] < TwoTo(d + 1)
    OBVIOUS
  <2> DEFINE k == n + d
  <2>1. /\ k + 1 \in 1..MaxLength /\ k \in 0..MaxLength /\ (k + 1) - 1 = k
        /\ n + (d + 1) = k + 1 /\ d \in 0..32 /\ d < 32
    BY <1>0
  <2>2. f[k] < TwoTo(d)
    BY <1>0, <1>2, <2>1
  <2> HIDE DEF k
  <2>3. f[k + 1] = 2 * f[k] + (m[k + 1] % 2)
    BY <2>1 DEF FreeBy
  <2>4. m[k + 1] \in Nat /\ f[k] \in Nat
    <3>1. m \in [0..MaxLength -> Nat] /\ f \in [0..MaxLength -> Nat]
      BY DEF Good, FreeBy
    <3>2. k + 1 \in 0..MaxLength
      BY <1>0, <2>1
    <3> QED
      BY <2>1, <3>1, <3>2
  <2>5. TwoTo(d + 1) = 2 * TwoTo(d) /\ TwoTo(d) \in Nat
    BY <2>1, Doubling
  <2>6. m[k + 1] % 2 \in {0, 1}
    BY <2>4
  <2>7. f[k + 1] < TwoTo(d + 1)
    BY <2>2, <2>3, <2>4, <2>5, <2>6
  <2> QED
    BY <2>1, <2>7
<1> HIDE DEF T
<1>3. MaxLength - n \in T
  BY <1>0, <1>1, <1>2, InductiveSet
<1>4. n + (MaxLength - n) = MaxLength
  BY <1>0
<1> QED
  BY <1>0, <1>3, <1>4 DEF T

(* What is free of a length is free of the longest.                        *)
LEMMA FreeAbove ==
  ASSUME NEW m, NEW f, Good(m), FreeBy(m, f), NEW n \in 0..MaxLength,
         f[n] > 0
  PROVE  \A d \in 0..(MaxLength - n) : f[n + d] >= TwoTo(d)
<1> DEFINE T == {d \in Nat : n + d <= MaxLength => f[n + d] >= TwoTo(d)}
<1>0. MaxLength \in Nat /\ MaxLength <= 32 /\ f[n] \in Nat
  BY LengthsFit DEF FreeBy
<1>1. 0 \in T
  BY <1>0, Doubling
<1>2. ASSUME NEW d \in Nat, d \in T PROVE d + 1 \in T
  <2> SUFFICES ASSUME n + (d + 1) <= MaxLength
               PROVE  f[n + (d + 1)] >= TwoTo(d + 1)
    OBVIOUS
  <2> DEFINE k == n + d
  <2>1. /\ k + 1 \in 1..MaxLength /\ k \in 0..MaxLength /\ (k + 1) - 1 = k
        /\ n + (d + 1) = k + 1 /\ d \in 0..32 /\ d < 32
    BY <1>0
  <2>2. f[k] >= TwoTo(d)
    BY <1>0, <1>2, <2>1
  <2> HIDE DEF k
  <2>3. f[k + 1] = 2 * f[k] + (m[k + 1] % 2)
    BY <2>1 DEF FreeBy
  <2>4. m[k + 1] \in Nat /\ f[k] \in Nat
    <3>1. m \in [0..MaxLength -> Nat] /\ f \in [0..MaxLength -> Nat]
      BY DEF Good, FreeBy
    <3>2. k + 1 \in 0..MaxLength
      BY <1>0, <2>1
    <3> QED
      BY <2>1, <3>1, <3>2
  <2>5. TwoTo(d + 1) = 2 * TwoTo(d) /\ TwoTo(d) \in Nat
    BY <2>1, Doubling
  <2>6. m[k + 1] % 2 \in {0, 1}
    BY <2>4
  <2> QED
    BY <2>1, <2>2, <2>3, <2>4, <2>5, <2>6
<1> HIDE DEF T
<1>3. Nat \subseteq T
  BY <1>1, <1>2, InductiveSet
<1>4. ASSUME NEW d \in 0..(MaxLength - n) PROVE f[n + d] >= TwoTo(d)
  BY <1>0, <1>3 DEF T
<1> QED
  BY <1>4

(* A codeword of this length is the first to be taken.                     *)
LEMMA FirstMarkers ==
  ASSUME NEW L \in 1..MaxLength
  PROVE  /\ Good(MarkersAfter(NoMarkers, L))
         /\ \E f : /\ FreeBy(MarkersAfter(NoMarkers, L), f)
                   /\ f[MaxLength] + TwoTo(MaxLength - L) = TwoTo(MaxLength)
         /\ \A j \in 1..L : MarkersAfter(NoMarkers, L)[j] = 1
         /\ \A j \in (L + 1)..MaxLength :
              MarkersAfter(NoMarkers, L)[j] % 2 = 0
<1> DEFINE m == MarkersAfter(NoMarkers, L)
           odd == {j \in 1..L : NoMarkers[j] % 2 = 1}
           stop == IF odd = {} THEN 0 ELSE Max(odd)
           stepped == [j \in 0..L |->
                         IF j = stop /\ j > 0 THEN 2 * NoMarkers[j - 1]
                         ELSE IF j > stop THEN NoMarkers[j] + 1
                         ELSE NoMarkers[j]]
           hangs(j) == \A k \in (L + 1)..j :
             NoMarkers[k] \div 2 = NoMarkers[k - 1]
           f == [j \in 0..MaxLength |->
                   IF j <= L THEN TwoTo(j) - 1 ELSE TwoTo(j) - TwoTo(j - L)]
<1>0. MaxLength \in 1..32 /\ WordBits \in 1..32 /\ MaxLength <= WordBits
  BY LengthsFit
<1>1. m = [j \in 0..MaxLength |->
             IF j <= L THEN stepped[j]
             ELSE IF hangs(j) THEN (stepped[L] * 2 ^ (j - L)) % 2 ^ WordBits
             ELSE NoMarkers[j]]
  BY Zenon DEF MarkersAfter
<1>2. \A j \in 0..MaxLength : NoMarkers[j] = 0
  BY DEF NoMarkers
<1>3. odd = {}
  BY <1>0, <1>2
<1>4. stop = 0
  BY <1>3
<1> HIDE DEF odd, stop
<1>5. stepped[0] = 0 /\ \A j \in 1..L : stepped[j] = 1
  BY <1>0, <1>2, <1>4
<1>6. \A j \in 0..MaxLength : j > L => hangs(j)
  BY <1>0, <1>2
<1> HIDE DEF stepped, hangs, m
<1>7. \A j \in 0..L : m[j] = IF j = 0 THEN 0 ELSE 1
  BY <1>0, <1>1, <1>5
<1>8. ASSUME NEW j \in (L + 1)..MaxLength
      PROVE  m[j] = TwoTo(j - L) /\ TwoTo(j - L) < TwoTo(j)
  <2>1. j - L \in 1..31 /\ j \in 0..MaxLength /\ j > L /\ j \in 0..32
        /\ WordBits \in 0..32 /\ j \in 0..WordBits /\ j - 1 \in 0..32
        /\ (j - 1) + 1 = j /\ j - L \in 0..(j - 1) /\ L \in 1..L /\ ~(j <= L)
    BY <1>0
  <2>2. TwoTo(j - L) <= TwoTo(j - 1) /\ TwoTo(j) <= TwoTo(WordBits)
    BY <2>1, PowersGrow
  <2>3. TwoTo(j) = 2 * TwoTo(j - 1)
    BY <1>0, <2>1, Doubling
  <2>4. /\ TwoTo(j - L) \in Nat \ {0} /\ TwoTo(j - 1) \in Nat \ {0}
        /\ TwoTo(WordBits) \in Nat \ {0} /\ TwoTo(j) \in Nat
    BY <1>0, <2>1, Doubling
  <2>5. m[j] = (1 * 2 ^ (j - L)) % 2 ^ WordBits
    BY <1>1, <1>5, <1>6, <2>1, Zenon
  <2>6. m[j] = (1 * TwoTo(j - L)) % TwoTo(WordBits)
    BY <2>5 DEF TwoTo
  <2> QED
    BY <2>2, <2>3, <2>4, <2>6
<1>9. Good(m)
  <2>1. ASSUME NEW j \in 0..MaxLength PROVE m[j] \in Nat
    <3>1. CASE j <= L
      BY <1>0, <1>7, <3>1
    <3>2. CASE j > L
      <4>1. j \in (L + 1)..MaxLength /\ j - L \in 0..32
        BY <1>0, <3>2
      <4> QED
        BY <1>8, <4>1, Doubling
    <3> QED
      BY <3>1, <3>2
  <2>2. m \in [0..MaxLength -> Nat]
    BY <1>1, <2>1
  <2>3. ASSUME NEW j \in 1..MaxLength
        PROVE  /\ m[j] % 2 = 1 \/ m[j] = 2 * m[j - 1]
               /\ m[j] < TwoTo(j)
               /\ m[j - 1] > 0 => m[j] <= 2 * m[j - 1]
    <3>1. CASE j <= L
      <4>1. m[j] = 1 /\ m[j - 1] \in {0, 1}
        BY <1>0, <1>7, <3>1
      <4>2. TwoTo(1) <= TwoTo(j) /\ TwoTo(1) = 2 /\ TwoTo(j) \in Nat
        <5>1. j \in 0..32 /\ 1 \in 0..j /\ 0 \in 0..32 /\ 0 < 32 /\ 0 + 1 = 1
          BY <1>0
        <5>2. TwoTo(0 + 1) = 2 * TwoTo(0) /\ TwoTo(0) = 1
          BY <5>1, Doubling
        <5>3. TwoTo(1) <= TwoTo(j) /\ TwoTo(j) \in Nat
          BY <5>1, PowersGrow, Doubling
        <5> QED
          BY <5>1, <5>2, <5>3
      <4> QED
        BY <4>1, <4>2
    <3>2. CASE j > L
      <4>1. j \in (L + 1)..MaxLength /\ j - 1 - L \in 0..31
            /\ (j - 1 - L) + 1 = j - L
        BY <1>0, <3>2
      <4>2. m[j] = TwoTo(j - L) /\ m[j] < TwoTo(j)
        BY <1>8, <4>1
      <4>3. TwoTo(j - L) = 2 * TwoTo(j - 1 - L) /\ TwoTo(j - 1 - L) \in Nat
        BY <1>0, <4>1, Doubling
      <4>4. m[j - 1] = TwoTo(j - 1 - L)
        <5>1. CASE j = L + 1
          <6>1. j - 1 = L /\ j - 1 - L = 0 /\ L # 0
            BY <1>0, <5>1
          <6>2. m[j - 1] = 1
            BY <1>7, <6>1
          <6> QED
            BY <6>1, <6>2, Doubling
        <5>2. CASE j > L + 1
          <6>1. j - 1 \in (L + 1)..MaxLength
            BY <1>0, <5>2
          <6> QED
            BY <1>8, <6>1
        <5> QED
          BY <3>2, <5>1, <5>2
      <4> QED
        BY <4>2, <4>3, <4>4
    <3> QED
      BY <1>0, <3>1, <3>2
  <2> QED
    BY <1>0, <1>7, <2>2, <2>3 DEF Good
<1>10. FreeBy(m, f)
  <2>1. f[0] = 0
    BY <1>0, Doubling
  <2>2. ASSUME NEW j \in 0..MaxLength PROVE f[j] \in Nat
    <3>1. TwoTo(j) \in Nat \ {0}
      BY <1>0, Doubling
    <3>2. CASE j > L
      <4>1. j \in (L + 1)..MaxLength /\ j - L \in 0..32
        BY <1>0, <3>2
      <4>2. TwoTo(j - L) \in Nat /\ TwoTo(j - L) < TwoTo(j)
        BY <1>8, <4>1, Doubling
      <4>3. f[j] = TwoTo(j) - TwoTo(j - L)
        BY <3>2
      <4> QED
        BY <3>1, <4>2, <4>3
    <3> QED
      BY <1>0, <3>1, <3>2
  <2>3. ASSUME NEW j \in 1..MaxLength
        PROVE  f[j] = 2 * f[j - 1] + (m[j] % 2)
    <3>1. TwoTo(j) = 2 * TwoTo(j - 1) /\ TwoTo(j - 1) \in Nat
      <4>1. j - 1 \in 0..31 /\ (j - 1) + 1 = j
        BY <1>0
      <4> QED
        BY <1>0, <4>1, Doubling
    <3>2. CASE j <= L
      <4>1. m[j] = 1 /\ f[j] = TwoTo(j) - 1 /\ f[j - 1] = TwoTo(j - 1) - 1
        BY <1>0, <1>7, <3>2
      <4> QED
        BY <3>1, <4>1
    <3>3. CASE j > L
      <4>1. j \in (L + 1)..MaxLength /\ j - 1 - L \in 0..31
            /\ (j - 1 - L) + 1 = j - L
        BY <1>0, <3>3
      <4>2. TwoTo(j - L) = 2 * TwoTo(j - 1 - L) /\ TwoTo(j - 1 - L) \in Nat
        BY <1>0, <4>1, Doubling
      <4>3. m[j] = TwoTo(j - L)
        BY <1>8, <4>1
      <4>4. m[j] % 2 = 0
        BY <4>2, <4>3
      <4>5. f[j] = TwoTo(j) - TwoTo(j - L)
        BY <3>3
      <4>6. f[j - 1] = TwoTo(j - 1) - TwoTo(j - 1 - L)
        <5>1. CASE j = L + 1
          <6>1. j - 1 <= L /\ j - 1 - L = 0 /\ j - 1 \in 0..MaxLength
            BY <1>0, <5>1
          <6> QED
            BY <6>1, Doubling
        <5>2. CASE j > L + 1
          <6>1. ~(j - 1 <= L) /\ j - 1 \in 0..MaxLength
            BY <1>0, <5>2
          <6> QED
            BY <6>1
        <5> QED
          BY <3>3, <5>1, <5>2
      <4> HIDE DEF f
      <4> QED
        BY <3>1, <4>2, <4>4, <4>5, <4>6
    <3> QED
      BY <1>0, <3>2, <3>3
  <2>4. f \in [0..MaxLength -> Nat]
    BY <2>2
  <2> HIDE DEF f
  <2> QED
    BY <2>1, <2>3, <2>4 DEF FreeBy
<1>11. f[MaxLength] + TwoTo(MaxLength - L) = TwoTo(MaxLength)
  <2>1. /\ TwoTo(MaxLength) \in Nat /\ TwoTo(MaxLength - L) \in Nat
        /\ TwoTo(0) = 1 /\ (MaxLength <= L => MaxLength - L = 0)
    BY <1>0, Doubling
  <2> QED
    BY <1>0, <2>1
<1> HIDE DEF f
<1>12. ASSUME NEW j \in (L + 1)..MaxLength PROVE m[j] % 2 = 0
  <2>1. /\ j - 1 - L \in 0..32 /\ j - 1 - L < 32
        /\ (j - 1 - L) + 1 = j - L
    BY <1>0
  <2>2. TwoTo(j - L) = 2 * TwoTo(j - 1 - L) /\ TwoTo(j - 1 - L) \in Nat
    BY <2>1, Doubling
  <2> QED
    BY <1>8, <2>2
<1>13. \A j \in 1..L : m[j] = 1
  BY <1>7
<1> QED
  BY <1>9, <1>10, <1>11, <1>12, <1>13 DEF m

LEMMA MaxFound ==
  ASSUME NEW n \in Nat, NEW S \in SUBSET (1..n), S # {}
  PROVE  Max(S) \in S /\ \A y \in S : Max(S) >= y
<1> DEFINE T == {k \in Nat : \E x \in S : k = n - x}
<1>1. T # {}
  <2>1. PICK x \in S : TRUE
    OBVIOUS
  <2>2. n - x \in T
    BY <2>1
  <2> QED
    BY <2>2
<1>2. PICK k \in T : \A y \in T : k <= y
  BY <1>1, LeastNumber
<1>3. PICK x \in S : k = n - x
  BY <1>2
<1>4. \A y \in S : x >= y
  <2> TAKE y \in S
  <2>1. n - y \in T
    OBVIOUS
  <2>2. n - x <= n - y
    BY <1>2, <1>3, <2>1
  <2> QED
    BY <2>2
<1> QED
  BY <1>4 DEF Max

(* What a codeword of length L does to the markers, up from stop.          *)
Moved(m, n, L, stop) ==
  /\ stop \in 1..L /\ m[stop] % 2 = 1
  /\ \A j \in (stop + 1)..L : m[j] % 2 = 0
  /\ n \in [0..MaxLength -> Nat]
  /\ \A j \in 0..(stop - 1) : n[j] = m[j]
  /\ n[stop] = 2 * m[stop - 1]
  /\ \A j \in (stop + 1)..L : n[j] = m[j] + 1
  /\ \A j \in (L + 1)..MaxLength :
       \/ /\ m[j] = 2 * m[j - 1] /\ n[j] = 2 * n[j - 1] /\ n[j] < TwoTo(j)
       \/ /\ m[j - 1] > 0 /\ (n[j - 1] = 0 \/ n[j - 1] >= m[j - 1])
          /\ m[j] % 2 = 1 /\ n[j] = m[j]
       \/ n[j] = m[j] /\ n[j - 1] = m[j - 1]

LEMMA OddBelow ==
  ASSUME NEW m, Good(m), NEW L \in 1..MaxLength, m[L] > 0
  PROVE  {j \in 1..L : m[j] % 2 = 1} # {}
<1> SUFFICES ASSUME \A j \in 1..L : m[j] % 2 # 1 PROVE FALSE
  OBVIOUS
<1> DEFINE T == {k \in Nat : k <= L => m[k] = 0}
<1>0. MaxLength \in Nat
  BY LengthsFit
<1>1. 0 \in T
  BY DEF Good
<1>2. ASSUME NEW k \in Nat, k \in T PROVE k + 1 \in T
  <2> SUFFICES ASSUME k + 1 <= L PROVE m[k + 1] = 0
    OBVIOUS
  <2>1. k + 1 \in 1..MaxLength /\ k + 1 \in 1..L /\ (k + 1) - 1 = k /\ m[k] = 0
    BY <1>0, <1>2
  <2>2. m[k + 1] % 2 = 1 \/ m[k + 1] = 2 * m[k]
    BY <2>1 DEF Good
  <2> QED
    BY <2>1, <2>2
<1> HIDE DEF T
<1>3. L \in T
  BY <1>1, <1>2, InductiveSet
<1> QED
  BY <1>3 DEF T

LEMMA MarkersMove ==
  ASSUME NEW m, Good(m), NEW L \in 1..MaxLength, m[L] > 0
  PROVE  \E stop : Moved(m, MarkersAfter(m, L), L, stop)
<1> DEFINE n == MarkersAfter(m, L)
           odd == {j \in 1..L : m[j] % 2 = 1}
           stop == IF odd = {} THEN 0 ELSE Max(odd)
           stepped == [j \in 0..L |->
                         IF j = stop /\ j > 0 THEN 2 * m[j - 1]
                         ELSE IF j > stop THEN m[j] + 1 ELSE m[j]]
           hangs(j) == \A k \in (L + 1)..j : m[k] \div 2 = m[k - 1]
           x == stepped[L]
<1>0. MaxLength \in 1..32 /\ WordBits \in 1..32 /\ MaxLength <= WordBits
  BY LengthsFit
<1>1. n = [j \in 0..MaxLength |->
             IF j <= L THEN stepped[j]
             ELSE IF hangs(j) THEN (stepped[L] * 2 ^ (j - L)) % 2 ^ WordBits
             ELSE m[j]]
  BY Zenon DEF MarkersAfter
<1>2. stop \in odd /\ \A j \in odd : stop >= j
  <2>1. odd # {} /\ odd \in SUBSET (1..L) /\ L \in Nat
    BY OddBelow
  <2> QED
    BY <2>1, MaxFound
<1>3. stop \in 1..L /\ m[stop] % 2 = 1
  BY <1>2
<1>4. \A j \in 1..MaxLength : m[j] \in Nat /\ m[j - 1] \in Nat
  BY <1>0 DEF Good
<1>5. \A j \in (stop + 1)..L : m[j] % 2 = 0
  <2> TAKE j \in (stop + 1)..L
  <2>1. j \in 1..L /\ ~(stop >= j) /\ j \in 1..MaxLength
    BY <1>0, <1>3
  <2>2. m[j] % 2 # 1
    BY <1>2, <2>1
  <2> QED
    BY <1>4, <2>1, <2>2
<1> HIDE DEF odd, stop
<1>6. /\ \A j \in 0..(stop - 1) : n[j] = m[j]
      /\ n[stop] = 2 * m[stop - 1]
      /\ \A j \in (stop + 1)..L : n[j] = m[j] + 1
      /\ n[L] = x
  BY <1>0, <1>1, <1>3
<1>7. x \in Nat /\ x < TwoTo(L) /\ (x = 0 \/ x >= m[L])
  <2>1. /\ m[L] \in Nat /\ m[L - 1] \in Nat /\ m[L] < TwoTo(L)
        /\ m[L] % 2 = 1 \/ m[L] = 2 * m[L - 1]
        /\ m[L - 1] > 0 => m[L] <= 2 * m[L - 1]
    BY <1>4 DEF Good
  <2>2. m[L - 1] < TwoTo(L - 1) /\ TwoTo(L) = 2 * TwoTo(L - 1)
        /\ TwoTo(L - 1) \in Nat
    <3>1. L - 1 \in 0..31 /\ (L - 1) + 1 = L
      BY <1>0
    <3>2. L \in 1..32 /\ L - 1 \in 0..32 /\ L - 1 < 32
      BY <1>0
    <3>3. TwoTo(L - 1) \in Nat \ {0}
      BY <3>2, Doubling
    <3>4. TwoTo((L - 1) + 1) = 2 * TwoTo(L - 1)
      BY <3>2, Doubling
    <3>5. m[L - 1] < TwoTo(L - 1)
      <4>1. CASE L = 1
        <5>1. m[L - 1] = 0
          BY <4>1 DEF Good
        <5> QED
          BY <3>3, <5>1
      <4>2. CASE L # 1
        <5>1. L - 1 \in 1..MaxLength
          BY <1>0, <4>2
        <5> QED
          BY <5>1 DEF Good
      <4> QED
        BY <4>1, <4>2
    <3> QED
      BY <3>1, <3>3, <3>4, <3>5
  <2>3. CASE stop = L
    <3>1. x = 2 * m[L - 1]
      BY <1>0, <1>3, <2>3
    <3> HIDE DEF x
    <3> QED
      BY <2>1, <2>2, <3>1
  <2>4. CASE stop # L
    <3>1. x = m[L] + 1 /\ L \in (stop + 1)..L
      BY <1>0, <1>3, <2>4
    <3>2. m[L] % 2 = 0
      BY <1>5, <3>1
    <3>3. m[L] = 2 * m[L - 1]
      BY <2>1, <3>2
    <3> HIDE DEF x
    <3> QED
      BY <2>1, <2>2, <3>1, <3>3
  <2> QED
    BY <2>3, <2>4
<1>8. ASSUME NEW j \in (L + 1)..MaxLength
      PROVE  /\ hangs(j) => n[j] = (x * TwoTo(j - L)) % TwoTo(WordBits)
             /\ ~hangs(j) => n[j] = m[j]
  <2>1. j \in 0..MaxLength /\ ~(j <= L)
    BY <1>0
  <2>2. n[j] = IF hangs(j) THEN (x * 2 ^ (j - L)) % 2 ^ WordBits ELSE m[j]
    BY <1>1, <2>1, Zenon
  <2> HIDE DEF x, hangs
  <2> QED
    BY <2>2 DEF TwoTo
<1> HIDE DEF stepped, x, n
(* The lengths that hang from the codeword.                                *)
<1> DEFINE Hung(d) ==
             LET j == L + d
             IN  /\ m[j] > 0 /\ (d > 0 => m[j] = 2 * m[j - 1])
                 /\ n[j] = x * TwoTo(d) /\ n[j] < TwoTo(j)
                 /\ n[j] = 0 \/ n[j] >= m[j]
           T == {d \in Nat : L + d <= MaxLength /\ hangs(L + d) => Hung(d)}
<1>9. 0 \in T
  <2>1. L + 0 = L /\ TwoTo(0) = 1 /\ x * 1 = x
    BY <1>0, <1>7, Doubling
  <2> QED
    BY <1>6, <1>7, <2>1
<1>10. ASSUME NEW d \in Nat, d \in T PROVE d + 1 \in T
  <2> DEFINE j == L + d
  <2> SUFFICES ASSUME L + (d + 1) <= MaxLength, hangs(L + (d + 1))
               PROVE  Hung(d + 1)
    OBVIOUS
  <2>1. /\ L + (d + 1) = j + 1 /\ (j + 1) - 1 = j /\ j \in 1..MaxLength
        /\ j + 1 \in 1..MaxLength /\ d \in 0..31 /\ j \in 0..31 /\ d + 1 \in 0..32
        /\ j + 1 \in (L + 1)..MaxLength /\ (j + 1) - L = d + 1 /\ j >= L
        /\ j + 1 \in 0..WordBits /\ WordBits \in 0..32
    BY <1>0
  <2>2. hangs(j) /\ m[j + 1] \div 2 = m[j]
    BY <2>1
  <2>3. Hung(d)
    BY <1>0, <1>10, <2>1, <2>2
  <2> HIDE DEF j
  <2>4. m[j] > 0 /\ n[j] = x * TwoTo(d) /\ n[j] < TwoTo(j)
        /\ (n[j] = 0 \/ n[j] >= m[j])
    BY <2>3 DEF j
  <2>5. /\ m[j + 1] \in Nat /\ m[j] \in Nat
        /\ m[j + 1] % 2 = 1 \/ m[j + 1] = 2 * m[j]
        /\ m[j + 1] <= 2 * m[j]
    BY <1>4, <2>1, <2>4 DEF Good
  <2>6. m[j + 1] = 2 * m[j]
    BY <2>2, <2>5
  <2>7. /\ TwoTo(d + 1) = 2 * TwoTo(d) /\ TwoTo(j + 1) = 2 * TwoTo(j)
        /\ TwoTo(d) \in Nat /\ TwoTo(j) \in Nat /\ TwoTo(WordBits) \in Nat \ {0}
    <3>1. d \in 0..32 /\ d < 32 /\ j \in 0..32 /\ j < 32
      BY <2>1
    <3>2. TwoTo(d + 1) = 2 * TwoTo(d)
      BY <3>1, Doubling
    <3>3. TwoTo(j + 1) = 2 * TwoTo(j)
      BY <3>1, Doubling
    <3>4. TwoTo(d) \in Nat
      BY <3>1, Doubling
    <3>5. TwoTo(j) \in Nat
      BY <3>1, Doubling
    <3>6. TwoTo(WordBits) \in Nat \ {0}
      BY <2>1, Doubling
    <3> QED
      BY <3>2, <3>3, <3>4, <3>5, <3>6
  <2>8. TwoTo(j + 1) <= TwoTo(WordBits)
    BY <2>1, PowersGrow
  <2>9. x * TwoTo(d + 1) = 2 * n[j] /\ n[j] \in Nat
    BY <1>7, <2>4, <2>7
  <2>10. 2 * n[j] < TwoTo(j + 1)
    BY <2>4, <2>7, <2>9
  <2>11. n[j + 1] = (x * TwoTo(d + 1)) % TwoTo(WordBits)
    BY <1>8, <2>1
  <2>12. n[j + 1] = 2 * n[j]
    BY <2>7, <2>8, <2>9, <2>10, <2>11
  <2>13. n[j + 1] = 0 \/ n[j + 1] >= m[j + 1]
    BY <2>4, <2>5, <2>6, <2>9, <2>12
  <2>14. m[j + 1] > 0
    BY <2>4, <2>5, <2>6
  <2> QED
    BY <2>1, <2>6, <2>9, <2>10, <2>12, <2>13, <2>14
<1> HIDE DEF T, Hung
<1>11. ASSUME NEW d \in Nat, L + d <= MaxLength, hangs(L + d) PROVE Hung(d)
  BY <1>9, <1>10, <1>11, InductiveSet DEF T
<1>12. ASSUME NEW j \in (L + 1)..MaxLength
       PROVE  \/ /\ m[j] = 2 * m[j - 1] /\ n[j] = 2 * n[j - 1] /\ n[j] < TwoTo(j)
              \/ /\ m[j - 1] > 0 /\ (n[j - 1] = 0 \/ n[j - 1] >= m[j - 1])
                 /\ m[j] % 2 = 1 /\ n[j] = m[j]
              \/ n[j] = m[j] /\ n[j - 1] = m[j - 1]
  <2> DEFINE d == j - 1 - L
  <2>1. /\ d \in Nat /\ L + d = j - 1 /\ L + (d + 1) = j /\ d + 1 > 0 /\ d \in 0..31
        /\ L + d <= MaxLength /\ L + (d + 1) <= MaxLength /\ j \in 1..MaxLength
        /\ d + 1 \in Nat
    BY <1>0
  <2> HIDE DEF d
  <2>2. CASE hangs(j)
    <3>1. hangs(j - 1)
      BY <2>2
    <3>2. Hung(d) /\ Hung(d + 1)
      BY <1>11, <2>1, <2>2, <3>1
    <3>3. /\ n[j - 1] = x * TwoTo(d) /\ n[j] = x * TwoTo(d + 1)
          /\ n[j] < TwoTo(j) /\ m[j] = 2 * m[j - 1]
      BY <2>1, <3>2 DEF Hung
    <3>4. TwoTo(d + 1) = 2 * TwoTo(d) /\ TwoTo(d) \in Nat
      BY <2>1, Doubling
    <3>5. n[j] = 2 * n[j - 1]
      BY <1>7, <3>3, <3>4
    <3> QED
      BY <3>3, <3>5
  <2>3. CASE ~hangs(j) /\ hangs(j - 1)
    <3>1. Hung(d)
      BY <1>11, <2>1, <2>3
    <3>2. m[j - 1] > 0 /\ (n[j - 1] = 0 \/ n[j - 1] >= m[j - 1])
      BY <2>1, <3>1 DEF Hung
    <3>3. m[j] \div 2 # m[j - 1]
      <4>1. \A k \in (L + 1)..j : k = j \/ k \in (L + 1)..(j - 1)
        BY <1>0
      <4> QED
        BY <2>3, <4>1
    <3>4. m[j] \in Nat /\ m[j - 1] \in Nat /\ (m[j] % 2 = 1 \/ m[j] = 2 * m[j - 1])
      BY <1>4, <2>1 DEF Good
    <3>5. m[j] % 2 = 1
      BY <3>3, <3>4
    <3>6. n[j] = m[j]
      BY <1>8, <2>3
    <3> QED
      BY <3>2, <3>5, <3>6
  <2>4. CASE ~hangs(j) /\ ~hangs(j - 1)
    <3>1. j - 1 \in (L + 1)..MaxLength
      BY <1>0, <2>4
    <3> QED
      BY <1>8, <2>4, <3>1
  <2> QED
    BY <2>2, <2>3, <2>4
<1>13. n \in [0..MaxLength -> Nat]
  <2>1. ASSUME NEW j \in 0..MaxLength PROVE n[j] \in Nat
    <3>1. CASE j <= L
      <4>1. \/ j \in 0..(stop - 1) /\ m[j] \in Nat
            \/ j = stop /\ m[stop - 1] \in Nat
            \/ j \in (stop + 1)..L /\ m[j] \in Nat
        BY <1>0, <1>3, <3>1 DEF Good
      <4> QED
        BY <1>6, <4>1
    <3>2. CASE j > L /\ hangs(j)
      <4>1. j - L \in Nat /\ L + (j - L) = j /\ j - L \in 0..32
        BY <1>0, <3>2
      <4>2. n[j] = x * TwoTo(j - L)
        BY <1>11, <3>2, <4>1 DEF Hung
      <4> QED
        BY <1>7, <4>1, <4>2, Doubling
    <3>3. CASE j > L /\ ~hangs(j)
      <4>1. j \in (L + 1)..MaxLength /\ m[j] \in Nat
        BY <1>0, <3>3 DEF Good
      <4> QED
        BY <1>8, <3>3, <4>1
    <3> QED
      BY <1>0, <3>1, <3>2, <3>3
  <2> QED
    BY <1>1, <2>1 DEF n
<1> QED
  BY <1>3, <1>5, <1>6, <1>12, <1>13 DEF Moved, n

LEMMA MarkerFits ==
  ASSUME NEW m, Good(m), NEW j \in 0..MaxLength
  PROVE  m[j] \in Nat /\ m[j] < TwoTo(j)
<1>1. CASE j = 0
  <2>1. 0 \in 0..32
    OBVIOUS
  <2>2. TwoTo(0) = 1
    BY <2>1, Doubling
  <2> QED
    BY <1>1, <2>2 DEF Good
<1>2. CASE j # 0
  <2>1. j \in 1..MaxLength
    BY <1>2, LengthsFit
  <2> QED
    BY <2>1 DEF Good
<1> QED
  BY <1>1, <1>2

LEMMA MovedGood ==
  ASSUME NEW m, Good(m), NEW L \in 1..MaxLength, NEW n, NEW stop,
         Moved(m, n, L, stop)
  PROVE  Good(n)
<1>0. MaxLength \in 1..32 /\ stop \in 1..L /\ n \in [0..MaxLength -> Nat]
  BY LengthsFit DEF Moved
<1>1. n[0] = 0
  BY <1>0 DEF Moved, Good
<1>2. ASSUME NEW j \in 1..MaxLength
      PROVE  /\ n[j] % 2 = 1 \/ n[j] = 2 * n[j - 1]
             /\ n[j] < TwoTo(j)
             /\ n[j - 1] > 0 => n[j] <= 2 * n[j - 1]
  <2>1. /\ m[j] \in Nat /\ m[j - 1] \in Nat /\ n[j] \in Nat /\ n[j - 1] \in Nat
        /\ m[j] % 2 = 1 \/ m[j] = 2 * m[j - 1]
        /\ m[j] < TwoTo(j)
        /\ m[j - 1] > 0 => m[j] <= 2 * m[j - 1]
    BY <1>0 DEF Good
  <2>2. m[j - 1] < TwoTo(j - 1) /\ TwoTo(j) = 2 * TwoTo(j - 1)
        /\ TwoTo(j - 1) \in Nat
    <3>1. /\ j - 1 \in 0..32 /\ j - 1 < 32 /\ (j - 1) + 1 = j
          /\ j - 1 \in 0..MaxLength
      BY <1>0
    <3>2. TwoTo((j - 1) + 1) = 2 * TwoTo(j - 1)
      BY <3>1, Doubling
    <3>3. TwoTo(j - 1) \in Nat
      BY <3>1, Doubling
    <3> QED
      BY <3>1, <3>2, <3>3, MarkerFits
  <2>3. CASE j < stop
    <3>1. n[j] = m[j] /\ n[j - 1] = m[j - 1]
      BY <1>0, <2>3 DEF Moved
    <3> QED
      BY <2>1, <3>1
  <2>4. CASE j = stop
    <3>1. n[j] = 2 * m[j - 1] /\ n[j - 1] = m[j - 1]
      BY <1>0, <2>4 DEF Moved
    <3> QED
      BY <2>1, <2>2, <3>1
  <2>5. CASE j > stop /\ j <= L
    <3>1. n[j] = m[j] + 1 /\ m[j] % 2 = 0
      BY <1>0, <2>5 DEF Moved
    <3>2. m[j] = 2 * m[j - 1]
      BY <2>1, <3>1
    <3>3. n[j - 1] > 0 => 2 * m[j - 1] + 1 <= 2 * n[j - 1]
      <4>1. CASE j - 1 = stop
        <5>1. n[j - 1] = 2 * m[j - 2] /\ m[j - 1] % 2 = 1
          <6>1. stop - 1 = j - 2
            BY <1>0, <4>1
          <6> QED
            BY <4>1, <6>1 DEF Moved
        <5>2. /\ j - 1 \in 1..MaxLength /\ (j - 1) - 1 = j - 2
              /\ j - 2 \in 0..MaxLength
          BY <1>0, <2>5, <4>1
        <5>3. m[j - 2] \in Nat /\ (m[j - 2] > 0 => m[j - 1] <= 2 * m[j - 2])
          BY <5>2 DEF Good
        <5> QED
          BY <2>1, <5>1, <5>3
      <4>2. CASE j - 1 # stop
        <5>1. n[j - 1] = m[j - 1] + 1
          BY <1>0, <2>5, <4>2 DEF Moved
        <5> QED
          BY <2>1, <5>1
      <4> QED
        BY <4>1, <4>2
    <3>4. n[j] % 2 = 1
      BY <2>1, <3>1, <3>2
    <3>5. n[j] < TwoTo(j)
      BY <2>1, <2>2, <3>1, <3>2
    <3> QED
      BY <2>1, <3>1, <3>2, <3>3, <3>4, <3>5
  <2>6. CASE j > L
    <3>1. \/ /\ m[j] = 2 * m[j - 1] /\ n[j] = 2 * n[j - 1] /\ n[j] < TwoTo(j)
          \/ /\ m[j - 1] > 0 /\ (n[j - 1] = 0 \/ n[j - 1] >= m[j - 1])
             /\ m[j] % 2 = 1 /\ n[j] = m[j]
          \/ n[j] = m[j] /\ n[j - 1] = m[j - 1]
      <4>1. j \in (L + 1)..MaxLength
        BY <1>0, <2>6
      <4> QED
        BY <4>1 DEF Moved
    <3> QED
      BY <2>1, <3>1
  <2> QED
    BY <1>0, <2>3, <2>4, <2>5, <2>6
<1> QED
  BY <1>0, <1>1, <1>2 DEF Good

(* A codeword of length L takes what it stands for of the words that are   *)
(* free.                                                                   *)
LEMMA MovedFree ==
  ASSUME NEW m, NEW f, Good(m), FreeBy(m, f), NEW L \in 1..MaxLength,
         m[L] > 0, NEW n, NEW stop, Moved(m, n, L, stop)
  PROVE  \E g : FreeBy(n, g) /\ g[MaxLength] + TwoTo(MaxLength - L) = f[MaxLength]
<1> DEFINE g == [j \in 0..MaxLength |->
                   IF j < stop THEN f[j]
                   ELSE IF j <= L THEN f[j] - 1 ELSE f[j] - TwoTo(j - L)]
<1>0. MaxLength \in 1..32 /\ stop \in 1..L /\ n \in [0..MaxLength -> Nat]
  BY LengthsFit DEF Moved
<1>1. /\ \A j \in 0..MaxLength : j < stop => g[j] = f[j]
      /\ \A j \in 0..MaxLength : j >= stop /\ j <= L => g[j] = f[j] - 1
      /\ \A j \in 0..MaxLength : j > L => g[j] = f[j] - TwoTo(j - L)
  BY <1>0
<1>2. DOMAIN g = 0..MaxLength /\ g = [j \in 0..MaxLength |-> g[j]]
  OBVIOUS
<1> HIDE DEF g
<1>3. \A j \in 0..MaxLength : f[j] \in Nat /\ m[j] \in Nat /\ n[j] \in Nat
  BY <1>0 DEF FreeBy, Good
<1>4. \A j \in 1..MaxLength : f[j] = 2 * f[j - 1] + (m[j] % 2)
  BY DEF FreeBy
<1>5. ASSUME NEW j \in 0..MaxLength PROVE g[j] \in Nat
  <2>1. CASE j < stop
    BY <1>1, <1>3, <2>1
  <2>2. CASE j >= stop /\ j <= L
    <3>1. f[stop] > 0
      <4>1. stop \in 1..MaxLength /\ stop - 1 \in 0..MaxLength
        BY <1>0
      <4>2. m[stop] % 2 = 1
        BY DEF Moved
      <4> QED
        BY <1>3, <1>4, <4>1, <4>2
    <3>2. /\ stop \in 0..MaxLength /\ j - stop \in 0..(MaxLength - stop)
          /\ stop + (j - stop) = j /\ j - stop \in 0..32
      BY <1>0, <2>2
    <3>3. f[j] >= TwoTo(j - stop)
      BY <3>1, <3>2, FreeAbove
    <3>4. TwoTo(j - stop) \in Nat \ {0}
      BY <3>2, Doubling
    <3>5. g[j] = f[j] - 1
      BY <1>1, <2>2
    <3> QED
      BY <1>3, <3>3, <3>4, <3>5
  <2>3. CASE j > L
    <3>1. /\ L \in 0..MaxLength /\ j - L \in 0..(MaxLength - L)
          /\ L + (j - L) = j /\ j - L \in 0..32
      BY <1>0, <2>3
    <3>2. f[L] > 0
      BY <1>3, <3>1, FreeMarked
    <3>3. f[j] >= TwoTo(j - L)
      BY <3>1, <3>2, FreeAbove
    <3>4. TwoTo(j - L) \in Nat \ {0}
      BY <3>1, Doubling
    <3>5. g[j] = f[j] - TwoTo(j - L)
      BY <1>1, <2>3
    <3> QED
      BY <1>3, <3>3, <3>4, <3>5
  <2> QED
    BY <1>0, <2>1, <2>2, <2>3
<1>6. g[0] = 0
  <2>1. 0 \in 0..MaxLength /\ 0 < stop /\ f[0] = 0
    BY <1>0 DEF FreeBy
  <2> QED
    BY <1>1, <2>1
<1>7. ASSUME NEW j \in 1..MaxLength
      PROVE  g[j] = 2 * g[j - 1] + (n[j] % 2)
  <2>1. /\ f[j] \in Nat /\ f[j - 1] \in Nat /\ m[j] \in Nat /\ n[j] \in Nat
        /\ m[j - 1] \in Nat /\ n[j - 1] \in Nat
        /\ f[j] = 2 * f[j - 1] + (m[j] % 2)
        /\ j \in 0..MaxLength /\ j - 1 \in 0..MaxLength
    BY <1>0, <1>3, <1>4
  <2>2. CASE j < stop
    <3>1. n[j] = m[j]
      <4>1. \A k \in 0..(stop - 1) : n[k] = m[k]
        BY DEF Moved
      <4>2. j \in 0..(stop - 1)
        BY <1>0, <2>1, <2>2
      <4> QED
        BY <4>1, <4>2
    <3>2. j - 1 < stop
      BY <1>0, <2>1, <2>2
    <3>3. g[j] = f[j] /\ g[j - 1] = f[j - 1]
      BY <1>1, <2>1, <2>2, <3>2
    <3> QED
      BY <2>1, <3>1, <3>3
  <2>3. CASE j = stop
    <3>1. n[j] = 2 * m[j - 1] /\ m[j] % 2 = 1
      BY <2>3 DEF Moved
    <3>2. g[j] = f[j] - 1
      <4>1. j >= stop /\ j <= L
        BY <1>0, <2>3
      <4> QED
        BY <1>1, <2>1, <4>1
    <3>3. g[j - 1] = f[j - 1]
      BY <1>0, <1>1, <2>1, <2>3
    <3>4. n[j] % 2 = 0
      BY <2>1, <3>1
    <3> QED
      BY <2>1, <3>1, <3>2, <3>3, <3>4
  <2>4. CASE j > stop /\ j <= L
    <3>1. n[j] = m[j] + 1 /\ m[j] % 2 = 0
      BY <1>0, <2>4 DEF Moved
    <3>2. g[j] = f[j] - 1
      <4>1. j >= stop /\ j <= L
        BY <1>0, <2>4
      <4> QED
        BY <1>1, <2>1, <4>1
    <3>3. g[j - 1] = f[j - 1] - 1
      <4>1. j - 1 >= stop /\ j - 1 <= L
        BY <1>0, <2>4
      <4> QED
        BY <1>1, <2>1, <4>1
    <3>4. n[j] % 2 = 1
      BY <2>1, <3>1
    <3> QED
      BY <2>1, <3>1, <3>2, <3>3, <3>4
  <2>5. CASE j > L
    <3>1. n[j] % 2 = m[j] % 2
      <4>1. \/ /\ m[j] = 2 * m[j - 1] /\ n[j] = 2 * n[j - 1]
            \/ n[j] = m[j]
        <5>1. j \in (L + 1)..MaxLength
          BY <1>0, <2>5
        <5> QED
          BY <5>1 DEF Moved
      <4> QED
        BY <2>1, <4>1
    <3>2. /\ j - 1 - L \in 0..32 /\ j - 1 - L < 32 /\ (j - 1 - L) + 1 = j - L
      BY <1>0, <2>5
    <3>3. TwoTo((j - 1 - L) + 1) = 2 * TwoTo(j - 1 - L)
      BY <3>2, Doubling
    <3>4. TwoTo(j - 1 - L) \in Nat
      BY <3>2, Doubling
    <3>5. g[j] = f[j] - TwoTo(j - L)
      BY <1>1, <2>1, <2>5
    <3>6. g[j - 1] = f[j - 1] - TwoTo(j - 1 - L)
      <4>1. CASE j - 1 = L
        <5>1. g[j - 1] = f[j - 1] - 1
          BY <1>0, <1>1, <2>1, <4>1
        <5>2. j - 1 - L = 0 /\ 0 \in 0..32
          BY <1>0, <4>1
        <5>3. TwoTo(0) = 1
          BY <5>2, Doubling
        <5> QED
          BY <5>1, <5>2, <5>3
      <4>2. CASE j - 1 # L
        <5>1. j - 1 > L
          BY <1>0, <2>5, <4>2
        <5> QED
          BY <1>1, <2>1, <5>1
      <4> QED
        BY <4>1, <4>2
    <3> QED
      BY <2>1, <3>1, <3>2, <3>3, <3>4, <3>5, <3>6
  <2> QED
    BY <1>0, <2>2, <2>3, <2>4, <2>5
<1>8. FreeBy(n, g)
  <2>1. g \in [0..MaxLength -> Nat]
    BY <1>2, <1>5
  <2> QED
    BY <1>6, <1>7, <2>1 DEF FreeBy
<1>9. g[MaxLength] + TwoTo(MaxLength - L) = f[MaxLength]
  <2>1. MaxLength \in 0..MaxLength /\ MaxLength - L \in 0..32 /\ 0 \in 0..32
    BY <1>0
  <2>2. TwoTo(MaxLength - L) \in Nat
    BY <2>1, Doubling
  <2>3. TwoTo(0) = 1
    BY <2>1, Doubling
  <2>4. CASE L = MaxLength
    <3>1. g[MaxLength] = f[MaxLength] - 1 /\ MaxLength - L = 0
      BY <1>0, <1>1, <2>1, <2>4
    <3> QED
      BY <1>3, <2>1, <2>3, <3>1
  <2>5. CASE L # MaxLength
    <3>1. g[MaxLength] = f[MaxLength] - TwoTo(MaxLength - L)
      BY <1>0, <1>1, <2>1, <2>5
    <3> QED
      BY <1>3, <2>1, <2>2, <3>1
  <2> QED
    BY <2>4, <2>5
<1> QED
  BY <1>8, <1>9

-----------------------------------------------------------------------------
(* The measure of a list grows by what each word takes.                    *)

Takes(len) == IF len > 0 THEN TwoTo(MaxLength - len) ELSE 0

Lengths == 0..MaxLength

(* The sums that Measure is the last of.                                   *)
Sums(list, n, p) ==
  /\ p \in [0..n -> Nat] /\ p[0] = 0
  /\ \A i \in 1..n : p[i] = p[i - 1] + Takes(list[i])

LEMMA TakesSome ==
  ASSUME NEW len \in Lengths
  PROVE  Takes(len) \in Nat /\ (len > 0 => Takes(len) > 0)
<1>1. MaxLength - len \in 0..32
  BY LengthsFit DEF Lengths
<1>2. TwoTo(MaxLength - len) \in Nat \ {0}
  BY <1>1, Doubling
<1> QED
  BY <1>2 DEF Takes

LEMMA SumsExist ==
  ASSUME NEW list \in Seq(Lengths), NEW n \in 0..Len(list)
  PROVE  \E p : Sums(list, n, p)
<1> DEFINE T == {k \in Nat : k <= Len(list) => \E p : Sums(list, k, p)}
<1>1. 0 \in T
  <2>1. Sums(list, 0, [i \in 0..0 |-> 0])
    BY DEF Sums
  <2> QED
    BY <2>1
<1>2. ASSUME NEW k \in Nat, k \in T PROVE k + 1 \in T
  <2> SUFFICES ASSUME k + 1 <= Len(list)
               PROVE  \E p : Sums(list, k + 1, p)
    OBVIOUS
  <2>1. PICK p : Sums(list, k, p)
    BY <1>2
  <2>2. p \in [0..k -> Nat] /\ p[k] \in Nat
    BY <2>1 DEF Sums
  <2>3. k + 1 \in 1..Len(list) /\ list[k + 1] \in Lengths
    OBVIOUS
  <2> DEFINE x == p[k] + Takes(list[k + 1])
             h == [i \in 0..(k + 1) |-> IF i <= k THEN p[i] ELSE x]
  <2>4. x \in Nat
    BY <2>2, <2>3, TakesSome
  <2>5. x = p[k] + Takes(list[k + 1])
    OBVIOUS
  <2> HIDE DEF x
  <2>6. h \in [0..(k + 1) -> Nat]
    BY <2>2, <2>4
  <2>7. h[0] = 0 /\ h[k + 1] = x /\ h[k] = p[k]
    BY <2>1 DEF Sums
  <2>8. \A i \in 1..k : h[i] = p[i] /\ h[i - 1] = p[i - 1]
    OBVIOUS
  <2> HIDE DEF h
  <2>9. ASSUME NEW i \in 1..(k + 1)
        PROVE  h[i] = h[i - 1] + Takes(list[i])
    <3>1. CASE i \in 1..k
      <4>1. p[i] = p[i - 1] + Takes(list[i])
        BY <2>1, <3>1 DEF Sums
      <4> QED
        BY <2>8, <3>1, <4>1
    <3>2. CASE i = k + 1
      <4>1. i - 1 = k
        BY <3>2
      <4> QED
        BY <2>5, <2>7, <3>2, <4>1
    <3> QED
      BY <3>1, <3>2
  <2>10. Sums(list, k + 1, h)
    BY <2>6, <2>7, <2>9 DEF Sums
  <2> QED
    BY <2>10
<1> HIDE DEF T
<1>3. n \in T /\ n <= Len(list)
  BY <1>1, <1>2, InductiveSet
<1> QED
  BY <1>3 DEF T

LEMMA MeasureEquation ==
  ASSUME NEW list \in Seq(Lengths), NEW n \in 0..Len(list)
  PROVE  \E p : Sums(list, n, p) /\ p[n] = Measure(list, n)
<1> DEFINE Eq(p) == p = [k \in 0..n |->
                          IF k = 0 THEN 0
                          ELSE p[k - 1] + (IF list[k] > 0
                                           THEN 2 ^ (MaxLength - list[k])
                                           ELSE 0)]
           q == CHOOSE p : Eq(p)
<1>1. PICK g : Sums(list, n, g)
  BY SumsExist
<1>2. Eq(g)
  <2>1. \A k \in 0..n : k = 0 \/ k \in 1..n
    OBVIOUS
  <2>2. g = [k \in 0..n |-> g[k]]
    BY <1>1 DEF Sums
  <2> QED
    BY <1>1, <2>1, <2>2, Zenon DEF Sums, Takes, TwoTo
<1>3. Eq(q)
  BY <1>2
<1>4. Measure(list, n) = q[n]
  BY DEF Measure
<1> HIDE DEF q
<1>5. q[0] = 0
  BY <1>3
<1>6. \A k \in 1..n : q[k] = q[k - 1] + Takes(list[k])
  <2> TAKE k \in 1..n
  <2>1. k \in 0..n /\ k # 0
    OBVIOUS
  <2>2. q[k] = q[k - 1] + (IF list[k] > 0 THEN 2 ^ (MaxLength - list[k])
                                          ELSE 0)
    BY <1>3, <2>1, Zenon
  <2> QED
    BY <2>2, Zenon DEF Takes, TwoTo
<1>7. \A k \in Nat : k <= n => q[k] \in Nat
  <2> DEFINE T == {k \in Nat : k <= n => q[k] \in Nat}
  <2>1. 0 \in T
    BY <1>5
  <2>2. ASSUME NEW k \in Nat, k \in T PROVE k + 1 \in T
    <3> SUFFICES ASSUME k + 1 <= n PROVE q[k + 1] \in Nat
      OBVIOUS
    <3>1. k + 1 \in 1..n /\ (k + 1) - 1 = k /\ list[k + 1] \in Lengths
      OBVIOUS
    <3>2. q[k + 1] = q[k] + Takes(list[k + 1])
      BY <1>6, <3>1
    <3> QED
      BY <2>2, <3>1, <3>2, TakesSome
  <2> HIDE DEF T
  <2>3. Nat \subseteq T
    BY <2>1, <2>2, InductiveSet
  <2> QED
    BY <2>3 DEF T
<1>8. q \in [0..n -> Nat]
  BY <1>3, <1>7
<1> QED
  BY <1>4, <1>5, <1>6, <1>8 DEF Sums

LEMMA SumsAgree ==
  ASSUME NEW list \in Seq(Lengths), NEW n \in 0..Len(list), NEW k \in 0..n,
         NEW p, NEW q, Sums(list, n, p), Sums(list, k, q)
  PROVE  p[k] = q[k]
<1> DEFINE T == {i \in Nat : i <= k => p[i] = q[i]}
<1>1. 0 \in T
  BY DEF Sums
<1>2. ASSUME NEW i \in Nat, i \in T PROVE i + 1 \in T
  <2> SUFFICES ASSUME i + 1 <= k PROVE p[i + 1] = q[i + 1]
    OBVIOUS
  <2>1. i + 1 \in 1..k /\ i + 1 \in 1..n /\ (i + 1) - 1 = i /\ p[i] = q[i]
    BY <1>2
  <2>2. p[i + 1] = p[i] + Takes(list[i + 1])
    BY <2>1 DEF Sums
  <2>3. q[i + 1] = q[i] + Takes(list[i + 1])
    BY <2>1 DEF Sums
  <2> QED
    BY <2>1, <2>2, <2>3
<1> HIDE DEF T
<1>3. k \in T
  BY <1>1, <1>2, InductiveSet
<1> QED
  BY <1>3 DEF T

(* The measure of no words, and of one entry more.                         *)
LEMMA MeasureStep ==
  ASSUME NEW list \in Seq(Lengths), NEW n \in 0..Len(list)
  PROVE  /\ Measure(list, n) \in Nat
         /\ n = 0 => Measure(list, n) = 0
         /\ n < Len(list) =>
              Measure(list, n + 1) = Measure(list, n) + Takes(list[n + 1])
<1>1. PICK q : Sums(list, n, q) /\ q[n] = Measure(list, n)
  BY MeasureEquation
<1>2. Measure(list, n) \in Nat /\ (n = 0 => Measure(list, n) = 0)
  BY <1>1 DEF Sums
<1>3. ASSUME n < Len(list)
      PROVE  Measure(list, n + 1) = Measure(list, n) + Takes(list[n + 1])
  <2>1. n + 1 \in 0..Len(list) /\ n \in 0..(n + 1)
    BY <1>3
  <2>2. PICK p : Sums(list, n + 1, p) /\ p[n + 1] = Measure(list, n + 1)
    BY <2>1, MeasureEquation
  <2>3. p[n] = q[n]
    BY <1>1, <2>1, <2>2, SumsAgree
  <2>4. n + 1 \in 1..(n + 1) /\ (n + 1) - 1 = n
    OBVIOUS
  <2>5. p[n + 1] = p[n] + Takes(list[n + 1])
    BY <2>2, <2>4 DEF Sums
  <2> QED
    BY <1>1, <2>2, <2>3, <2>5
<1> QED
  BY <1>2, <1>3

LEMMA MeasureGrows ==
  ASSUME NEW list \in Seq(Lengths), NEW n \in 0..Len(list)
  PROVE  Measure(list, n) <= Measure(list, Len(list))
<1> DEFINE T == {d \in Nat : n + d <= Len(list)
                               => Measure(list, n) <= Measure(list, n + d)}
<1>1. 0 \in T
  <2>1. n + 0 = n
    OBVIOUS
  <2>2. Measure(list, n) \in Nat
    BY MeasureStep
  <2> QED
    BY <2>1, <2>2
<1>2. ASSUME NEW d \in Nat, d \in T PROVE d + 1 \in T
  <2> SUFFICES ASSUME n + (d + 1) <= Len(list)
               PROVE  Measure(list, n) <= Measure(list, n + (d + 1))
    OBVIOUS
  <2> DEFINE k == n + d
  <2>1. /\ k \in 0..Len(list) /\ k < Len(list) /\ n + (d + 1) = k + 1
        /\ list[k + 1] \in Lengths
    OBVIOUS
  <2>2. Measure(list, n) <= Measure(list, k)
    BY <1>2, <2>1
  <2> HIDE DEF k
  <2>3. Measure(list, k) \in Nat /\ Measure(list, n) \in Nat
    BY <2>1, MeasureStep
  <2>4. Measure(list, k + 1) = Measure(list, k) + Takes(list[k + 1])
    BY <2>1, MeasureStep
  <2>5. Takes(list[k + 1]) \in Nat
    BY <2>1, TakesSome
  <2>6. Measure(list, n) <= Measure(list, k + 1)
    BY <2>2, <2>3, <2>4, <2>5
  <2> QED
    BY <2>1, <2>6
<1> HIDE DEF T
<1>3. Len(list) - n \in T
  BY <1>1, <1>2, InductiveSet
<1>4. n + (Len(list) - n) = Len(list) /\ Len(list) \in Nat
  OBVIOUS
<1> QED
  BY <1>3, <1>4 DEF T

-----------------------------------------------------------------------------
(* The first k entries of a list have n words.                             *)
Tally(list, k, n) == n = Cardinality({e \in 1..k : list[e] > 0})

LEMMA WordsAreFinite ==
  ASSUME NEW list, NEW k \in Nat
  PROVE  /\ IsFiniteSet({e \in 1..k : list[e] > 0})
         /\ Cardinality({e \in 1..k : list[e] > 0}) \in Nat
<1>1. k \in Int /\ 1 \in Int
  OBVIOUS
<1>2. IsFiniteSet(1..k)
  BY <1>1, FS_Interval
<1>3. {e \in 1..k : list[e] > 0} \in SUBSET (1..k)
  OBVIOUS
<1>4. IsFiniteSet({e \in 1..k : list[e] > 0})
  BY <1>2, <1>3, FS_Subset
<1> QED
  BY <1>4, FS_CardinalityType

(* What a tree needs to know of the number: none, one or more.             *)
LEMMA TallyTells ==
  ASSUME NEW list \in Seq(Lengths), NEW k \in 0..Len(list), NEW n,
         Tally(list, k, n)
  PROVE  /\ n \in Nat
         /\ n = 0 => \A e \in 1..k : list[e] = 0
         /\ n = 1 => \E e \in 1..k :
                       list[e] > 0 /\ \A d \in (1..k) \ {e} : list[d] = 0
         /\ n > 1 => \E d, e \in 1..k : d # e /\ list[d] > 0 /\ list[e] > 0
<1> DEFINE W == {e \in 1..k : list[e] > 0}
<1>1. k \in Nat /\ \A e \in 1..k : list[e] \in Nat
  BY LengthsFit DEF Lengths
<1>2. IsFiniteSet(W) /\ n = Cardinality(W) /\ n \in Nat
  BY <1>1, WordsAreFinite DEF Tally
<1>3. \A e \in 1..k : e \notin W => list[e] = 0
  BY <1>1
<1>4. \A e \in W : e \in 1..k /\ list[e] > 0
  OBVIOUS
<1> HIDE DEF W
<1>5. n = 0 <=> W = {}
  BY <1>2, FS_EmptySet
<1>6. n = 1 <=> \E e : W = {e}
  BY <1>2, FS_Singleton
<1>7. ASSUME n = 0 PROVE \A e \in 1..k : list[e] = 0
  BY <1>3, <1>5, <1>7
<1>8. ASSUME n = 1
      PROVE  \E e \in 1..k :
               list[e] > 0 /\ \A d \in (1..k) \ {e} : list[d] = 0
  BY <1>3, <1>4, <1>6, <1>8
<1>9. ASSUME n > 1
      PROVE  \E d, e \in 1..k : d # e /\ list[d] > 0 /\ list[e] > 0
  <2>1. n # 0 /\ n # 1
    BY <1>2, <1>9
  <2>2. PICK e \in W : TRUE
    BY <1>5, <2>1
  <2>3. PICK d \in W : d # e
    <3> SUFFICES ASSUME \A d \in W : d = e PROVE FALSE
      OBVIOUS
    <3>1. W = {e}
      OBVIOUS
    <3> QED
      BY <1>6, <2>1, <3>1
  <2> QED
    BY <1>4, <2>2, <2>3
<1> QED
  BY <1>2, <1>7, <1>8, <1>9

LEMMA NoTally == \A list : Tally(list, 0, 0)
<1> TAKE list
<1>1. {e \in 1..0 : list[e] > 0} = {}
  OBVIOUS
<1> QED
  BY <1>1, FS_EmptySet DEF Tally

LEMMA TallyStep ==
  ASSUME NEW list, NEW other, NEW k \in Nat, NEW n, Tally(list, k, n),
         \A e \in 1..(k + 1) : other[e] \in Nat,
         \A e \in 1..k : other[e] = list[e]
  PROVE  /\ other[k + 1] = 0 => Tally(other, k + 1, n)
         /\ other[k + 1] > 0 => Tally(other, k + 1, n + 1)
<1> DEFINE W == {e \in 1..k : list[e] > 0}
           V == {e \in 1..(k + 1) : other[e] > 0}
<1>1. \A e : e \in 1..(k + 1) <=> e = k + 1 \/ e \in 1..k
  OBVIOUS
<1>2. k + 1 \notin 1..k
  OBVIOUS
<1>3. other[k + 1] = 0 => V = W
  BY <1>1, <1>2
<1>4. other[k + 1] > 0 => V = W \cup {k + 1} /\ k + 1 \notin W
  BY <1>1, <1>2
<1>5. IsFiniteSet(W) /\ n = Cardinality(W)
  BY WordsAreFinite DEF Tally
<1>6. /\ Tally(other, k + 1, n) <=> n = Cardinality(V)
      /\ Tally(other, k + 1, n + 1) <=> n + 1 = Cardinality(V)
  BY DEF Tally
<1> HIDE DEF W, V
<1> QED
  BY <1>3, <1>4, <1>5, <1>6, FS_AddElement

-----------------------------------------------------------------------------
(* What is known of the lengths while they are read and made into words.   *)

Growing == {"lengths", "runs"}
Listed == {"mapping", "quantvals", "lattice", "values", "table", "words"}

Lists ==
  /\ sent \in Shapes
  /\ pc \in {"params", "ordering"} => lengthlist = <<>>
  /\ pc \in {"ordering"} \cup Growing \cup Listed => s.entries \in Nat
  /\ pc \in Growing \cup Listed =>
       /\ lengthlist \in Seq(Lengths)
       /\ IF unused THEN Tally(lengthlist, Len(lengthlist), s.used_entries)
          ELSE /\ s.used_entries = s.entries
               /\ \A e \in 1..Len(lengthlist) : lengthlist[e] > 0
  /\ pc \in Growing => Len(lengthlist) < s.entries
  /\ pc \in Listed => Len(lengthlist) = s.entries
  /\ pc = "runs" => ~unused /\ length \in 1..(MaxLength + 1)

LEMMA SizedKeeps ==
  ASSUME NEW book, DOMAIN book = DOMAIN NoBook, NEW type, NEW width
  PROVE  /\ DOMAIN Sized(book, type, width) = DOMAIN NoBook
         /\ Sized(book, type, width).entries = book.entries
         /\ Sized(book, type, width).used_entries = book.used_entries
         /\ book.used_entries = 1 => Sized(book, type, width).dec_nodeb = 4
<1> DEFINE nodeb == determine_node_bytes(book.used_entries, width)
           leafw == determine_leaf_words(nodeb, width)
<1>1. Sized(book, type, width) = [book EXCEPT !.dec_type = type,
                                    !.dec_nodeb = nodeb, !.dec_leafw = leafw]
  BY DEF Sized
<1>2. book.used_entries = 1 => nodeb = 4
  BY DEF determine_node_bytes
<1> HIDE DEF nodeb, leafw
<1> QED
  BY <1>1, <1>2, BookFields

LEMMA MappingSizes ==
  ASSUME DOMAIN s = DOMAIN NoBook, ReadMapping, ~Refuse(heap, TRUE)
  PROVE  /\ pc = "mapping" /\ pc' \in {"quantvals", "table"}
         /\ UNCHANGED <<sent, lengthlist, unused, length>>
         /\ s'.entries = s.entries /\ s'.used_entries = s.used_entries
         /\ pc' = "table" /\ s.used_entries = 1 => s'.dec_nodeb = 4
<1>1. /\ pc = "mapping" /\ sent.maptype \in 0..2
      /\ pc' = IF sent.maptype = 1 THEN "quantvals" ELSE "table"
      /\ UNCHANGED <<sent, lengthlist, unused, length>>
  BY DEF ReadMapping
<1>2. PICK bits : s' =
        CASE sent.maptype = 0 ->
               Sized([s EXCEPT !.q_bits = bits], 0,
                     (ilog(s.entries) \div ByteBits) + 1)
          [] sent.maptype = 1 -> [s EXCEPT !.q_bits = bits]
          [] sent.maptype = 2 /\ PackedWidth([s EXCEPT !.q_bits = bits]) <= 4 ->
               Sized([s EXCEPT !.q_bits = bits], 1,
                     PackedWidth([s EXCEPT !.q_bits = bits]))
          [] OTHER ->
               Sized([s EXCEPT !.q_bits = bits], 3,
                 (ilog((s.used_entries - 1) % 2 ^ WordBits)
                    \div ByteBits) + 1)
  BY DEF ReadMapping
<1> DEFINE book == [s EXCEPT !.q_bits = bits]
<1>3. /\ DOMAIN book = DOMAIN NoBook /\ book.entries = s.entries
      /\ book.used_entries = s.used_entries
  BY BookFields
<1>4. CASE sent.maptype = 1
  <2>1. s' = book
    BY <1>2, <1>4
  <2> HIDE DEF book
  <2>2. pc' = "quantvals"
    BY <1>1, <1>4
  <2> QED
    BY <1>1, <1>3, <2>1, <2>2
<1>5. CASE sent.maptype # 1
  <2>1. \E type, width : s' = Sized(book, type, width)
    BY <1>1, <1>2, <1>5
  <2> HIDE DEF book
  <2> QED
    BY <1>1, <1>3, <1>5, <2>1, SizedKeeps
<1> QED
  BY <1>4, <1>5

LEMMA LatticeSizes ==
  ASSUME DOMAIN s = DOMAIN NoBook, ReadLattice, ~Refuse(heap, TRUE)
  PROVE  /\ pc = "values" /\ pc' = "table"
         /\ UNCHANGED <<sent, lengthlist, unused, length>>
         /\ s'.entries = s.entries /\ s'.used_entries = s.used_entries
         /\ s.used_entries = 1 => s'.dec_nodeb = 4
<1>1. /\ pc = "values" /\ pc' = "table"
      /\ UNCHANGED <<sent, lengthlist, unused, length>>
      /\ s' = IF LatticePacked THEN Sized(s, 1, PackedWidth(s))
              ELSE Sized([s EXCEPT !.q_pack = LatticePack], 2,
                         LeafBytes(LatticePack * s.dim))
  BY DEF ReadLattice
<1> DEFINE book == [s EXCEPT !.q_pack = LatticePack]
<1>2. /\ DOMAIN book = DOMAIN NoBook /\ book.entries = s.entries
      /\ book.used_entries = s.used_entries
  BY BookFields
<1>3. \/ \E width : s' = Sized(s, 1, width)
      \/ \E width : s' = Sized(book, 2, width)
  BY <1>1
<1> HIDE DEF book
<1> QED
  BY <1>1, <1>2, <1>3, SizedKeeps

LEMMA SentLengths ==
  ASSUME sent \in Shapes
  PROVE  /\ sent.entries \in Nat /\ sent.lengths \subseteq 1..MaxLength
         /\ \A n \in 1..(MaxLength + 1) : sent.nums[n] \subseteq Nat
<1>1. /\ sent.entries \in Nat /\ sent.lengths \subseteq 1..MaxLength
      /\ sent.nums \in [1..(MaxLength + 1) -> SUBSET Nat]
  BY ShapeAssumption, Zenon
<1> QED
  BY <1>1

LEMMA Joined ==
  ASSUME NEW list \in Seq(Lengths), NEW other \in Seq(Lengths)
  PROVE  /\ list \o other \in Seq(Lengths)
         /\ Len(list \o other) = Len(list) + Len(other)
<1>1. list \o other \in Seq(Lengths)
  OBVIOUS
<1>2. Len(list \o other) = Len(list) + Len(other)
  OBVIOUS
<1> QED
  BY <1>1, <1>2

LEMMA ListsStep ==
  ASSUME BInv, Lists, [DecodeNext]_allVars
  PROVE  Lists'
<1>0. DOMAIN s = DOMAIN NoBook /\ MaxLength \in 1..32
  BY LengthsFit DEF BInv, Pointers
<1>1. ASSUME NEW h, NEW listed, Refuse(h, listed) PROVE Lists'
  BY <1>1 DEF Refuse, Lists, Growing, Listed
<1>2. ASSUME RefuseWords PROVE Lists'
  BY <1>1, <1>2, Zenon DEF RefuseWords
(* A list, and what is said of it, that no longer changes.                 *)
<1>3. ASSUME pc \in Listed, pc' \in Listed,
             UNCHANGED <<sent, lengthlist, unused>>,
             s'.entries = s.entries, s'.used_entries = s.used_entries
      PROVE  Lists'
  BY <1>3 DEF Lists, Growing, Listed
<1>4. CASE ReadParameters
  <2>1. CASE ~Refuse(heap, FALSE)
    <3>1. /\ pc = "params" /\ pc' = "ordering"
          /\ UNCHANGED <<sent, lengthlist>>
          /\ s' = [s EXCEPT !.dim = sent.dim, !.entries = sent.entries]
      BY <1>4, <2>1 DEF ReadParameters
    <3>2. s'.entries = sent.entries
      BY <1>0, <3>1, BookFields
    <3>3. sent.entries \in Nat
      BY SentLengths DEF Lists
    <3> QED
      BY <3>1, <3>2, <3>3 DEF Lists, Growing, Listed
  <2> QED
    BY <1>1, <2>1, Zenon
<1>5. CASE ReadOrdering
  <2>1. CASE ~Refuse(heap, FALSE)
    <3>1. /\ pc = "ordering" /\ UNCHANGED <<sent, lengthlist>>
          /\ unused' \in (IF sent.ordered THEN {FALSE} ELSE BOOLEAN)
          /\ length' \in (IF sent.ordered THEN sent.lengths ELSE {0})
          /\ s' = [s EXCEPT !.used_entries = IF unused' THEN 0 ELSE s.entries]
          /\ pc' = IF s.entries = 0 THEN "mapping"
                   ELSE IF sent.ordered THEN "runs" ELSE "lengths"
      BY <1>5, <2>1 DEF ReadOrdering
    <3>2. /\ s'.entries = s.entries /\ s.entries \in Nat /\ lengthlist = <<>>
          /\ s'.used_entries = IF unused' THEN 0 ELSE s.entries
      BY <1>0, <3>1, BookFields DEF Lists
    <3>3. pc' = "runs" => ~unused' /\ length' \in 1..(MaxLength + 1)
      <4> SUFFICES ASSUME pc' = "runs"
                   PROVE  ~unused' /\ length' \in 1..(MaxLength + 1)
        OBVIOUS
      <4>1. sent.ordered
        BY <3>1
      <4>2. unused' = FALSE /\ length' \in sent.lengths
        BY <3>1, <4>1
      <4>3. sent.lengths \subseteq 1..MaxLength
        BY SentLengths DEF Lists
      <4> QED
        BY <1>0, <4>2, <4>3
    <3>4. /\ lengthlist' \in Seq(Lengths) /\ Len(lengthlist') = 0
          /\ \A e \in 1..0 : FALSE
      BY <3>1, <3>2
    <3>5. IF unused' THEN Tally(lengthlist', Len(lengthlist'), s'.used_entries)
          ELSE /\ s'.used_entries = s'.entries
               /\ \A e \in 1..Len(lengthlist') : lengthlist'[e] > 0
      <4>1. Tally(lengthlist', 0, 0)
        BY NoTally
      <4> QED
        BY <3>2, <3>4, <4>1
    <3>6. pc' \in Growing => Len(lengthlist') < s'.entries
      BY <3>1, <3>2, <3>4 DEF Growing
    <3>7. pc' \in Listed => Len(lengthlist') = s'.entries
      BY <3>1, <3>2, <3>4 DEF Listed
    <3>8. pc' \notin {"params", "ordering"}
      BY <3>1
    <3> QED
      BY <3>1, <3>2, <3>3, <3>4, <3>5, <3>6, <3>7, <3>8 DEF Lists
  <2> QED
    BY <1>1, <2>1, Zenon
<1>6. CASE ReadLength
  <2>1. CASE ~Refuse(heap, TRUE)
    <3>1. PICK len \in sent.lengths \cup (IF unused THEN {0} ELSE {}) :
            /\ lengthlist' = Append(lengthlist, len)
            /\ s' = [s EXCEPT
                 !.used_entries = IF unused /\ len > 0 THEN @ + 1 ELSE @,
                 !.dec_maxlength = Max({@, len})]
            /\ pc' = NextListed(lengthlist')
      BY <1>6, <2>1, Zenon DEF ReadLength
    <3>2. pc = "lengths" /\ UNCHANGED <<sent, unused, length>>
      BY <1>6, <2>1, Zenon DEF ReadLength
    <3>3. /\ lengthlist \in Seq(Lengths) /\ s.entries \in Nat
          /\ Len(lengthlist) < s.entries /\ sent.lengths \subseteq 1..MaxLength
      BY <3>2, SentLengths DEF Lists, Growing, Listed
    <3>4. len \in Lengths /\ (~unused => len > 0)
      BY <1>0, <3>3 DEF Lengths
    <3> DEFINE k == Len(lengthlist)
    <3>5. /\ lengthlist' \in Seq(Lengths) /\ Len(lengthlist') = k + 1
          /\ lengthlist'[k + 1] = len /\ k \in Nat
          /\ \A e \in 1..k : lengthlist'[e] = lengthlist[e]
      BY <3>1, <3>3, <3>4
    <3>6. /\ s'.entries = s.entries
          /\ s'.used_entries = IF unused /\ len > 0 THEN s.used_entries + 1
                               ELSE s.used_entries
      <4> DEFINE u == IF unused /\ len > 0 THEN s.used_entries + 1
                      ELSE s.used_entries
                 most == Max({s.dec_maxlength, len})
      <4>1. s' = [s EXCEPT !.used_entries = u, !.dec_maxlength = most]
        BY <3>1
      <4> HIDE DEF u, most
      <4>2. s'.entries = s.entries /\ s'.used_entries = u
        BY <1>0, <4>1, BookFields
      <4> QED
        BY <4>2 DEF u
    <3>7. pc' = IF k + 1 < s.entries THEN "lengths" ELSE "mapping"
      BY <3>1, <3>2, <3>5 DEF NextListed
    <3>10. /\ pc' \in Growing => Len(lengthlist') < s'.entries
           /\ pc' \in Listed => Len(lengthlist') = s'.entries
           /\ sent' \in Shapes /\ s'.entries \in Nat
           /\ pc' \notin {"params", "ordering", "runs"}
      <4>1. k + 1 <= s.entries /\ k + 1 \in Nat
        BY <3>3
      <4> HIDE DEF k
      <4>2. pc' \in Growing => k + 1 < s.entries
        BY <3>7 DEF Growing
      <4>3. pc' \in Listed => k + 1 = s.entries
        BY <3>3, <3>7, <4>1 DEF Listed
      <4>4. pc' \in {"lengths", "mapping"}
        BY <3>7
      <4> QED
        BY <3>2, <3>3, <3>5, <3>6, <4>2, <4>3, <4>4 DEF Lists
    <3>8. CASE unused
      <4>1. Tally(lengthlist, k, s.used_entries)
        BY <3>2, <3>8 DEF Lists, Growing
      <4>2. \A e \in 1..(k + 1) : lengthlist'[e] \in Nat
        <5> TAKE e \in 1..(k + 1)
        <5>1. lengthlist'[e] \in Lengths
          BY <3>5
        <5> QED
          BY <1>0, <5>1 DEF Lengths
      <4> HIDE DEF k
      <4>3. /\ len = 0 => Tally(lengthlist', k + 1, s.used_entries)
            /\ len > 0 => Tally(lengthlist', k + 1, s.used_entries + 1)
        <5>1. /\ lengthlist'[k + 1] = 0
                   => Tally(lengthlist', k + 1, s.used_entries)
              /\ lengthlist'[k + 1] > 0
                   => Tally(lengthlist', k + 1, s.used_entries + 1)
          BY <3>5, <4>1, <4>2, TallyStep
        <5> QED
          BY <3>5, <5>1
      <4>4. len = 0 \/ len > 0
        BY <1>0, <3>4 DEF Lengths
      <4>5. Tally(lengthlist', k + 1, s'.used_entries)
        BY <3>6, <3>8, <4>3, <4>4
      <4>6. unused'
        BY <3>2, <3>8
      <4> QED
        BY <3>5, <3>10, <4>5, <4>6 DEF Lists
    <3>9. CASE ~unused
      <4>1. \A e \in 1..k : lengthlist[e] > 0
        BY <3>2, <3>9 DEF Lists, Growing
      <4> HIDE DEF k
      <4>2. \A e \in 1..(k + 1) : lengthlist'[e] > 0
        <5> TAKE e \in 1..(k + 1)
        <5>1. e \in 1..k \/ e = k + 1
          BY <3>5
        <5> QED
          BY <3>4, <3>5, <3>9, <4>1, <5>1
      <4>3. ~unused' /\ s'.used_entries = s'.entries
        BY <3>2, <3>6, <3>9 DEF Lists, Growing
      <4> QED
        BY <3>5, <3>10, <4>2, <4>3 DEF Lists
    <3> QED
      BY <3>8, <3>9
  <2> QED
    BY <1>1, <2>1, Zenon
<1>7. CASE ReadRun
  <2>1. CASE \E num : RunTooLong(num) /\ Refuse(heap, TRUE)
    BY <1>1, <2>1, Zenon
  <2>2. CASE ~Refuse(heap, TRUE)
    <3>1. PICK num \in sent.nums[length] :
            /\ ~RunTooLong(num)
            /\ lengthlist' = lengthlist \o [k \in 1..num |-> length]
            /\ s' = [s EXCEPT !.dec_maxlength = length]
            /\ length' = length + 1
            /\ pc' = NextListed(lengthlist')
      BY <1>7, <2>2 DEF ReadRun
    <3>2. pc = "runs" /\ UNCHANGED <<sent, unused>>
      BY <1>7, <2>2 DEF ReadRun
    <3>3. /\ lengthlist \in Seq(Lengths) /\ s.entries \in Nat
          /\ Len(lengthlist) < s.entries /\ ~unused
          /\ length \in 1..(MaxLength + 1) /\ s.used_entries = s.entries
          /\ \A e \in 1..Len(lengthlist) : lengthlist[e] > 0
      BY <3>2 DEF Lists, Growing, Listed
    <3>4. num \in Nat
      BY <3>3, SentLengths DEF Lists
    <3>5. ~(length > MaxLength) /\ ~(num > s.entries - Len(lengthlist))
      BY <3>1 DEF RunTooLong
    <3>6. length \in Lengths /\ length > 0 /\ length + 1 \in 1..(MaxLength + 1)
      BY <1>0, <3>3, <3>5 DEF Lengths
    <3> DEFINE run == [k \in 1..num |-> length]
    <3>7. run \in Seq(Lengths) /\ Len(run) = num /\ \A e \in 1..num : run[e] = length
      BY <3>4, <3>6
    <3> HIDE DEF run
    <3>8. /\ lengthlist' \in Seq(Lengths)
          /\ Len(lengthlist') = Len(lengthlist) + num
          /\ \A e \in 1..Len(lengthlist') : lengthlist'[e] > 0
      <4>1. lengthlist' = lengthlist \o run
        BY <3>1 DEF run
      <4>2. /\ lengthlist' \in Seq(Lengths)
            /\ Len(lengthlist') = Len(lengthlist) + num
        <5>1. lengthlist \in Seq(Lengths)
          BY <3>3
        <5>2. run \in Seq(Lengths) /\ Len(run) = num
          BY <3>7
        <5> QED
          BY <4>1, <5>1, <5>2, Joined
      <4>3. ASSUME NEW e \in 1..Len(lengthlist') PROVE lengthlist'[e] > 0
        <5>1. CASE e <= Len(lengthlist)
          <6>1. lengthlist'[e] = lengthlist[e] /\ e \in 1..Len(lengthlist)
            BY <3>3, <3>7, <4>1, <5>1
          <6> QED
            BY <3>3, <6>1
        <5>2. CASE e > Len(lengthlist)
          <6>1. /\ e - Len(lengthlist) \in 1..num
                /\ lengthlist'[e] = run[e - Len(lengthlist)]
            BY <3>3, <3>7, <4>1, <4>2, <5>2
          <6> QED
            BY <3>6, <3>7, <6>1
        <5> QED
          BY <3>3, <5>1, <5>2
      <4> QED
        BY <4>2, <4>3
    <3>9. s'.entries = s.entries /\ s'.used_entries = s'.entries
      BY <1>0, <3>1, <3>3, BookFields
    <3>10. /\ pc' = IF Len(lengthlist') < s.entries THEN "runs" ELSE "mapping"
           /\ Len(lengthlist') <= s.entries /\ Len(lengthlist') \in Nat
      BY <3>1, <3>2, <3>3, <3>4, <3>5, <3>8 DEF NextListed
    <3>11. ~unused' /\ length' \in 1..(MaxLength + 1)
      BY <3>1, <3>2, <3>3, <3>6
    <3>12. pc' \in Listed => Len(lengthlist') = s'.entries
      BY <3>3, <3>9, <3>10 DEF Listed
    <3>13. pc' \in Growing => Len(lengthlist') < s'.entries
      BY <3>9, <3>10 DEF Growing
    <3>14. sent' \in Shapes /\ s'.entries \in Nat /\ pc' \notin {"params", "ordering"}
      BY <3>2, <3>3, <3>9, <3>10 DEF Lists
    <3> QED
      BY <3>8, <3>9, <3>11, <3>12, <3>13, <3>14 DEF Lists
  <2> QED
    BY <1>1, <2>1, <2>2, Zenon
<1>8. CASE ReadMapping
  BY <1>0, <1>1, <1>3, <1>8, MappingSizes DEF Listed
<1>9. CASE PolishQuantvals
  <2>1. /\ pc \in Listed /\ pc' \in Listed /\ s' = s
        /\ UNCHANGED <<sent, lengthlist, unused>>
    BY <1>9 DEF PolishQuantvals, Listed
  <2> QED
    BY <1>3, <2>1
<1>10. CASE AllocLattice
  <2>1. CASE ~Refuse(heap, TRUE)
    <3>1. /\ pc = "lattice" /\ pc' = "values" /\ s' = [s EXCEPT !.q_val = TRUE]
          /\ UNCHANGED <<sent, lengthlist, unused>>
      BY <1>10, <2>1 DEF AllocLattice
    <3>2. s'.entries = s.entries /\ s'.used_entries = s.used_entries
      BY <1>0, <3>1, BookFields
    <3> QED
      BY <1>3, <3>1, <3>2 DEF Listed
  <2> QED
    BY <1>1, <2>1, Zenon
<1>11. CASE ReadLattice
  BY <1>0, <1>1, <1>3, <1>11, LatticeSizes DEF Listed
<1>12. CASE AllocWords
  <2>1. CASE ~Refuse(heap, TRUE)
    <3>1. /\ pc = "table" /\ pc' \in {"pack", "words"}
          /\ s' = [s EXCEPT !.dec_table = InPlace]
          /\ UNCHANGED <<sent, lengthlist, unused>>
      BY <1>12, <2>1 DEF AllocWords
    <3>2. s'.entries = s.entries /\ s'.used_entries = s.used_entries
      BY <1>0, <3>1, BookFields
    <3>3. CASE pc' = "words"
      BY <1>3, <3>1, <3>2, <3>3 DEF Listed
    <3>4. CASE pc' = "pack"
      BY <3>1, <3>4 DEF Lists, Growing, Listed
    <3> QED
      BY <3>1, <3>3, <3>4
  <2> QED
    BY <1>1, <2>1, Zenon
<1>13. CASE SkipEntry \/ ChaseTree \/ PlantLeaf \/ EndWords
  <2>1. CASE ~RefuseWords
    <3>1. /\ pc = "words" /\ pc' \in {"words", "pack"}
          /\ UNCHANGED <<sent, s, lengthlist, unused>>
      BY <1>13, <2>1 DEF SkipEntry, ChaseTree, PlantLeaf, EndWords
    <3>2. CASE pc' = "words"
      BY <1>3, <3>1, <3>2 DEF Listed
    <3>3. CASE pc' = "pack"
      BY <3>1, <3>3 DEF Lists, Growing, Listed
    <3> QED
      BY <3>1, <3>2, <3>3
  <2> QED
    BY <1>2, <2>1
<1>14. CASE PackTable \/ ReadScalars \/ Finish \/ Clear
  <2>1. CASE ~RefuseWords /\ ~Refuse(heap, TRUE)
    <3>1. sent' = sent /\ pc' \in {"scalars", "end", "ok", "cleared"}
      BY <1>14, <2>1 DEF PackTable, ReadScalars, Finish, Clear, vorbis_book_clear
    <3> QED
      BY <3>1 DEF Lists, Growing, Listed
  <2> QED
    BY <1>1, <1>2, <2>1, Zenon
<1>15. CASE StartCall \/ NextVector \/ LookAhead \/ WalkBit \/ WalkEnds \/ UseEntry
  <2>1. UNCHANGED <<sent, pc, s, lengthlist, unused, length>>
    BY <1>15, Zenon DEF StartCall, NextVector, LookAhead, WalkBit, WalkEnds, UseEntry,
                 Return, vars
  <2> QED
    BY <2>1 DEF Lists
<1>16. CASE UNCHANGED allVars
  BY <1>16 DEF allVars, vars, Lists
<1> QED
  BY <1>4, <1>5, <1>6, <1>7, <1>8, <1>9, <1>10, <1>11, <1>12, <1>13, <1>14,
     <1>15, <1>16 DEF DecodeNext, Unpack, vorbis_book_unpack

-----------------------------------------------------------------------------
(* The words of a list as they are planted.                                *)

(* A book of one word has room for a word of one bit.                      *)
OneWord ==
  /\ tree.count = 0 =>
       \/ tree.j = 0 /\ tree.chase = 0 /\ tree.top = 0 /\ 0 \in DOMAIN tree.r
       \/ tree.j > 0 /\ tree.chase = 1
  /\ tree.count = 1 => \A e \in 1..tree.i : lengthlist[e] <= 1

(* What the words planted have taken and what is free is the whole tree.   *)
Planting ==
  /\ s.entries >= 2 /\ DOMAIN tree = DOMAIN NoTree
  /\ tree.i \in 0..s.entries /\ tree.j \in Nat
  /\ Tally(lengthlist, tree.i, tree.count)
  /\ tree.count = 0 =>
       tree.marker = NoMarkers /\ Measure(lengthlist, tree.i) = 0
  /\ tree.count > 0 =>
       /\ Good(tree.marker)
       /\ \E f : /\ FreeBy(tree.marker, f)
                 /\ f[MaxLength] + Measure(lengthlist, tree.i)
                      = TwoTo(MaxLength)
  /\ s.used_entries = 1 => OneWord

Trees ==
  /\ pc \in {"table", "words"} => (s.used_entries = 1 => InPlace)
  /\ pc = "words" => Planting
  /\ pc \in {"pack", "scalars", "end", "ok"} => IsTree(lengthlist)

(* Markers that stand for words left over.                                 *)
LEMMA LeftOver ==
  ASSUME NEW m, NEW f, Good(m), FreeBy(m, f)
  PROVE  Underpopulated(m) <=> f[MaxLength] > 0
<1>0. MaxLength \in 1..32 /\ MaxLength \in 0..MaxLength
  BY LengthsFit
<1>1. ASSUME NEW j \in 1..MaxLength
      PROVE  /\ m[j] \in Nat /\ f[j] \in Nat
             /\ m[j] % TwoTo(j) # 0 <=> f[j] > 0
  <2>1. j \in 0..MaxLength /\ j \in 0..32
    BY <1>0
  <2>2. m[j] \in Nat /\ m[j] < TwoTo(j)
    BY <2>1, MarkerFits
  <2>3. TwoTo(j) \in Nat \ {0}
    BY <2>1, Doubling
  <2>4. m[j] % TwoTo(j) = m[j]
    BY <2>2, <2>3
  <2>5. f[j] \in Nat
    BY <2>1 DEF FreeBy
  <2>6. f[j] = 0 <=> m[j] = 0
    BY <2>1, FreeMarked
  <2> QED
    BY <2>2, <2>4, <2>5, <2>6
<1>2. ASSUME f[MaxLength] > 0 PROVE Underpopulated(m)
  <2>1. MaxLength \in 1..MaxLength
    BY <1>0
  <2>2. m[MaxLength] % TwoTo(MaxLength) # 0
    BY <1>1, <1>2, <2>1
  <2> QED
    BY <2>1, <2>2, Zenon DEF Underpopulated, TwoTo
<1>3. ASSUME Underpopulated(m) PROVE f[MaxLength] > 0
  <2>1. PICK j \in 1..MaxLength : m[j] % TwoTo(j) # 0
    BY <1>3, Zenon DEF Underpopulated, TwoTo
  <2>2. f[j] > 0
    BY <1>1, <2>1
  <2>3. /\ j \in 0..MaxLength /\ MaxLength - j \in 0..(MaxLength - j)
        /\ j + (MaxLength - j) = MaxLength /\ MaxLength - j \in 0..32
    BY <1>0
  <2>4. f[MaxLength] >= TwoTo(MaxLength - j)
    BY <2>2, <2>3, FreeAbove
  <2>5. TwoTo(MaxLength - j) \in Nat \ {0}
    BY <2>3, Doubling
  <2>6. f[MaxLength] \in Nat
    BY <1>0 DEF FreeBy
  <2> QED
    BY <2>4, <2>5, <2>6
<1> QED
  BY <1>2, <1>3

LEMMA NoneLeftOver == ~Underpopulated(NoMarkers)
<1> SUFFICES ASSUME NEW j \in 1..MaxLength, NoMarkers[j] % TwoTo(j) # 0
             PROVE  FALSE
  BY Zenon DEF Underpopulated, TwoTo
<1>1. j \in 0..MaxLength /\ j \in 0..32
  BY LengthsFit
<1>2. NoMarkers[j] = 0
  BY <1>1 DEF NoMarkers
<1>3. TwoTo(j) \in Nat \ {0}
  BY <1>1, Doubling
<1> QED
  BY <1>2, <1>3

LEMMA TwoWords ==
  ASSUME NEW list \in Seq(Lengths), NEW d \in 1..Len(list),
         NEW e \in 1..Len(list), d # e, list[d] > 0, list[e] > 0,
         Measure(list, Len(list)) # TwoTo(MaxLength)
  PROVE  ~IsTree(list)
<1>1. d \in Used(list) /\ e \in Used(list)
  BY DEF Used
<1>2. Measure(list, Len(list)) # 2 ^ MaxLength
  BY Zenon DEF TwoTo
<1>3. ~(Len(list) < 2)
  OBVIOUS
<1>4. Used(list) # {} /\ \A x : Used(list) # {x}
  BY <1>1
<1> QED
  BY <1>2, <1>3, <1>4, Zenon DEF IsTree

(* No tree is what the words are refused for.                              *)
LEMMA UnfitIsNoTree ==
  ASSUME Lists, Planting, pc = "words", Unfit
  PROVE  ~IsTree(lengthlist)
<1>0. /\ lengthlist \in Seq(Lengths) /\ Len(lengthlist) = s.entries
      /\ s.entries \in Nat /\ MaxLength \in 1..32
  BY LengthsFit DEF Lists, Listed
<1>1. /\ tree.i \in 0..Len(lengthlist)
      /\ Tally(lengthlist, tree.i, tree.count) /\ tree.count \in Nat
  BY <1>0, TallyTells DEF Planting
<1>2. Measure(lengthlist, tree.i) \in Nat
  BY <1>0, <1>1, MeasureStep
<1>3. MaxLength \in 0..32
  BY <1>0
<1>4. TwoTo(MaxLength) \in Nat \ {0}
  BY <1>3, Doubling
<1>5. CASE /\ tree.i < s.entries /\ lengthlist[tree.i + 1] > 0
           /\ tree.count > 0 /\ tree.marker[lengthlist[tree.i + 1]] = 0
  <2> DEFINE e == tree.i + 1
             len == lengthlist[e]
  <2>1. e \in 1..Len(lengthlist) /\ len \in 1..MaxLength
    <3>1. e \in 1..Len(lengthlist)
      BY <1>0, <1>1, <1>5
    <3>2. len \in Lengths
      BY <1>0, <3>1
    <3> QED
      BY <1>5, <3>1, <3>2 DEF Lengths
  <2>2. PICK f : /\ FreeBy(tree.marker, f)
                 /\ f[MaxLength] + Measure(lengthlist, tree.i)
                      = TwoTo(MaxLength)
    BY <1>5 DEF Planting
  <2>3. Good(tree.marker) /\ tree.marker[len] = 0
    BY <1>5 DEF Planting
  <2>4. f[MaxLength] < TwoTo(MaxLength - len)
    BY <2>1, <2>2, <2>3, FreeBelow
  <2>5. f[MaxLength] \in Nat
    <3>1. MaxLength \in 0..MaxLength
      BY <1>0
    <3> QED
      BY <2>2, <3>1 DEF FreeBy
  <2>6. Takes(len) = TwoTo(MaxLength - len) /\ Takes(len) \in Nat
    <3>1. len \in Lengths
      BY <2>1 DEF Lengths
    <3>2. len > 0
      BY <2>1
    <3> QED
      BY <3>1, <3>2, TakesSome DEF Takes
  <2>7. Measure(lengthlist, e) = Measure(lengthlist, tree.i) + Takes(len)
    BY <1>0, <1>1, <1>5, MeasureStep
  <2>8. Measure(lengthlist, e) <= Measure(lengthlist, Len(lengthlist))
    <3>1. e \in 0..Len(lengthlist)
      BY <2>1
    <3> QED
      BY <1>0, <3>1, MeasureGrows
  <2>9. Measure(lengthlist, Len(lengthlist)) \in Nat
    BY <1>0, MeasureStep
  <2>10. Measure(lengthlist, Len(lengthlist)) # TwoTo(MaxLength)
    BY <1>2, <1>4, <2>2, <2>4, <2>5, <2>6, <2>7, <2>8, <2>9
  <2>11. PICK d \in 1..tree.i : lengthlist[d] > 0
    <3>1. tree.count = 1 \/ tree.count > 1
      BY <1>1, <1>5
    <3> QED
      BY <1>0, <1>1, <3>1, TallyTells
  <2>12. d \in 1..Len(lengthlist) /\ d # e
    BY <1>0, <1>1
  <2>13. lengthlist[e] > 0
    BY <1>5
  <2> HIDE DEF e
  <2> QED
    BY <1>0, <2>1, <2>10, <2>11, <2>12, <2>13, TwoWords
<1>6. CASE /\ tree.i = s.entries
           /\ tree.count # 1 /\ Underpopulated(tree.marker)
  <2>1. tree.count > 1
    <3>1. tree.count # 0
      BY <1>6, NoneLeftOver DEF Planting
    <3> QED
      BY <1>1, <1>6, <3>1
  <2>2. PICK d, e \in 1..tree.i :
          d # e /\ lengthlist[d] > 0 /\ lengthlist[e] > 0
    BY <1>0, <1>1, <2>1, TallyTells
  <2>3. tree.count > 0
    BY <1>1, <2>1
  <2>4. PICK f : /\ FreeBy(tree.marker, f)
                 /\ f[MaxLength] + Measure(lengthlist, tree.i)
                      = TwoTo(MaxLength)
    BY <2>3 DEF Planting
  <2>5. f[MaxLength] > 0
    BY <1>6, <2>3, <2>4, LeftOver DEF Planting
  <2>6. f[MaxLength] \in Nat
    <3>1. MaxLength \in 0..MaxLength
      BY <1>0
    <3> QED
      BY <2>4, <3>1 DEF FreeBy
  <2>7. tree.i = Len(lengthlist)
    BY <1>0, <1>6
  <2>8. Measure(lengthlist, Len(lengthlist)) # TwoTo(MaxLength)
    BY <1>2, <1>4, <2>4, <2>5, <2>6, <2>7
  <2> QED
    BY <1>0, <2>2, <2>7, <2>8, TwoWords
<1> QED
  BY <1>5, <1>6 DEF Unfit

(* A tree is what comes through to the end.                                *)
LEMMA FitIsTree ==
  ASSUME Lists, Planting, pc = "words", ~Unfit, tree.i = s.entries
  PROVE  IsTree(lengthlist)
<1>0. /\ lengthlist \in Seq(Lengths) /\ Len(lengthlist) = s.entries
      /\ s.entries \in Nat /\ s.entries >= 2 /\ MaxLength \in 1..32
      /\ DOMAIN lengthlist = 1..Len(lengthlist)
  BY LengthsFit DEF Lists, Listed, Planting
<1>1. /\ Tally(lengthlist, Len(lengthlist), tree.count) /\ tree.count \in Nat
      /\ Len(lengthlist) \in 0..Len(lengthlist)
  BY <1>0, TallyTells DEF Planting
<1>2. CASE tree.count = 0
  <2>1. \A e \in DOMAIN lengthlist : lengthlist[e] = 0
    BY <1>0, <1>1, <1>2, TallyTells
  <2>2. Used(lengthlist) = {}
    BY <2>1 DEF Used
  <2> QED
    BY <2>2, Zenon DEF IsTree
<1>3. CASE tree.count = 1
  <2>1. PICK e \in 1..Len(lengthlist) :
          /\ lengthlist[e] > 0
          /\ \A d \in (1..Len(lengthlist)) \ {e} : lengthlist[d] = 0
    BY <1>0, <1>1, <1>3, TallyTells
  <2>2. \E d \in 1..Len(lengthlist) : d # e
    <3>1. 1 \in 1..Len(lengthlist) /\ 2 \in 1..Len(lengthlist) /\ 1 # 2
      BY <1>0
    <3> QED
      BY <3>1
  <2>3. unused
    <3> SUFFICES ASSUME ~unused PROVE FALSE
      OBVIOUS
    <3>1. PICK d \in 1..Len(lengthlist) : d # e
      BY <2>2
    <3>2. lengthlist[d] = 0 /\ lengthlist[d] > 0
      BY <2>1, <3>1 DEF Lists, Listed
    <3> QED
      BY <3>2
  <2>4. Tally(lengthlist, Len(lengthlist), s.used_entries)
    BY <2>3 DEF Lists, Listed
  <2>5. s.used_entries = 1
    <3>1. s.used_entries \in Nat
      BY <1>0, <1>1, <2>4, TallyTells
    <3>2. s.used_entries # 0
      <4> SUFFICES ASSUME s.used_entries = 0 PROVE FALSE
        OBVIOUS
      <4>1. lengthlist[e] = 0
        BY <1>0, <1>1, <2>4, TallyTells
      <4> QED
        BY <2>1, <4>1
    <3>3. ~(s.used_entries > 1)
      <4> SUFFICES ASSUME s.used_entries > 1 PROVE FALSE
        OBVIOUS
      <4>1. PICK c, d \in 1..Len(lengthlist) :
              c # d /\ lengthlist[c] > 0 /\ lengthlist[d] > 0
        BY <1>0, <1>1, <2>4, TallyTells
      <4>2. c = e /\ d = e
        <5>1. c # e => lengthlist[c] = 0
          BY <2>1
        <5>2. d # e => lengthlist[d] = 0
          BY <2>1
        <5> QED
          BY <4>1, <5>1, <5>2
      <4> QED
        BY <4>1, <4>2
    <3> QED
      BY <3>1, <3>2, <3>3
  <2>6. lengthlist[e] <= 1
    <3>1. OneWord /\ tree.i = Len(lengthlist)
      BY <1>0, <2>5 DEF Planting
    <3> QED
      BY <1>3, <3>1 DEF OneWord
  <2>7. lengthlist[e] = 1
    <3>1. lengthlist[e] \in Lengths
      BY <1>0
    <3> QED
      BY <2>1, <2>6, <3>1 DEF Lengths
  <2>8. Used(lengthlist) = {e}
    <3>1. \A d \in DOMAIN lengthlist : d # e => lengthlist[d] = 0
      BY <1>0, <2>1
    <3> QED
      BY <1>0, <2>1, <3>1 DEF Used
  <2>9. e \in Used(lengthlist)
    BY <2>8
  <2> QED
    BY <2>7, <2>8, <2>9, Zenon DEF IsTree
<1>4. CASE tree.count > 1
  <2>1. tree.count > 0 /\ tree.count # 1
    BY <1>1, <1>4
  <2>2. PICK f : /\ FreeBy(tree.marker, f)
                 /\ f[MaxLength] + Measure(lengthlist, tree.i)
                      = TwoTo(MaxLength)
    BY <2>1 DEF Planting
  <2>3. ~Underpopulated(tree.marker)
    BY <2>1 DEF Unfit
  <2>4. ~(f[MaxLength] > 0)
    BY <2>1, <2>2, <2>3, LeftOver DEF Planting
  <2>5. f[MaxLength] \in Nat
    <3>1. MaxLength \in 0..MaxLength
      BY <1>0
    <3> QED
      BY <2>2, <3>1 DEF FreeBy
  <2>6. Measure(lengthlist, Len(lengthlist)) \in Nat
    BY <1>0, MeasureStep
  <2>7. Measure(lengthlist, Len(lengthlist)) = TwoTo(MaxLength)
    BY <1>0, <2>2, <2>4, <2>5, <2>6
  <2> QED
    BY <2>7, Zenon DEF IsTree, TwoTo
<1> QED
  BY <1>1, <1>2, <1>3, <1>4

LEMMA TreeFields ==
  DOMAIN NoTree = {"r", "top", "count", "marker", "i", "j", "chase"}
BY DEF NoTree

(* The words start with nothing planted.                                   *)
LEMMA AllocTrees ==
  ASSUME DOMAIN s = DOMAIN NoBook, Lists, Trees, AllocWords,
         ~Refuse(heap, TRUE)
  PROVE  Trees'
<1>1. /\ pc = "table" /\ s' = [s EXCEPT !.dec_table = InPlace]
      /\ tree' = [NoTree EXCEPT !.r =
           [a \in 0..(Room - 1) |-> IF s.entries < 2 /\ a = 0 THEN LeafOf(0)
                                                              ELSE Unset]]
      /\ pc' = IF s.entries < 2 THEN "pack" ELSE "words"
      /\ UNCHANGED <<sent, lengthlist, unused>>
  BY DEF AllocWords
<1>2. /\ s'.entries = s.entries /\ s'.used_entries = s.used_entries
      /\ s'.dec_nodeb = s.dec_nodeb
  BY <1>1, BookFields
<1>3. /\ lengthlist \in Seq(Lengths) /\ Len(lengthlist) = s.entries
      /\ s.entries \in Nat
  BY <1>1 DEF Lists, Listed
<1>4. CASE s.entries < 2
  <2>1. IsTree(lengthlist)
    BY <1>3, <1>4, Zenon DEF IsTree
  <2>2. pc' = "pack" /\ IsTree(lengthlist')
    BY <1>1, <1>4, <2>1
  <2> QED
    BY <2>2 DEF Trees
<1>5. CASE ~(s.entries < 2)
  <2> DEFINE cells == [a \in 0..(Room - 1) |->
                         IF s.entries < 2 /\ a = 0 THEN LeafOf(0) ELSE Unset]
  <2>0. DOMAIN cells = 0..(Room - 1)
    OBVIOUS
  <2>1. tree' = [NoTree EXCEPT !.r = cells]
    BY <1>1
  <2> HIDE DEF cells
  <2>2. /\ DOMAIN tree' = DOMAIN NoTree /\ tree'.r = cells /\ tree'.i = 0
        /\ tree'.j = 0 /\ tree'.count = 0 /\ tree'.marker = NoMarkers
        /\ tree'.chase = 0 /\ tree'.top = 0
    BY <2>1 DEF NoTree
  <2>3. Tally(lengthlist, 0, 0)
    BY NoTally
  <2>4. Measure(lengthlist, 0) = 0
    <3>1. 0 \in 0..Len(lengthlist)
      BY <1>3
    <3> QED
      BY <1>3, <3>1, MeasureStep
  <2>5. s.used_entries = 1 => InPlace /\ 0 \in DOMAIN tree'.r
    <3> SUFFICES ASSUME s.used_entries = 1
                 PROVE  InPlace /\ 0 \in DOMAIN tree'.r
      OBVIOUS
    <3>1. InPlace
      BY <1>1 DEF Trees
    <3>2. Room = 3
      BY <3>1 DEF Room
    <3> QED
      BY <2>0, <2>2, <3>1, <3>2
  <2>6. s'.used_entries = 1 => OneWord'
    BY <1>2, <2>2, <2>5 DEF OneWord
  <2>7. Planting'
    <3>1. s'.entries >= 2 /\ 0 \in 0..s'.entries
      BY <1>2, <1>3, <1>5
    <3>2. lengthlist' = lengthlist
      BY <1>1
    <3> QED
      BY <2>2, <2>3, <2>4, <2>6, <3>1, <3>2 DEF Planting
  <2>8. pc' = "words"
    BY <1>1, <1>5
  <2>9. s'.used_entries = 1 => InPlace'
    BY <1>2, <2>5 DEF InPlace
  <2> QED
    BY <2>7, <2>8, <2>9 DEF Trees
<1> QED
  BY <1>4, <1>5

(* The facts of an entry whose word is next.                               *)
LEMMA NextEntry ==
  ASSUME Lists, Planting, pc = "words", tree.i < s.entries
  PROVE  /\ lengthlist \in Seq(Lengths) /\ tree.i \in 0..Len(lengthlist)
         /\ tree.i \in Nat
         /\ tree.i < Len(lengthlist) /\ tree.i + 1 \in 0..s.entries
         /\ CurrentLength \in Lengths
         /\ \A e \in 1..(tree.i + 1) : lengthlist[e] \in Nat
         /\ Measure(lengthlist, tree.i) \in Nat
         /\ Measure(lengthlist, tree.i + 1)
              = Measure(lengthlist, tree.i) + Takes(CurrentLength)
         /\ CurrentLength = 0 => Tally(lengthlist, tree.i + 1, tree.count)
         /\ CurrentLength > 0 => Tally(lengthlist, tree.i + 1, tree.count + 1)
<1> DEFINE k == tree.i
<1>1. /\ lengthlist \in Seq(Lengths) /\ Len(lengthlist) = s.entries
      /\ s.entries \in Nat /\ MaxLength \in 1..32
  BY LengthsFit DEF Lists, Listed
<1>2. k \in 0..Len(lengthlist) /\ k < Len(lengthlist) /\ k \in Nat
  BY <1>1 DEF Planting
<1>3. k + 1 \in 1..Len(lengthlist) /\ k + 1 \in 0..s.entries
  BY <1>1, <1>2
<1>4. CurrentLength = lengthlist[k + 1] /\ CurrentLength \in Lengths
  BY <1>1, <1>3 DEF CurrentLength
<1>5. \A e \in 1..(k + 1) : lengthlist[e] \in Nat
  <2> TAKE e \in 1..(k + 1)
  <2>1. e \in 1..Len(lengthlist)
    BY <1>1, <1>2
  <2>2. lengthlist[e] \in Lengths
    BY <1>1, <2>1
  <2> QED
    BY <1>1, <2>2 DEF Lengths
<1>6. Tally(lengthlist, k, tree.count)
  BY DEF Planting
<1> HIDE DEF k
<1>7. /\ Measure(lengthlist, k) \in Nat
      /\ Measure(lengthlist, k + 1)
           = Measure(lengthlist, k) + Takes(CurrentLength)
  BY <1>1, <1>2, <1>4, MeasureStep
<1>8. /\ CurrentLength = 0 => Tally(lengthlist, k + 1, tree.count)
      /\ CurrentLength > 0 => Tally(lengthlist, k + 1, tree.count + 1)
  BY <1>2, <1>4, <1>5, <1>6, TallyStep
<1> QED
  BY <1>1, <1>2, <1>3, <1>4, <1>5, <1>7, <1>8 DEF k

(* The markers and what they leave, once the word has been taken.          *)
LEMMA MarkersGoOn ==
  ASSUME Lists, Planting, pc = "words", tree.i < s.entries,
         CurrentLength \in 1..MaxLength, ~Unfit,
         NEW n, n = MarkersAfter(tree.marker, CurrentLength)
  PROVE  /\ Good(n)
         /\ \E f : /\ FreeBy(n, f)
                   /\ f[MaxLength] + Measure(lengthlist, tree.i + 1)
                        = TwoTo(MaxLength)
<1> DEFINE len == CurrentLength
           m == n
<1>5. /\ lengthlist \in Seq(Lengths) /\ tree.i \in Nat /\ len \in Lengths
      /\ tree.i + 1 \in 0..s.entries
      /\ Measure(lengthlist, tree.i) \in Nat
      /\ Measure(lengthlist, tree.i + 1)
           = Measure(lengthlist, tree.i) + Takes(len)
      /\ len > 0 => Tally(lengthlist, tree.i + 1, tree.count + 1)
      /\ len = lengthlist[tree.i + 1]
  BY NextEntry DEF CurrentLength
<1>m. m = MarkersAfter(tree.marker, len)
  OBVIOUS
<1>6. MaxLength \in 1..32 /\ len \in 1..MaxLength
  BY LengthsFit
<1> HIDE DEF len, m
<1>7. tree.count \in Nat /\ tree.i \in 0..Len(lengthlist)
  BY <1>5, NextEntry, TallyTells DEF Planting
<1>8. /\ MaxLength - len \in 0..32 /\ Takes(len) = TwoTo(MaxLength - len)
      /\ TwoTo(MaxLength - len) \in Nat
  <2>1. MaxLength - len \in 0..32 /\ len > 0
    BY <1>6
  <2> QED
    BY <2>1, Doubling DEF Takes
<1>9. /\ Good(m)
      /\ \E f : /\ FreeBy(m, f)
                /\ f[MaxLength] + Measure(lengthlist, tree.i + 1)
                     = TwoTo(MaxLength)
  <2>1. CASE tree.count = 0
    <3>1. tree.marker = NoMarkers /\ Measure(lengthlist, tree.i) = 0
      BY <2>1 DEF Planting
    <3>2. Measure(lengthlist, tree.i + 1) = TwoTo(MaxLength - len)
      BY <1>5, <1>8, <3>1
    <3> QED
      BY <1>m, <1>6, <3>1, <3>2, FirstMarkers
  <2>2. CASE tree.count # 0
    <3>1. Good(tree.marker) /\ tree.count > 0
      BY <1>7, <2>2 DEF Planting
    <3>2. PICK f : /\ FreeBy(tree.marker, f)
                   /\ f[MaxLength] + Measure(lengthlist, tree.i)
                        = TwoTo(MaxLength)
      BY <3>1 DEF Planting
    <3>3. tree.marker[len] > 0
      <4>1. tree.marker[len] # 0
        <5>1. len > 0
          BY <1>6
        <5> QED
          BY <1>5, <3>1, <5>1 DEF Unfit
      <4>2. len \in 0..MaxLength
        BY <1>6
      <4>3. tree.marker[len] \in Nat
        BY <3>1, <4>2, MarkerFits
      <4> QED
        BY <4>1, <4>3
    <3>4. PICK stop : Moved(tree.marker, m, len, stop)
      BY <1>m, <1>6, <3>1, <3>3, MarkersMove
    <3>5. Good(m)
      BY <1>6, <3>1, <3>4, MovedGood
    <3>6. PICK g : /\ FreeBy(m, g)
                   /\ g[MaxLength] + TwoTo(MaxLength - len) = f[MaxLength]
      BY <1>6, <3>1, <3>2, <3>3, <3>4, MovedFree
    <3>7. g[MaxLength] \in Nat /\ f[MaxLength] \in Nat
      <4>1. MaxLength \in 0..MaxLength
        BY <1>6
      <4> QED
        BY <3>2, <3>6, <4>1 DEF FreeBy
    <3>8. g[MaxLength] + Measure(lengthlist, tree.i + 1) = TwoTo(MaxLength)
      BY <1>5, <1>8, <3>2, <3>6, <3>7
    <3> QED
      BY <3>5, <3>6, <3>8
  <2> QED
    BY <2>1, <2>2
<1> QED
  BY <1>9 DEF m

LEMMA SkipTrees ==
  ASSUME Lists, Planting, SkipEntry
  PROVE  Planting'
<1>1. /\ pc = "words" /\ tree.i < s.entries /\ CurrentLength = 0
      /\ tree' = [tree EXCEPT !.i = @ + 1] /\ s' = s
      /\ lengthlist' = lengthlist
  BY DEF SkipEntry
<1>2. /\ DOMAIN tree' = DOMAIN NoTree /\ tree'.i = tree.i + 1
      /\ tree'.j = tree.j /\ tree'.count = tree.count /\ tree'.r = tree.r
      /\ tree'.marker = tree.marker /\ tree'.chase = tree.chase
      /\ tree'.top = tree.top
  BY <1>1, TreeFields DEF Planting
<1>3. /\ tree.i + 1 \in 0..s.entries /\ tree.i \in Nat
      /\ Tally(lengthlist, tree.i + 1, tree.count)
      /\ lengthlist[tree.i + 1] = 0
  BY <1>1, NextEntry DEF CurrentLength
<1>4. Measure(lengthlist, tree.i + 1) = Measure(lengthlist, tree.i)
  <2>1. Takes(CurrentLength) = 0
    BY <1>1 DEF Takes
  <2> QED
    BY <1>1, <2>1, NextEntry
<1>5. OneWord => OneWord'
  <2>1. ASSUME \A e \in 1..tree.i : lengthlist[e] <= 1
        PROVE  \A e \in 1..(tree.i + 1) : lengthlist[e] <= 1
    <3>1. \A e \in 1..(tree.i + 1) : e \in 1..tree.i \/ e = tree.i + 1
      BY <1>3
    <3> QED
      BY <1>3, <2>1, <3>1
  <2> QED
    BY <1>1, <1>2, <2>1 DEF OneWord
<1> QED
  BY <1>1, <1>2, <1>3, <1>4, <1>5 DEF Planting

(* In a book of one word, all but the first node is one too many.          *)
LEMMA OneNode ==
  ASSUME s.used_entries = 1, InPlace, tree.chase = 1
  PROVE  NoRoom
<1>1. Room = 3
  BY DEF Room
<1> QED
  BY <1>1 DEF NoRoom

LEMMA ChaseTrees ==
  ASSUME Lists, Planting, s.used_entries = 1 => InPlace, ChaseTree,
         ~RefuseWords
  PROVE  Planting'
<1> DEFINE t == Descended(tree, CurrentBit)
<1>1. /\ pc = "words" /\ tree.i < s.entries /\ ~NoRoom
      /\ tree.j < CurrentLength - 1
      /\ tree' = [t EXCEPT !.j = @ + 1]
      /\ s' = s /\ lengthlist' = lengthlist
  BY DEF ChaseTree
<1>2. DOMAIN tree = DOMAIN NoTree /\ tree.j \in Nat
  BY DEF Planting
<1>3. /\ DOMAIN t = DOMAIN NoTree /\ t.i = tree.i /\ t.j = tree.j
      /\ t.count = tree.count /\ t.marker = tree.marker
  BY <1>2, TreeFields DEF Descended
<1> HIDE DEF t
<1>4. /\ DOMAIN tree' = DOMAIN NoTree /\ tree'.i = tree.i
      /\ tree'.j = tree.j + 1 /\ tree'.count = tree.count
      /\ tree'.marker = tree.marker /\ tree'.chase = t.chase
  BY <1>1, <1>3, TreeFields
<1>5. ASSUME s.used_entries = 1 PROVE OneWord'
  <2>1. CASE tree.count = 0
    <3>1. ~(tree.chase = 1)
      BY <1>1, <1>5, OneNode
    <3>2. tree.j = 0 /\ tree.chase = 0 /\ tree.top = 0 /\ 0 \in DOMAIN tree.r
      BY <1>5, <2>1, <3>1 DEF Planting, OneWord
    <3>3. CurrentBit = 0
      <4>1. CurrentLength \in 1..MaxLength /\ CurrentLength - tree.j - 1 \in 0..32
        <5>1. CurrentLength \in Lengths
          BY <1>1, NextEntry
        <5> QED
          BY <1>1, <3>2, <5>1, LengthsFit DEF Lengths
      <4>2. tree.marker[CurrentLength] = 0
        BY <2>1, <4>1, LengthsFit DEF Planting, NoMarkers
      <4>3. TwoTo(CurrentLength - tree.j - 1) \in Nat \ {0}
        BY <4>1, Doubling
      <4>4. CurrentBit = (tree.marker[CurrentLength]
                            \div TwoTo(CurrentLength - tree.j - 1)) % 2
        BY Zenon DEF CurrentBit, TwoTo
      <4> HIDE DEF CurrentLength
      <4> QED
        BY <4>2, <4>3, <4>4
    <3>4. t.chase = [tree.r EXCEPT ![0] = 1, ![1] = 0][0]
      BY <1>2, <3>2, <3>3, TreeFields DEF Descended, t
    <3>5. t.chase = 1
      BY <3>2, <3>4
    <3> QED
      BY <1>2, <1>4, <2>1, <3>2, <3>5 DEF OneWord
  <2>2. CASE tree.count # 0
    BY <1>1, <1>4, <1>5, <2>2 DEF OneWord, Planting
  <2> QED
    BY <2>1, <2>2
<1> QED
  BY <1>1, <1>2, <1>4, <1>5 DEF Planting

LEMMA PlantTrees ==
  ASSUME Lists, Planting, s.used_entries = 1 => InPlace, PlantLeaf,
         ~RefuseWords
  PROVE  Planting'
<1> DEFINE len == CurrentLength
           leaf == LeafOf(decpack(tree.i, tree.count, opb'))
           t == Leafed(tree, CurrentBit, leaf)
<1>1. /\ pc = "words" /\ tree.i < s.entries /\ ~NoRoom /\ ~Unfit
      /\ tree.j = CurrentLength - 1
      /\ tree' = [t EXCEPT !.marker = MarkersAfter(@, len),
                           !.count = @ + 1, !.i = @ + 1,
                           !.j = 0, !.chase = 0]
      /\ s' = s /\ lengthlist' = lengthlist
  BY DEF PlantLeaf
<1>2. DOMAIN tree = DOMAIN NoTree /\ tree.j \in Nat
  BY DEF Planting
<1> HIDE DEF leaf
<1>3. /\ DOMAIN t = DOMAIN NoTree /\ t.i = tree.i /\ t.count = tree.count
      /\ t.marker = tree.marker
  BY <1>2, TreeFields DEF Leafed
<1> HIDE DEF t
<1> DEFINE m == MarkersAfter(tree.marker, len)
<1>4. /\ DOMAIN tree' = DOMAIN NoTree /\ tree'.i = tree.i + 1
      /\ tree'.j = 0 /\ tree'.count = tree.count + 1
      /\ tree'.marker = m
  <2>1. tree' = [t EXCEPT !.marker = m, !.count = tree.count + 1,
                          !.i = tree.i + 1, !.j = 0, !.chase = 0]
    BY <1>1, <1>3
  <2> HIDE DEF m, len
  <2> QED
    BY <1>3, <2>1, TreeFields
<1>5. /\ lengthlist \in Seq(Lengths) /\ tree.i \in Nat /\ len \in Lengths
      /\ tree.i + 1 \in 0..s.entries
      /\ Measure(lengthlist, tree.i) \in Nat
      /\ Measure(lengthlist, tree.i + 1)
           = Measure(lengthlist, tree.i) + Takes(len)
      /\ len > 0 => Tally(lengthlist, tree.i + 1, tree.count + 1)
      /\ len = lengthlist[tree.i + 1]
  BY <1>1, NextEntry DEF CurrentLength
<1>6. MaxLength \in 1..32 /\ len \in 1..MaxLength /\ tree.j = len - 1
  <2>1. MaxLength \in 1..32 /\ len \in 0..MaxLength
    BY <1>5, LengthsFit DEF Lengths
  <2>2. tree.j = len - 1
    BY <1>1
  <2> HIDE DEF len
  <2> QED
    BY <1>2, <2>1, <2>2
<1> HIDE DEF len
<1>7. tree.count \in Nat /\ tree.i \in 0..Len(lengthlist)
  BY <1>1, <1>5, NextEntry, TallyTells DEF Planting
<1>8. /\ MaxLength - len \in 0..32 /\ Takes(len) = TwoTo(MaxLength - len)
      /\ TwoTo(MaxLength - len) \in Nat
  <2>1. MaxLength - len \in 0..32 /\ len > 0
    BY <1>6
  <2> QED
    BY <2>1, Doubling DEF Takes
<1>9. /\ Good(m)
      /\ \E f : /\ FreeBy(m, f)
                /\ f[MaxLength] + Measure(lengthlist, tree.i + 1)
                     = TwoTo(MaxLength)
  BY <1>1, <1>6, MarkersGoOn DEF len
<1> HIDE DEF m
<1>10. ASSUME s.used_entries = 1 PROVE OneWord'
  <2>1. tree'.count # 0 /\ (tree'.count = 1 => tree.count = 0)
    BY <1>4, <1>7
  <2>2. ASSUME tree.count = 0
        PROVE  \A e \in 1..(tree.i + 1) : lengthlist[e] <= 1
    <3>1. ~(tree.chase = 1)
      BY <1>1, <1>10, OneNode
    <3>2. len = 1
      <4>1. tree.j = 0
        BY <1>10, <2>2, <3>1 DEF Planting, OneWord
      <4> QED
        BY <1>6, <4>1
    <3>3. \A e \in 1..tree.i : lengthlist[e] = 0
      BY <1>5, <1>7, <2>2, TallyTells DEF Planting
    <3>4. \A e \in 1..(tree.i + 1) : e \in 1..tree.i \/ e = tree.i + 1
      BY <1>5
    <3>5. lengthlist[tree.i + 1] = 1
      BY <1>5, <3>2
    <3>6. ASSUME NEW e \in 1..(tree.i + 1) PROVE lengthlist[e] <= 1
      <4>1. CASE e \in 1..tree.i
        <5>1. lengthlist[e] = 0
          BY <3>3, <4>1
        <5> QED
          BY <5>1
      <4>2. CASE e = tree.i + 1
        BY <3>5, <4>2
      <4> QED
        BY <3>4, <4>1, <4>2
    <3> QED
      BY <3>6
  <2> QED
    BY <1>1, <1>4, <2>1, <2>2 DEF OneWord
<1>11. Tally(lengthlist, tree.i + 1, tree.count + 1)
  BY <1>5, <1>6
<1>12. tree'.count > 0 /\ tree'.count # 0 /\ tree'.j \in Nat
  BY <1>4, <1>7
<1> QED
  BY <1>1, <1>4, <1>5, <1>9, <1>10, <1>11, <1>12 DEF Planting

LEMMA TreesStep ==
  ASSUME BInv, Lists, Trees, [DecodeNext]_allVars
  PROVE  Trees'
<1>0. DOMAIN s = DOMAIN NoBook
  BY DEF BInv, Pointers
<1>1. ASSUME NEW h, NEW listed, Refuse(h, listed) PROVE Trees'
  BY <1>1 DEF Refuse, Trees
<1>2. ASSUME RefuseWords PROVE Trees'
  BY <1>1, <1>2, Zenon DEF RefuseWords
<1>3. CASE ReadParameters \/ ReadOrdering \/ ReadLength \/ ReadRun
  <2>1. CASE \E listed : Refuse(heap, listed)
    BY <1>1, <2>1
  <2>2. CASE ~Refuse(heap, FALSE) /\ ~Refuse(heap, TRUE)
    <3>1. pc' \in {"ordering", "lengths", "runs", "mapping"}
      BY <1>3, <2>2, Zenon
         DEF ReadParameters, ReadOrdering, ReadLength, ReadRun,
                        NextListed
    <3> QED
      BY <3>1 DEF Trees
  <2> QED
    BY <2>1, <2>2, Zenon
<1>4. CASE ReadMapping
  <2>1. CASE ~Refuse(heap, TRUE)
    BY <1>0, <1>4, <2>1, MappingSizes DEF Trees, InPlace
  <2> QED
    BY <1>1, <2>1, Zenon
<1>5. CASE PolishQuantvals
  <2>1. pc' \in {"quantvals", "lattice"}
    BY <1>5 DEF PolishQuantvals
  <2> QED
    BY <2>1 DEF Trees
<1>6. CASE AllocLattice
  <2>1. CASE ~Refuse(heap, TRUE)
    <3>1. pc' = "values"
      BY <1>6, <2>1 DEF AllocLattice
    <3> QED
      BY <3>1 DEF Trees
  <2> QED
    BY <1>1, <2>1, Zenon
<1>7. CASE ReadLattice
  <2>1. CASE ~Refuse(heap, TRUE)
    BY <1>0, <1>7, <2>1, LatticeSizes DEF Trees, InPlace
  <2> QED
    BY <1>1, <2>1, Zenon
<1>8. CASE AllocWords
  BY <1>0, <1>1, <1>8, AllocTrees
<1>9. CASE SkipEntry \/ ChaseTree \/ PlantLeaf
  <2>1. CASE ~RefuseWords
    <3>1. pc = "words" /\ pc' = "words" /\ s' = s
      BY <1>9, <2>1 DEF SkipEntry, ChaseTree, PlantLeaf
    <3>2. Planting /\ (s.used_entries = 1 => InPlace)
      BY <3>1 DEF Trees
    <3>3. Planting'
      BY <1>9, <2>1, <3>2, SkipTrees, ChaseTrees, PlantTrees
    <3> QED
      BY <3>1, <3>2, <3>3 DEF Trees, InPlace
  <2> QED
    BY <1>2, <2>1
<1>10. CASE EndWords
  <2>1. CASE ~RefuseWords
    <3>1. /\ pc = "words" /\ pc' = "pack" /\ ~Unfit /\ tree.i = s.entries
          /\ lengthlist' = lengthlist
      BY <1>10, <2>1 DEF EndWords
    <3>2. IsTree(lengthlist')
      BY <3>1, FitIsTree DEF Trees
    <3> QED
      BY <3>1, <3>2 DEF Trees
  <2> QED
    BY <1>2, <2>1
<1>11. CASE PackTable \/ ReadScalars \/ Finish
  <2>1. CASE ~RefuseWords /\ ~Refuse(heap, TRUE)
    <3>1. /\ pc \in {"pack", "scalars", "end"} /\ pc' \in {"scalars", "end", "ok"}
          /\ lengthlist' = lengthlist
      BY <1>11, <2>1 DEF PackTable, ReadScalars, Finish
    <3> QED
      BY <3>1 DEF Trees
  <2> QED
    BY <1>1, <1>2, <2>1, Zenon
<1>12. CASE Clear
  BY <1>12 DEF Clear, vorbis_book_clear, Trees
<1>13. CASE StartCall \/ NextVector \/ LookAhead \/ WalkBit \/ WalkEnds \/ UseEntry
  <2>1. UNCHANGED <<pc, s, lengthlist, tree>>
    BY <1>13, Zenon DEF StartCall, NextVector, LookAhead, WalkBit, WalkEnds, UseEntry,
                 Return, vars
  <2> QED
    BY <2>1 DEF Trees, Planting, OneWord, InPlace
<1>14. CASE UNCHANGED allVars
  BY <1>14 DEF allVars, vars, Trees, Planting, OneWord, InPlace
<1> QED
  BY <1>3, <1>4, <1>5, <1>6, <1>7, <1>8, <1>9, <1>10, <1>11, <1>12, <1>13,
     <1>14 DEF DecodeNext, Unpack, vorbis_book_unpack

-----------------------------------------------------------------------------
(* The bits of a word.                                                     *)

LEMMA QuotientIs ==
  ASSUME NEW b \in Nat, b > 0, NEW q \in Nat, NEW r \in Nat, r < b
  PROVE  (q * b + r) \div b = q
<1> DEFINE a == q * b + r
           p == a \div b
           t == a % b
<1>1. a \in Nat
  OBVIOUS
<1>2. p \in Nat /\ t \in Nat /\ t < b /\ a = p * b + t
  <2> HIDE DEF a
  <2> QED
    BY <1>1
<1>3. q * b \in Nat /\ a = q * b + r
  OBVIOUS
<1> HIDE DEF a, p, t
<1>4. ASSUME p > q PROVE FALSE
  <2>1. PICK d \in Nat : p = q + 1 + d
    <3>1. p - q - 1 \in Nat /\ p = q + 1 + (p - q - 1)
      BY <1>2, <1>4
    <3> QED
      BY <3>1
  <2>2. p * b = q * b + b + d * b
    BY <1>2, <2>1
  <2>3. d * b \in Nat
    OBVIOUS
  <2> QED
    BY <1>2, <1>3, <2>2, <2>3
<1>5. ASSUME p < q PROVE FALSE
  <2>1. PICK d \in Nat : q = p + 1 + d
    <3>1. q - p - 1 \in Nat /\ q = p + 1 + (q - p - 1)
      BY <1>2, <1>5
    <3> QED
      BY <3>1
  <2>2. q * b = p * b + b + d * b
    BY <1>2, <2>1
  <2>3. d * b \in Nat /\ p * b \in Nat
    BY <1>2
  <2> QED
    BY <1>2, <1>3, <2>2, <2>3
<1>6. p = q
  BY <1>2, <1>4, <1>5
<1> QED
  BY <1>6 DEF p, a

LEMMA HalvesAlike ==
  ASSUME NEW x \in Nat, NEW y \in Nat, y > 0
  PROVE  /\ (2 * x) \div (2 * y) = x \div y
         /\ (2 * x + 1) \div (2 * y) = x \div y
<1> DEFINE q == x \div y
           r == x % y
           z == 2 * y
<1>1. q \in Nat /\ r \in Nat /\ r < y /\ x = q * y + r
  OBVIOUS
<1> HIDE DEF q, r
<1>2. /\ z \in Nat /\ z > 0 /\ 2 * r \in Nat /\ 2 * r < z
      /\ 2 * r + 1 \in Nat /\ 2 * r + 1 < z
  BY <1>1
<1>3. 2 * x = q * z + 2 * r /\ 2 * x + 1 = q * z + (2 * r + 1)
  BY <1>1
<1> HIDE DEF z
<1>4. (q * z + 2 * r) \div z = q /\ (q * z + (2 * r + 1)) \div z = q
  BY <1>1, <1>2, QuotientIs
<1>5. (2 * x) \div z = q /\ (2 * x + 1) \div z = q
  BY <1>3, <1>4
<1> QED
  BY <1>5 DEF z, q

(* Bit k, from the first, of a word of n bits.                             *)
Bit(x, n, k) == (x \div TwoTo(n - k - 1)) % 2

LEMMA LastBit ==
  ASSUME NEW x \in Nat, NEW n \in 1..32
  PROVE  Bit(x, n, n - 1) = x % 2
<1>1. n - (n - 1) - 1 = 0
  OBVIOUS
<1>2. 0 \in 0..32
  OBVIOUS
<1>3. TwoTo(0) = 1
  BY <1>2, Doubling
<1> QED
  BY <1>1, <1>3 DEF Bit

(* A word that hangs from another has the bits of that and one more.       *)
LEMMA BitsHang ==
  ASSUME NEW x \in Nat, NEW n \in 0..31, NEW k \in 0..(n - 1)
  PROVE  /\ Bit(2 * x, n + 1, k) = Bit(x, n, k)
         /\ Bit(2 * x + 1, n + 1, k) = Bit(x, n, k)
<1> DEFINE d == n - k - 1
<1>1. d \in 0..32 /\ d < 32 /\ (n + 1) - k - 1 = d + 1
  OBVIOUS
<1> HIDE DEF d
<1>2. /\ TwoTo(d + 1) = 2 * TwoTo(d) /\ TwoTo(d) \in Nat /\ TwoTo(d) > 0
  BY <1>1, Doubling
<1>3. /\ (2 * x) \div TwoTo(d + 1) = x \div TwoTo(d)
      /\ (2 * x + 1) \div TwoTo(d + 1) = x \div TwoTo(d)
  BY <1>2, HalvesAlike
<1>4. /\ Bit(2 * x, n + 1, k) = ((2 * x) \div TwoTo(d + 1)) % 2
      /\ Bit(2 * x + 1, n + 1, k) = ((2 * x + 1) \div TwoTo(d + 1)) % 2
      /\ Bit(x, n, k) = (x \div TwoTo(d)) % 2
  BY <1>1 DEF Bit, d
<1> QED
  BY <1>3, <1>4

-----------------------------------------------------------------------------
(* The odd markers: the lengths that have a free word beside the tree.     *)

Odd(m) == {j \in 1..MaxLength : m[j] % 2 = 1}

LEMMA OddIsFinite ==
  ASSUME NEW m
  PROVE  IsFiniteSet(Odd(m)) /\ Cardinality(Odd(m)) \in Nat
<1>1. 1 \in Int /\ MaxLength \in Int
  BY LengthsFit
<1>2. IsFiniteSet(1..MaxLength) /\ Odd(m) \in SUBSET (1..MaxLength)
  BY <1>1, FS_Interval DEF Odd
<1>3. IsFiniteSet(Odd(m))
  BY <1>2, FS_Subset
<1> QED
  BY <1>3, FS_CardinalityType

LEMMA NoneOdd == Odd(NoMarkers) = {} /\ Cardinality(Odd(NoMarkers)) = 0
<1>1. Odd(NoMarkers) = {}
  BY LengthsFit DEF Odd, NoMarkers
<1> QED
  BY <1>1, FS_EmptySet

(* A codeword of length L, which hangs from the free word of length stop,  *)
(* or is the first.                                                        *)
Taken(m, n, L, stop) ==
  /\ m \in [0..MaxLength -> Nat] /\ n \in [0..MaxLength -> Nat]
  /\ stop \in 0..L
  /\ stop > 0 => m[stop] % 2 = 1 /\ n[stop] % 2 = 0
  /\ stop = 0 => m[0] = 0
  /\ \A j \in (stop + 1)..L : m[j] = 2 * m[j - 1] /\ n[j] = m[j] + 1
  /\ \A j \in 1..MaxLength : j < stop \/ j > L =>
       n[j] % 2 = m[j] % 2 /\ (n[j] % 2 = 1 => n[j] = m[j])

LEMMA MovedIsTaken ==
  ASSUME NEW m, Good(m), NEW L \in 1..MaxLength, NEW n, NEW stop,
         Moved(m, n, L, stop)
  PROVE  Taken(m, n, L, stop) /\ stop > 0
<1>0. /\ MaxLength \in 1..32 /\ stop \in 1..L
      /\ n \in [0..MaxLength -> Nat] /\ m \in [0..MaxLength -> Nat]
      /\ m[stop] % 2 = 1 /\ n[stop] = 2 * m[stop - 1]
  BY LengthsFit DEF Moved, Good
<1>1. n[stop] % 2 = 0
  <2>1. m[stop - 1] \in Nat
    BY <1>0
  <2> QED
    BY <1>0, <2>1
<1>2. ASSUME NEW j \in (stop + 1)..L
      PROVE  m[j] = 2 * m[j - 1] /\ n[j] = m[j] + 1
  <2>1. j \in 1..MaxLength
    BY <1>0
  <2>2. m[j] % 2 = 0 /\ n[j] = m[j] + 1
    BY DEF Moved
  <2>3. m[j] % 2 = 1 \/ m[j] = 2 * m[j - 1]
    BY <2>1 DEF Good
  <2> QED
    BY <2>2, <2>3
<1>3. ASSUME NEW j \in 1..MaxLength, j < stop \/ j > L
      PROVE  n[j] % 2 = m[j] % 2 /\ (n[j] % 2 = 1 => n[j] = m[j])
  <2>0. j \in 0..MaxLength /\ j - 1 \in 0..MaxLength
    BY <1>0
  <2>1. m[j] \in Nat /\ n[j] \in Nat /\ m[j - 1] \in Nat /\ n[j - 1] \in Nat
    BY <1>0, <2>0
  <2>2. CASE j < stop
    <3>1. n[j] = m[j]
      BY <1>0, <2>2 DEF Moved
    <3> QED
      BY <3>1
  <2>3. CASE j > L
    <3>1. j \in (L + 1)..MaxLength
      BY <1>0, <2>3
    <3>2. \/ m[j] = 2 * m[j - 1] /\ n[j] = 2 * n[j - 1]
          \/ n[j] = m[j]
      BY <3>1 DEF Moved
    <3> QED
      BY <2>1, <3>2
  <2> QED
    BY <1>3, <2>2, <2>3
<1>4. stop \in 0..L /\ stop > 0 /\ stop # 0
  BY <1>0
<1>5. \A j \in 1..MaxLength : j < stop \/ j > L =>
        n[j] % 2 = m[j] % 2 /\ (n[j] % 2 = 1 => n[j] = m[j])
  BY <1>3
<1>6. \A j \in (stop + 1)..L : m[j] = 2 * m[j - 1] /\ n[j] = m[j] + 1
  BY <1>2
<1> QED
  BY <1>0, <1>1, <1>4, <1>5, <1>6, Zenon DEF Taken

LEMMA FirstIsTaken ==
  ASSUME NEW L \in 1..MaxLength
  PROVE  Taken(NoMarkers, MarkersAfter(NoMarkers, L), L, 0)
<1> DEFINE n == MarkersAfter(NoMarkers, L)
<1>0. MaxLength \in 1..32
  BY LengthsFit
<1>1. /\ n \in [0..MaxLength -> Nat] /\ \A j \in 1..L : n[j] = 1
      /\ \A j \in (L + 1)..MaxLength : n[j] % 2 = 0
  BY FirstMarkers DEF Good
<1> HIDE DEF n
<1>2. /\ NoMarkers \in [0..MaxLength -> Nat]
      /\ \A j \in 0..MaxLength : NoMarkers[j] = 0
  BY DEF NoMarkers
<1>3. ASSUME NEW j \in 1..L
      PROVE  NoMarkers[j] = 2 * NoMarkers[j - 1] /\ n[j] = NoMarkers[j] + 1
  BY <1>0, <1>1, <1>2
<1>4. ASSUME NEW j \in 1..MaxLength, j < 0 \/ j > L
      PROVE  n[j] % 2 = NoMarkers[j] % 2 /\ n[j] % 2 = 0
  BY <1>0, <1>1, <1>2, <1>4
<1>5. 0 \in 0..L /\ ~(0 > 0) /\ 0 + 1 = 1 /\ NoMarkers[0] = 0
  BY <1>0, <1>2
<1>6. ASSUME NEW j \in 1..MaxLength, j < 0 \/ j > L
      PROVE  /\ n[j] % 2 = NoMarkers[j] % 2
             /\ n[j] % 2 = 1 => n[j] = NoMarkers[j]
  BY <1>4, <1>6
<1>7. Taken(NoMarkers, n, L, 0)
  BY <1>1, <1>2, <1>3, <1>5, <1>6 DEF Taken
<1> QED
  BY <1>7 DEF n

(* What it does to the odd markers.                                        *)
LEMMA TakenOdd ==
  ASSUME NEW L \in 1..MaxLength, NEW m, NEW n, NEW stop,
         Taken(m, n, L, stop)
  PROVE  /\ Odd(n) = (Odd(m) \ {stop}) \cup ((stop + 1)..L)
         /\ (Odd(m) \ {stop}) \cap ((stop + 1)..L) = {}
         /\ \A j \in Odd(m) \ {stop} : n[j] = m[j]
         /\ stop > 0 => stop \in Odd(m)
<1>0. /\ MaxLength \in 1..32 /\ stop \in 0..L
      /\ m \in [0..MaxLength -> Nat] /\ n \in [0..MaxLength -> Nat]
  BY LengthsFit DEF Taken
<1>1. ASSUME NEW j \in (stop + 1)..L PROVE m[j] % 2 = 0 /\ n[j] % 2 = 1
  <2>1. m[j] = 2 * m[j - 1] /\ n[j] = m[j] + 1
    BY DEF Taken
  <2>2. m[j - 1] \in Nat
    BY <1>0
  <2> QED
    BY <2>1, <2>2
<1>2. ASSUME NEW j \in 1..MaxLength
      PROVE  j \in Odd(n) <=> j \in (Odd(m) \ {stop}) \cup ((stop + 1)..L)
  <2>1. CASE j = stop
    <3>1. n[stop] % 2 = 0
      BY <1>0, <2>1 DEF Taken
    <3> QED
      BY <1>0, <2>1, <3>1 DEF Odd
  <2>2. CASE j \in (stop + 1)..L
    BY <1>1, <2>2 DEF Odd
  <2>3. CASE j < stop \/ j > L
    <3>1. n[j] % 2 = m[j] % 2
      BY <2>3 DEF Taken
    <3>2. j # stop /\ j \notin (stop + 1)..L
      BY <1>0, <2>3
    <3>3. j \in Odd(n) <=> j \in Odd(m)
      BY <3>1 DEF Odd
    <3> QED
      BY <3>2, <3>3
  <2> QED
    BY <1>0, <2>1, <2>2, <2>3
<1>3. /\ Odd(n) \subseteq 1..MaxLength
      /\ (Odd(m) \ {stop}) \cup ((stop + 1)..L) \subseteq 1..MaxLength
  BY <1>0 DEF Odd
<1>4. Odd(n) = (Odd(m) \ {stop}) \cup ((stop + 1)..L)
  BY <1>2, <1>3
<1>5. (Odd(m) \ {stop}) \cap ((stop + 1)..L) = {}
  BY <1>1 DEF Odd
<1>6. ASSUME NEW j \in Odd(m) \ {stop} PROVE n[j] = m[j]
  <2>0. j \in 1..MaxLength /\ j # stop /\ j \notin (stop + 1)..L
    BY <1>5 DEF Odd
  <2>1. j \in 1..MaxLength /\ (j < stop \/ j > L)
    BY <1>0, <2>0
  <2>2. n[j] % 2 = 1
    <3>1. n[j] % 2 = m[j] % 2 /\ m[j] % 2 = 1
      BY <2>1 DEF Taken, Odd
    <3> QED
      BY <3>1
  <2> QED
    BY <2>1, <2>2 DEF Taken
<1>7. stop > 0 => stop \in Odd(m)
  BY <1>0 DEF Taken, Odd
<1> QED
  BY <1>4, <1>5, <1>6, <1>7

LEMMA TakenCount ==
  ASSUME NEW L \in 1..MaxLength, NEW m, NEW n, NEW stop,
         Taken(m, n, L, stop)
  PROVE  Cardinality(Odd(n)) = Cardinality(Odd(m)) + (L - stop)
                                 - (IF stop > 0 THEN 1 ELSE 0)
<1> DEFINE rest == Odd(m) \ {stop}
           new == (stop + 1)..L
<1>0. MaxLength \in 1..32 /\ stop \in 0..L
  BY LengthsFit DEF Taken
<1>1. IsFiniteSet(Odd(m)) /\ Cardinality(Odd(m)) \in Nat
  BY OddIsFinite
<1>2. /\ IsFiniteSet(rest)
      /\ Cardinality(rest) =
           IF stop \in Odd(m) THEN Cardinality(Odd(m)) - 1
           ELSE Cardinality(Odd(m))
  BY <1>1, FS_RemoveElement
<1>3. stop > 0 <=> stop \in Odd(m)
  BY <1>0, TakenOdd DEF Odd
<1>4. IsFiniteSet(new) /\ Cardinality(new) = L - stop
  <2>1. stop + 1 \in Int /\ L \in Int
    BY <1>0
  <2>2. IsFiniteSet(new) /\ Cardinality(new) =
          IF stop + 1 > L THEN 0 ELSE L - (stop + 1) + 1
    BY <2>1, FS_Interval
  <2>3. (IF stop + 1 > L THEN 0 ELSE L - (stop + 1) + 1) = L - stop
    BY <1>0
  <2> QED
    BY <2>2, <2>3
<1>5. Odd(n) = rest \cup new /\ rest \cap new = {}
  BY TakenOdd
<1> HIDE DEF rest, new
<1>6. Cardinality(rest \cup new) =
        Cardinality(rest) + Cardinality(new) - Cardinality(rest \cap new)
  BY <1>2, <1>4, FS_Union
<1>7. Cardinality(rest \cap new) = 0
  BY <1>5, FS_EmptySet
<1> QED
  BY <1>0, <1>1, <1>2, <1>3, <1>4, <1>5, <1>6, <1>7

(* The word taken is that of length stop, followed by zeros.               *)
LEMMA TakenBits ==
  ASSUME NEW L \in 1..MaxLength, NEW m, NEW n, NEW stop,
         Taken(m, n, L, stop), NEW j \in stop..L
  PROVE  /\ \A k \in 0..(stop - 1) : Bit(m[j], j, k) = Bit(m[stop], stop, k)
         /\ \A k \in stop..(j - 1) : Bit(m[j], j, k) = 0
<1> DEFINE Alike(i) ==
             /\ \A k \in 0..(stop - 1) : Bit(m[i], i, k) = Bit(m[stop], stop, k)
             /\ \A k \in stop..(i - 1) : Bit(m[i], i, k) = 0
           T == {d \in Nat : stop + d <= L => Alike(stop + d)}
<1>0. /\ MaxLength \in 1..32 /\ stop \in 0..L
      /\ m \in [0..MaxLength -> Nat]
  BY LengthsFit DEF Taken
<1>1. 0 \in T
  <2>1. stop + 0 = stop /\ \A k \in stop..(stop - 1) : FALSE
    BY <1>0
  <2> QED
    BY <2>1
<1>2. ASSUME NEW d \in Nat, d \in T PROVE d + 1 \in T
  <2> SUFFICES ASSUME stop + (d + 1) <= L PROVE Alike(stop + (d + 1))
    OBVIOUS
  <2> DEFINE i == stop + d
  <2>1. /\ i \in 0..31 /\ i + 1 \in (stop + 1)..L /\ (i + 1) - 1 = i
        /\ stop + (d + 1) = i + 1 /\ i <= L /\ i \in 0..MaxLength
        /\ i + 1 \in 1..32 /\ i >= stop
    BY <1>0
  <2>2. Alike(i)
    BY <1>2, <2>1
  <2> HIDE DEF i
  <2>3. m[i + 1] = 2 * m[i] /\ m[i] \in Nat
    BY <1>0, <2>1 DEF Taken
  <2>4. \A k \in 0..(i - 1) : Bit(m[i + 1], i + 1, k) = Bit(m[i], i, k)
    BY <2>1, <2>3, BitsHang
  <2>5. Bit(m[i + 1], i + 1, i) = 0
    <3>1. 2 * m[i] \in Nat /\ (2 * m[i]) % 2 = 0
      BY <2>3
    <3>2. Bit(2 * m[i], i + 1, (i + 1) - 1) = (2 * m[i]) % 2
      BY <2>1, <3>1, LastBit
    <3> QED
      BY <2>1, <2>3, <3>1, <3>2
  <2>6. ASSUME NEW k \in 0..(stop - 1)
        PROVE  Bit(m[i + 1], i + 1, k) = Bit(m[stop], stop, k)
    <3>1. k \in 0..(i - 1)
      BY <1>0, <2>1
    <3> QED
      BY <2>2, <2>4, <3>1
  <2>7. ASSUME NEW k \in stop..((i + 1) - 1) PROVE Bit(m[i + 1], i + 1, k) = 0
    <3>1. CASE k = i
      BY <2>5, <3>1
    <3>2. CASE k # i
      <4>1. k \in 0..(i - 1) /\ k \in stop..(i - 1)
        BY <1>0, <2>1, <3>2
      <4> QED
        BY <2>2, <2>4, <4>1
    <3> QED
      BY <3>1, <3>2
  <2> QED
    BY <2>1, <2>6, <2>7
<1> HIDE DEF T
<1>3. Nat \subseteq T
  BY <1>1, <1>2, InductiveSet
<1>4. j - stop \in Nat /\ stop + (j - stop) = j /\ j <= L
  BY <1>0
<1> HIDE DEF Alike
<1>5. Alike(j)
  BY <1>3, <1>4 DEF T
<1> QED
  BY <1>5 DEF Alike

(* The words that become free begin like it.                               *)
LEMMA FreedBits ==
  ASSUME NEW L \in 1..MaxLength, NEW m, NEW n, NEW stop,
         Taken(m, n, L, stop), NEW j \in (stop + 1)..L, NEW k \in 0..(j - 2)
  PROVE  Bit(n[j], j, k) = IF k < stop THEN Bit(m[stop], stop, k) ELSE 0
<1>0. /\ MaxLength \in 1..32 /\ stop \in 0..L
      /\ m \in [0..MaxLength -> Nat]
  BY LengthsFit DEF Taken
<1> DEFINE i == j - 1
<1>1. /\ i \in 0..31 /\ i + 1 = j /\ k \in 0..(i - 1) /\ i \in stop..L
      /\ i \in 0..MaxLength
  BY <1>0
<1>2. n[j] = 2 * m[i] + 1
  BY <1>1 DEF Taken
<1> HIDE DEF i
<1>3. m[i] \in Nat
  BY <1>0, <1>1
<1>4. Bit(n[j], j, k) = Bit(m[i], i, k)
  BY <1>1, <1>2, <1>3, BitsHang
<1>5. CASE k < stop
  <2>1. k \in 0..(stop - 1)
    BY <1>0, <1>1, <1>5
  <2> QED
    BY <1>1, <1>4, <1>5, <2>1, TakenBits
<1>6. CASE ~(k < stop)
  <2>1. k \in stop..(i - 1)
    BY <1>0, <1>1, <1>6
  <2> QED
    BY <1>1, <1>4, <1>6, <2>1, TakenBits
<1> QED
  BY <1>5, <1>6

(* Each odd marker takes at least one of the words still to come.          *)
LEMMA EnoughWords ==
  ASSUME NEW list \in Seq(Lengths),
         Measure(list, Len(list)) = TwoTo(MaxLength),
         NEW u, Tally(list, Len(list), u),
         NEW i \in 0..Len(list), NEW c, Tally(list, i, c),
         NEW m, Good(m), NEW f, FreeBy(m, f),
         f[MaxLength] + Measure(list, i) = TwoTo(MaxLength)
  PROVE  c + Cardinality(Odd(m)) <= u
<1> DEFINE Suits(k, n, o, g) ==
             Tally(list, k, n) /\ Good(o) /\ FreeBy(o, g)
               /\ g[MaxLength] + Measure(list, k) = TwoTo(MaxLength)
           Holds(k) == \A n, o, g :
             Suits(k, n, o, g) => n + Cardinality(Odd(o)) <= u
           T == {d \in Nat : d <= Len(list) => Holds(Len(list) - d)}
<1>0. /\ MaxLength \in 1..32 /\ MaxLength \in 0..MaxLength
      /\ MaxLength \in 0..32 /\ Len(list) \in Nat
      /\ Len(list) \in 0..Len(list) /\ TwoTo(MaxLength) \in Nat
  <2>1. MaxLength \in 1..32
    BY LengthsFit
  <2>2. MaxLength \in 0..32 /\ MaxLength \in 0..MaxLength
    BY <2>1
  <2>3. TwoTo(MaxLength) \in Nat
    BY <2>2, Doubling
  <2>4. Len(list) \in Nat
    OBVIOUS
  <2>5. Len(list) \in 0..Len(list)
    BY <2>4
  <2> QED
    BY <2>1, <2>2, <2>3, <2>4, <2>5
<1>1. 0 \in T
  <2>0. Len(list) - 0 = Len(list)
    BY <1>0
  <2> SUFFICES ASSUME NEW n, NEW o, NEW g, Suits(Len(list), n, o, g)
               PROVE  n + Cardinality(Odd(o)) <= u
    BY <2>0
  <2>1. n = u /\ n \in Nat
    BY <1>0, TallyTells DEF Tally
  <2>2. g[MaxLength] \in Nat
    BY <1>0 DEF FreeBy
  <2>3. ~(g[MaxLength] > 0)
    BY <1>0, <2>2
  <2>4. ~Underpopulated(o)
    BY <2>3, LeftOver
  <2>5. Odd(o) = {}
    <3> SUFFICES ASSUME NEW j \in Odd(o) PROVE FALSE
      OBVIOUS
    <3>1. j \in 1..MaxLength /\ o[j] % 2 = 1
      BY DEF Odd
    <3>2. j \in 0..MaxLength /\ j \in 0..32
      BY <1>0, <3>1
    <3>3. o[j] \in Nat /\ o[j] < TwoTo(j) /\ TwoTo(j) \in Nat \ {0}
      BY <3>2, MarkerFits, Doubling
    <3>4. o[j] % TwoTo(j) # 0
      <4>1. o[j] % TwoTo(j) = o[j]
        BY <3>3
      <4> QED
        BY <3>1, <3>3, <4>1
    <3> QED
      BY <2>4, <3>1, <3>4, Zenon DEF Underpopulated, TwoTo
  <2>6. Cardinality(Odd(o)) = 0
    BY <2>5, FS_EmptySet
  <2> QED
    BY <2>1, <2>6
<1>2. ASSUME NEW d \in Nat, d \in T PROVE d + 1 \in T
  <2> SUFFICES ASSUME d + 1 <= Len(list) PROVE Holds(Len(list) - (d + 1))
    OBVIOUS
  <2> DEFINE k == Len(list) - (d + 1)
             len == list[k + 1]
  <2>1. /\ k \in 0..Len(list) /\ k \in Nat /\ k < Len(list)
        /\ k + 1 = Len(list) - d /\ d <= Len(list)
        /\ k + 1 \in 0..Len(list) /\ k + 1 \in 1..Len(list)
    BY <1>0
  <2>2. Holds(k + 1)
    BY <1>2, <2>1
  <2> HIDE DEF k
  <2>3. len \in 0..MaxLength /\ len \in Lengths
    <3>1. list[k + 1] \in Lengths
      BY <2>1
    <3> QED
      BY <3>1 DEF Lengths
  <2>4. /\ Measure(list, k) \in Nat
        /\ Measure(list, k + 1) = Measure(list, k) + Takes(len)
        /\ Measure(list, k + 1) <= TwoTo(MaxLength)
    BY <2>1, MeasureStep, MeasureGrows
  <2>5. \A e \in 1..(k + 1) : list[e] \in Nat
    <3> TAKE e \in 1..(k + 1)
    <3>1. e \in 1..Len(list)
      BY <1>0, <2>1
    <3> QED
      BY <1>0, <3>1 DEF Lengths
  <2> SUFFICES ASSUME NEW n, NEW o, NEW g, Suits(k, n, o, g)
               PROVE  n + Cardinality(Odd(o)) <= u
    BY DEF k
  <2>6. n \in Nat /\ u \in Nat
    BY <1>0, <2>1, TallyTells
  <2>7. /\ len = 0 => Tally(list, k + 1, n)
        /\ len > 0 => Tally(list, k + 1, n + 1)
    BY <2>1, <2>5, TallyStep
  <2> HIDE DEF len
  <2>8. CASE len = 0
    <3>1. Takes(len) = 0
      BY <2>8 DEF Takes
    <3>2. Suits(k + 1, n, o, g)
      BY <2>4, <2>7, <2>8, <3>1
    <3> QED
      BY <2>2, <3>2
  <2>9. CASE len # 0
    <3>1. /\ len \in 1..MaxLength /\ len > 0 /\ MaxLength - len \in 0..32
          /\ len \in 0..MaxLength
      BY <1>0, <2>3, <2>9
    <3>2. Takes(len) = TwoTo(MaxLength - len) /\ Takes(len) \in Nat
      BY <3>1, Doubling DEF Takes
    <3>3. g[MaxLength] \in Nat
      BY <1>0 DEF FreeBy
    <3>4. o[len] > 0
      <4>1. ~(g[MaxLength] < TwoTo(MaxLength - len))
        BY <1>0, <2>4, <3>2, <3>3
      <4>2. o[len] # 0
        BY <3>1, <4>1, FreeBelow
      <4> QED
        BY <3>1, <4>2, MarkerFits
    <3> DEFINE p == MarkersAfter(o, len)
    <3>5. PICK stop : Moved(o, p, len, stop)
      BY <3>1, <3>4, MarkersMove
    <3> HIDE DEF p
    <3>6. PICK h : FreeBy(p, h) /\ h[MaxLength] + TwoTo(MaxLength - len) = g[MaxLength]
      BY <3>1, <3>4, <3>5, MovedFree
    <3>7. Good(p)
      BY <3>1, <3>5, MovedGood
    <3>8. h[MaxLength] \in Nat
      BY <1>0, <3>6 DEF FreeBy
    <3>9. h[MaxLength] + Measure(list, k + 1) = TwoTo(MaxLength)
      BY <1>0, <2>4, <3>2, <3>3, <3>6, <3>8
    <3>10. Suits(k + 1, n + 1, p, h)
      BY <2>7, <3>1, <3>6, <3>7, <3>9
    <3>11. n + 1 + Cardinality(Odd(p)) <= u
      BY <2>2, <3>10
    <3>12. Taken(o, p, len, stop) /\ stop > 0
      BY <3>1, <3>5, MovedIsTaken
    <3>13. /\ Cardinality(Odd(p)) = Cardinality(Odd(o)) + (len - stop) - 1
           /\ stop \in 0..len
      BY <3>1, <3>12, TakenCount DEF Taken
    <3>14. Cardinality(Odd(o)) \in Nat /\ Cardinality(Odd(p)) \in Nat
      BY OddIsFinite
    <3> HIDE DEF Suits, Holds, T
    <3> QED
      BY <2>6, <3>1, <3>11, <3>13, <3>14
  <2> QED
    BY <2>8, <2>9
<1> HIDE DEF T
<1>3. Nat \subseteq T
  BY <1>1, <1>2, InductiveSet
<1>4. /\ Len(list) - i \in Nat /\ Len(list) - (Len(list) - i) = i
      /\ Len(list) - i <= Len(list)
  BY <1>0
<1> HIDE DEF Holds, Suits
<1>5. Holds(i)
  BY <1>3, <1>4 DEF T
<1>6. Suits(i, c, m, f)
  BY DEF Suits
<1> QED
  BY <1>5, <1>6 DEF Holds

-----------------------------------------------------------------------------
(* The places of the tree that are open.                                   *)

(* The nodes there are between two words: one less than leaves and places. *)
Base(t) == IF t.count = 0 THEN 0
           ELSE t.count + Cardinality(Odd(t.marker)) - 1

(* The nodes on the way along all but the last bit of a word.              *)
Way(w, r, x, n, top) ==
  /\ \A k \in 0..(n - 1) : w[k] \in Nat /\ w[k] < top
  /\ w[0] = 0
  /\ \A k \in 0..(n - 2) : w[k + 1] > 0 /\ r[2 * w[k] + Bit(x, n, k)] = w[k + 1]

(* Every odd marker has its own node, with nothing to the right; only that *)
(* of length stop may be taken already.                                    *)
Placed(t, ways, stop) ==
  /\ \A j \in Odd(t.marker) : Way(ways[j], t.r, t.marker[j], j, Base(t))
  /\ \A j \in Odd(t.marker) : j # stop => t.r[2 * ways[j][j - 1] + 1] = 0
  /\ \A i, j \in Odd(t.marker) : i # j => ways[i][i - 1] # ways[j][j - 1]

(* The word of length L is followed along the free word of length stop,    *)
(* and then down new nodes that are on the left of each other.             *)
Chased(t, ways, L, stop) ==
  /\ Taken(t.marker, MarkersAfter(t.marker, L), L, stop)
  /\ stop = 0 <=> t.count = 0
  /\ t.j \in Nat /\ t.j < L
  /\ t.j < stop => /\ t.chase = ways[stop][t.j] /\ t.top = Base(t)
                   /\ t.r[2 * ways[stop][stop - 1] + 1] = 0
  /\ t.j >= stop =>
       /\ t.chase = Base(t) + t.j - stop /\ t.top = t.chase
       /\ stop > 0 => t.r[2 * ways[stop][stop - 1] + 1] = Base(t)
       /\ \A i \in stop..(t.j - 1) :
            /\ t.r[2 * (Base(t) + i - stop)] = Base(t) + i - stop + 1
            /\ t.r[2 * (Base(t) + i - stop) + 1] = 0

Cells(t, room) ==
  /\ room \in Int /\ DOMAIN t.r = 0..(room - 1)
  /\ t.top \in Nat /\ (t.top > 0 => 2 * t.top <= room)

LEMMA BitIs ==
  ASSUME NEW x \in Nat, NEW n \in 1..32, NEW k \in 0..(n - 1)
  PROVE  Bit(x, n, k) \in {0, 1}
<1>1. n - k - 1 \in 0..32
  OBVIOUS
<1>2. TwoTo(n - k - 1) \in Nat \ {0}
  BY <1>1, Doubling
<1> DEFINE y == x \div TwoTo(n - k - 1)
<1>3. y \in Nat
  BY <1>2
<1>4. Bit(x, n, k) = y % 2
  BY DEF Bit
<1> HIDE DEF y
<1> QED
  BY <1>3, <1>4

LEMMA BaseIs ==
  ASSUME NEW t, t.count \in Nat
  PROVE  Base(t) \in Nat
BY OddIsFinite DEF Base

(* What is on the way stays there when only slots that were 0 change.      *)
LEMMA WayStays ==
  ASSUME NEW n \in 1..32, NEW x \in Nat, NEW top \in Nat, NEW w, NEW r,
         Way(w, r, x, n, top), NEW q,
         \A a \in 0..(2 * top - 1) : r[a] # 0 => q[a] = r[a]
  PROVE  Way(w, q, x, n, top)
<1>1. ASSUME NEW k \in 0..(n - 2)
      PROVE  w[k + 1] > 0 /\ q[2 * w[k] + Bit(x, n, k)] = w[k + 1]
  <2>0. k \in 0..(n - 1) /\ k + 1 \in 0..(n - 1)
    OBVIOUS
  <2>1. w[k] \in Nat /\ w[k] < top /\ w[k + 1] \in Nat
    BY <2>0 DEF Way
  <2>2. Bit(x, n, k) \in {0, 1}
    BY <2>0, BitIs
  <2> DEFINE a == 2 * w[k] + Bit(x, n, k)
  <2>3. a \in 0..(2 * top - 1)
    BY <2>1, <2>2
  <2>4. w[k + 1] > 0 /\ r[a] = w[k + 1]
    BY DEF Way
  <2> HIDE DEF a
  <2>5. q[a] = r[a]
    BY <2>1, <2>3, <2>4
  <2> QED
    BY <2>4, <2>5 DEF a
<1> QED
  BY <1>1 DEF Way

(* The open places stay so when only that of length stop changes.          *)
LEMMA PlacesStay ==
  ASSUME NEW t, NEW u, NEW ways, NEW stop, Placed(t, ways, stop),
         t.marker \in [0..MaxLength -> Nat], Base(t) \in Nat,
         u.marker = t.marker, u.count = t.count,
         \A a \in 0..(2 * Base(t) - 1) :
           \/ u.r[a] = t.r[a]
           \/ /\ t.r[a] = 0 /\ stop \in Odd(t.marker)
              /\ a = 2 * ways[stop][stop - 1] + 1
  PROVE  Placed(u, ways, stop)
<1>0. Base(u) = Base(t) /\ MaxLength \in 1..32
  BY LengthsFit DEF Base
<1>1. ASSUME NEW j \in Odd(t.marker)
      PROVE  /\ Way(ways[j], u.r, t.marker[j], j, Base(t))
             /\ j # stop => u.r[2 * ways[j][j - 1] + 1] = 0
  <2>0. j \in 1..MaxLength
    BY DEF Odd
  <2>1. j \in 1..32 /\ j \in 0..MaxLength /\ j - 1 \in 0..(j - 1)
    BY <1>0, <2>0
  <2>2. t.marker[j] \in Nat
    BY <2>1
  <2>3. Way(ways[j], t.r, t.marker[j], j, Base(t))
    BY DEF Placed
  <2>4. \A a \in 0..(2 * Base(t) - 1) : t.r[a] # 0 => u.r[a] = t.r[a]
    <3> TAKE a \in 0..(2 * Base(t) - 1)
    <3> QED
      OBVIOUS
  <2>5. Way(ways[j], u.r, t.marker[j], j, Base(t))
    BY <2>1, <2>2, <2>3, <2>4, WayStays
  <2>6. ASSUME j # stop PROVE u.r[2 * ways[j][j - 1] + 1] = 0
    <3> DEFINE a == 2 * ways[j][j - 1] + 1
    <3>1. ways[j][j - 1] \in Nat /\ ways[j][j - 1] < Base(t)
      BY <2>1, <2>3 DEF Way
    <3>2. a \in 0..(2 * Base(t) - 1)
      BY <3>1
    <3>3. t.r[a] = 0
      BY <2>6 DEF Placed
    <3>4. ASSUME stop \in Odd(t.marker) PROVE a # 2 * ways[stop][stop - 1] + 1
      <4>1. ways[j][j - 1] # ways[stop][stop - 1]
        BY <2>6, <3>4 DEF Placed
      <4>2. stop \in 1..32 /\ stop - 1 \in 0..(stop - 1)
        BY <1>0, <3>4 DEF Odd
      <4>3. ways[stop][stop - 1] \in Nat
        BY <3>4, <4>2 DEF Placed, Way
      <4> QED
        BY <3>1, <4>1, <4>3
    <3> HIDE DEF a
    <3>5. u.r[a] = t.r[a]
      BY <3>2, <3>4
    <3> QED
      BY <3>3, <3>5 DEF a
  <2> QED
    BY <2>5, <2>6
<1>2. \A i, j \in Odd(u.marker) : i # j => ways[i][i - 1] # ways[j][j - 1]
  BY DEF Placed
<1> QED
  BY <1>0, <1>1, <1>2 DEF Placed

(* Of the word that is followed.                                           *)
LEMMA ChasedBit ==
  ASSUME NEW t, NEW ways, NEW L \in 1..MaxLength, NEW stop,
         Chased(t, ways, L, stop)
  PROVE  /\ t.j < stop =>
              Bit(t.marker[L], L, t.j) = Bit(t.marker[stop], stop, t.j)
         /\ t.j = stop - 1 => Bit(t.marker[L], L, t.j) = 1
         /\ t.j >= stop => Bit(t.marker[L], L, t.j) = 0
<1> DEFINE n == MarkersAfter(t.marker, L)
<1>0. /\ MaxLength \in 1..32 /\ stop \in 0..L /\ t.j \in Nat /\ t.j < L
      /\ t.marker \in [0..MaxLength -> Nat] /\ Taken(t.marker, n, L, stop)
  BY LengthsFit DEF Chased, Taken
<1> HIDE DEF n
<1>1. L \in stop..L
  BY <1>0
<1>2. /\ \A k \in 0..(stop - 1) :
           Bit(t.marker[L], L, k) = Bit(t.marker[stop], stop, k)
      /\ \A k \in stop..(L - 1) : Bit(t.marker[L], L, k) = 0
  <2> DEFINE m == t.marker
  <2>1. Taken(m, n, L, stop)
    BY <1>0
  <2> HIDE DEF m
  <2>2. /\ \A k \in 0..(stop - 1) : Bit(m[L], L, k) = Bit(m[stop], stop, k)
        /\ \A k \in stop..(L - 1) : Bit(m[L], L, k) = 0
    BY <1>1, <2>1, TakenBits
  <2> QED
    BY <2>2 DEF m
<1>3. /\ t.j < stop => t.j \in 0..(stop - 1)
      /\ t.j >= stop => t.j \in stop..(L - 1)
  <2>1. t.j \in Nat /\ stop \in Nat /\ t.j < L
    BY <1>0
  <2> QED
    BY <2>1
<1>4. ASSUME t.j = stop - 1 PROVE Bit(t.marker[stop], stop, t.j) = 1
  <2>1. stop \in 1..32 /\ stop \in 0..MaxLength /\ stop > 0
    BY <1>0, <1>4
  <2>2. t.marker[stop] % 2 = 1
    BY <1>0, <2>1 DEF Taken
  <2>3. t.marker[stop] \in Nat
    BY <1>0, <2>1
  <2> QED
    BY <1>4, <2>1, <2>2, <2>3, LastBit
<1>5. t.j = stop - 1 => t.j < stop
  BY <1>0
<1> QED
  BY <1>2, <1>3, <1>4, <1>5

LEMMA ChasedTells ==
  ASSUME NEW t, NEW ways, NEW L \in 1..MaxLength, NEW stop, t.count \in Nat,
         Placed(t, ways, stop), Chased(t, ways, L, stop)
  PROVE  /\ MaxLength \in 1..32 /\ stop \in 0..L /\ t.j \in Nat /\ t.j < L
         /\ t.marker \in [0..MaxLength -> Nat] /\ Base(t) \in Nat
         /\ stop = 0 => Base(t) = 0
         /\ stop > 0 =>
              /\ stop \in Odd(t.marker)
              /\ Way(ways[stop], t.r, t.marker[stop], stop, Base(t))
<1>1. /\ Taken(t.marker, MarkersAfter(t.marker, L), L, stop)
      /\ stop = 0 <=> t.count = 0
      /\ t.j \in Nat /\ t.j < L
  BY DEF Chased
<1>2. stop \in 0..L /\ t.marker \in [0..MaxLength -> Nat]
  BY <1>1 DEF Taken
<1>3. stop > 0 => stop \in Odd(t.marker)
  BY <1>1, TakenOdd
<1>4. ASSUME stop > 0 PROVE Way(ways[stop], t.r, t.marker[stop], stop, Base(t))
  BY <1>3, <1>4 DEF Placed
<1>5. stop = 0 => Base(t) = 0
  BY <1>1 DEF Base
<1> QED
  BY <1>1, <1>2, <1>3, <1>4, <1>5, BaseIs, LengthsFit

Goes(t, u, bit) ==
  /\ u.marker = t.marker /\ u.count = t.count /\ u.j = t.j + 1
  /\ u.r = IF t.chase >= t.top
           THEN [t.r EXCEPT ![2 * t.chase] = t.top + 1,
                            ![2 * t.chase + 1] = 0]
           ELSE IF t.r[2 * t.chase + bit] = 0
           THEN [t.r EXCEPT ![2 * t.chase + bit] = t.top] ELSE t.r
  /\ u.chase = u.r[2 * t.chase + bit]
  /\ u.top = IF t.chase >= t.top THEN t.top + 1 ELSE t.top

(* A step down the tree keeps the places, and is on the way or beyond it.  *)
LEMMA ChaseGoesOn ==
  ASSUME NEW t, NEW ways, NEW L \in 1..MaxLength, NEW stop, t.count \in Nat,
         Placed(t, ways, stop), Chased(t, ways, L, stop), NEW room,
         Cells(t, room), 2 * t.chase + 1 < room, t.j < L - 1,
         NEW u, Goes(t, u, Bit(t.marker[L], L, t.j))
  PROVE  Placed(u, ways, stop) /\ Chased(u, ways, L, stop) /\ Cells(u, room)
<1> DEFINE B == Base(t)
           w == ways[stop]
           end == 2 * w[stop - 1] + 1
           bit == Bit(t.marker[L], L, t.j)
<1>0. /\ MaxLength \in 1..32 /\ stop \in 0..L /\ t.j \in Nat /\ t.j < L
      /\ t.marker \in [0..MaxLength -> Nat] /\ B \in Nat
      /\ stop = 0 => B = 0
      /\ stop > 0 => stop \in Odd(t.marker)
  BY ChasedTells
<1>w. ASSUME stop > 0
      PROVE  /\ \A k \in 0..(stop - 1) : w[k] \in Nat /\ w[k] < B
             /\ \A k \in 0..(stop - 2) :
                  /\ w[k + 1] > 0
                  /\ t.r[2 * w[k] + Bit(t.marker[stop], stop, k)] = w[k + 1]
  <2>1. Way(w, t.r, t.marker[stop], stop, B)
    BY <1>w, ChasedTells
  <2> HIDE DEF w, B, bit, end
  <2> QED
    BY <2>1 DEF Way
<1>1. Base(u) = B /\ u.marker = t.marker /\ u.count = t.count /\ u.j = t.j + 1
  BY DEF Base, Goes
<1>n. stop \in Nat /\ stop <= L /\ t.j \in Nat /\ t.j < L /\ B \in Nat
  <2>1. L \in Nat
    BY LengthsFit
  <2> QED
    BY <1>0, <2>1
<1>2. /\ room \in Int /\ DOMAIN t.r = 0..(room - 1)
      /\ t.top \in Nat /\ (t.top > 0 => 2 * t.top <= room)
  BY DEF Cells
<1>3. /\ Taken(u.marker, MarkersAfter(u.marker, L), L, stop)
      /\ stop = 0 <=> u.count = 0
      /\ u.j \in Nat /\ u.j < L
  <2>1. /\ Taken(t.marker, MarkersAfter(t.marker, L), L, stop)
        /\ stop = 0 <=> t.count = 0
    BY DEF Chased
  <2>2. t.j + 1 \in Nat /\ t.j + 1 < L
    BY <1>0
  <2> QED
    BY <1>1, <2>1, <2>2
<1>a. ASSUME t.j < stop
      PROVE  /\ t.chase = w[t.j] /\ t.top = B /\ t.r[end] = 0
             /\ bit = Bit(t.marker[stop], stop, t.j)
  <2>1. bit = Bit(t.marker[stop], stop, t.j)
    BY <1>a, ChasedBit
  <2> HIDE DEF bit
  <2> QED
    BY <1>a, <2>1 DEF Chased
<1>b. t.j = stop - 1 => bit = 1
  BY ChasedBit
<1>c. ASSUME t.j >= stop
      PROVE  /\ t.chase = B + t.j - stop /\ t.top = t.chase
             /\ stop > 0 => t.r[end] = B
             /\ bit = 0
  <2>1. bit = 0
    BY <1>c, ChasedBit
  <2> HIDE DEF bit
  <2> QED
    BY <1>c, <2>1 DEF Chased
<1>5. t.j >= stop =>
        \A i \in stop..(t.j - 1) :
            /\ t.r[2 * (B + i - stop)] = B + i - stop + 1
            /\ t.r[2 * (B + i - stop) + 1] = 0
  BY DEF Chased
<1> HIDE DEF B, w, end, bit
<1>6. CASE t.j < stop - 1
  <2>1. /\ t.j \in 0..(stop - 1) /\ t.j \in 0..(stop - 2) /\ t.j < stop
        /\ stop > 0 /\ t.j + 1 \in 0..(stop - 1) /\ t.j + 1 < stop
    BY <1>n, <1>6
  <2>2. /\ w[t.j] < B /\ w[t.j] \in Nat /\ w[t.j + 1] > 0
        /\ w[t.j + 1] \in Nat
        /\ t.r[2 * w[t.j] + Bit(t.marker[stop], stop, t.j)] = w[t.j + 1]
    BY <1>w, <2>1
  <2>3. /\ ~(t.chase >= t.top) /\ t.r[2 * t.chase + bit] = w[t.j + 1]
    <3>1. /\ t.chase = w[t.j] /\ t.top = B
          /\ bit = Bit(t.marker[stop], stop, t.j)
      BY <1>a, <2>1
    <3>2. t.r[2 * t.chase + bit] = w[t.j + 1]
      BY <2>2, <3>1
    <3>3. ~(t.chase >= t.top)
      BY <1>n, <2>2, <3>1
    <3> QED
      BY <3>2, <3>3
  <2>4. u.r = t.r /\ u.chase = w[t.j + 1] /\ u.top = t.top
    BY <2>2, <2>3 DEF Goes, bit
  <2>5. Placed(u, ways, stop)
    BY <1>0, <1>1, <2>4, PlacesStay DEF B
  <2>6. Chased(u, ways, L, stop)
    <3>1. u.j < stop /\ ~(u.j >= stop)
      BY <1>0, <1>1, <2>1
    <3> QED
      BY <1>1, <1>3, <1>a, <2>1, <2>4, <3>1 DEF Chased, w, end
  <2> QED
    BY <1>2, <2>4, <2>5, <2>6 DEF Cells
<1>7. CASE t.j = stop - 1
  <2>1. t.j \in 0..(stop - 1) /\ t.j < stop /\ stop > 0 /\ u.j = stop
    BY <1>0, <1>1, <1>7
  <2>2. w[t.j] < B /\ w[t.j] \in Nat
    BY <1>w, <2>1
  <2>3. /\ ~(t.chase >= t.top) /\ bit = 1 /\ t.chase = w[stop - 1]
        /\ 2 * t.chase + bit = end /\ t.r[end] = 0 /\ t.top = B
    BY <1>n, <1>a, <1>b, <1>7, <2>1, <2>2 DEF end
  <2>4. end \in Nat /\ end < room /\ end \in DOMAIN t.r
    BY <1>2, <1>7, <2>2, <2>3
  <2>5. u.r = [t.r EXCEPT ![end] = B] /\ u.top = B /\ u.chase = u.r[end]
    BY <2>3 DEF Goes, bit
  <2>6. u.chase = B
    BY <2>4, <2>5
  <2>7. Placed(u, ways, stop)
    <3>1. \A a \in 0..(2 * Base(t) - 1) :
            \/ u.r[a] = t.r[a]
            \/ /\ t.r[a] = 0 /\ stop \in Odd(t.marker)
               /\ a = 2 * ways[stop][stop - 1] + 1
      <4> TAKE a \in 0..(2 * Base(t) - 1)
      <4>1. CASE a = end
        BY <1>0, <2>1, <2>3, <4>1 DEF end, w
      <4>2. CASE a # end
        BY <2>5, <4>2
      <4> QED
        BY <4>1, <4>2
    <3> QED
      BY <1>0, <1>1, <3>1, PlacesStay DEF B
  <2>8. Chased(u, ways, L, stop)
    <3>1. u.j >= stop /\ ~(u.j < stop) /\ u.chase = B + u.j - stop
      BY <1>0, <2>1, <2>6
    <3>2. u.r[end] = B
      BY <2>4, <2>5
    <3>3. \A i \in stop..(u.j - 1) : FALSE
      BY <1>0, <2>1
    <3> QED
      BY <1>1, <1>3, <2>5, <2>6, <3>1, <3>2, <3>3 DEF Chased, w, end
  <2>9. DOMAIN u.r = DOMAIN t.r
    BY <2>5
  <2> QED
    BY <1>2, <2>3, <2>5, <2>7, <2>8, <2>9 DEF Cells
<1>8. CASE t.j >= stop
  <2> DEFINE c == t.chase
  <2>0. /\ c = B + t.j - stop /\ t.top = c /\ bit = 0 /\ 2 * c + 1 < room
    BY <1>c, <1>8
  <2>1. /\ c = B + t.j - stop /\ c \in Nat /\ t.top = c /\ c >= B /\ bit = 0
        /\ 2 * c \in DOMAIN t.r /\ 2 * c + 1 \in DOMAIN t.r /\ c >= t.top
        /\ 2 * c + 1 < room
    <3> HIDE DEF c
    <3>1. c \in Nat /\ c >= B
      BY <1>n, <1>8, <2>0
    <3>2. 2 * c \in 0..(room - 1) /\ 2 * c + 1 \in 0..(room - 1)
      <4>1. room \in Int /\ 2 * c + 1 < room
        BY <1>2, <2>0
      <4> QED
        BY <3>1, <4>1
    <3>3. c >= t.top
      BY <2>0, <3>1
    <3> QED
      BY <1>2, <2>0, <3>1, <3>2, <3>3
  <2>2. /\ u.r = [t.r EXCEPT ![2 * c] = c + 1, ![2 * c + 1] = 0]
        /\ u.top = c + 1
    BY <2>1 DEF Goes, bit
  <2>3. u.chase = u.r[2 * c]
    <3>1. u.chase = u.r[2 * c + bit] /\ 2 * c + bit = 2 * c
      BY <2>1 DEF Goes, bit
    <3> QED
      BY <3>1
  <2> HIDE DEF c
  <2>4. /\ u.r[2 * c] = c + 1 /\ u.r[2 * c + 1] = 0 /\ u.chase = c + 1
        /\ DOMAIN u.r = DOMAIN t.r
    BY <2>1, <2>2, <2>3
  <2>5. ASSUME NEW a \in 0..(2 * c - 1) PROVE u.r[a] = t.r[a]
    <3>0. 2 * c + 1 < room /\ room \in Int /\ c \in Nat
      BY <1>2, <2>1
    <3>1. a # 2 * c /\ a # 2 * c + 1 /\ a \in 0..(room - 1)
      BY <3>0
    <3>2. a \in DOMAIN t.r
      BY <1>2, <3>1
    <3> QED
      BY <2>2, <3>1, <3>2
  <2>6. Placed(u, ways, stop)
    <3>1. \A a \in 0..(2 * Base(t) - 1) : a \in 0..(2 * c - 1)
      BY <1>0, <2>1 DEF B
    <3>2. \A a \in 0..(2 * Base(t) - 1) : u.r[a] = t.r[a]
      BY <2>5, <3>1
    <3> QED
      BY <1>0, <1>1, <3>2, PlacesStay DEF B
  <2>7. Chased(u, ways, L, stop)
    <3>1. u.j >= stop /\ ~(u.j < stop) /\ u.chase = B + u.j - stop
      BY <1>n, <1>1, <1>8, <2>1, <2>4
    <3>2. ASSUME stop > 0 PROVE u.r[end] = B
      <4>1. stop - 1 \in 0..(stop - 1)
        BY <1>0, <3>2
      <4>2. w[stop - 1] \in Nat /\ w[stop - 1] < B
        BY <1>w, <3>2, <4>1
      <4>3. end \in 0..(2 * c - 1)
        <5> DEFINE v == w[stop - 1]
        <5>1. end = 2 * v + 1
          BY DEF end
        <5> HIDE DEF v
        <5>2. v \in Nat /\ v < B
          BY <4>2 DEF v
        <5>3. 2 * v + 1 \in 0..(2 * c - 1)
          BY <1>n, <2>1, <5>2
        <5> QED
          BY <5>1, <5>3
      <4> QED
        BY <1>c, <1>8, <2>5, <3>2, <4>3
    <3>3. ASSUME NEW i \in stop..(u.j - 1)
          PROVE  /\ u.r[2 * (B + i - stop)] = B + i - stop + 1
                 /\ u.r[2 * (B + i - stop) + 1] = 0
      <4>1. CASE i = t.j
        BY <1>1, <2>1, <2>4, <4>1
      <4>2. CASE i # t.j
        <5> DEFINE d == B + i - stop
        <5>1. i \in stop..(t.j - 1) /\ i < t.j
          BY <1>n, <1>1, <4>2
        <5>2. d \in Nat /\ d < c
          <6>1. /\ i \in Nat /\ i < t.j /\ stop <= i /\ stop \in Nat
                /\ t.j \in Nat /\ B \in Nat
            BY <1>n, <5>1
          <6>2. c = B + t.j - stop
            BY <2>1
          <6> QED
            BY <6>1, <6>2
        <5>3. t.r[2 * d] = d + 1 /\ t.r[2 * d + 1] = 0
          BY <1>5, <1>8, <5>1
        <5> HIDE DEF d
        <5>4. 2 * d \in 0..(2 * c - 1) /\ 2 * d + 1 \in 0..(2 * c - 1)
          BY <2>1, <5>2
        <5>5. u.r[2 * d] = d + 1 /\ u.r[2 * d + 1] = 0
          BY <2>5, <5>3, <5>4
        <5> QED
          BY <5>5 DEF d
      <4> QED
        BY <4>1, <4>2
    <3> QED
      BY <1>1, <1>3, <2>2, <2>4, <3>1, <3>2, <3>3 DEF Chased, w, end
  <2>8. u.top \in Nat /\ 2 * u.top <= room
    <3>1. 2 * c + 1 < room /\ room \in Int /\ c \in Nat /\ u.top = c + 1
      BY <1>2, <2>1, <2>2
    <3> HIDE DEF Goes
    <3>2. 2 * (c + 1) <= room /\ c + 1 \in Nat
      BY <3>1
    <3> QED
      BY <3>1, <3>2
  <2> QED
    BY <1>2, <2>4, <2>6, <2>7, <2>8 DEF Cells
<1>9. t.j < stop - 1 \/ t.j = stop - 1 \/ t.j >= stop
  BY <1>n
<1> QED
  BY <1>6, <1>7, <1>8, <1>9

(* The way to a word that becomes free: that of the free word, and then    *)
(* down the new nodes.                                                     *)
NewWay(w, stop, top) ==
  [i \in 0..MaxLength |-> IF i < stop THEN w[i] ELSE top + i - stop]

LEMMA WayIsNew ==
  ASSUME NEW L \in 1..MaxLength, NEW m, NEW n, NEW stop, Taken(m, n, L, stop),
         NEW top \in Nat, NEW r, NEW w,
         stop > 0 => Way(w, r, m[stop], stop, top),
         stop = 0 => top = 0,
         stop > 0 /\ stop < L => r[2 * w[stop - 1] + 1] = top,
         \A i \in stop..(L - 2) : r[2 * (top + i - stop)] = top + i - stop + 1,
         NEW j \in (stop + 1)..L
  PROVE  Way(NewWay(w, stop, top), r, n[j], j, top + L - stop)
<1> DEFINE v == NewWay(w, stop, top)
           end == top + L - stop
<1>0. /\ MaxLength \in 1..32 /\ stop \in Nat /\ stop < L /\ L \in Nat
      /\ L <= MaxLength /\ j \in Nat /\ stop < j /\ j <= L
      /\ m \in [0..MaxLength -> Nat]
  <2>1. MaxLength \in 1..32 /\ stop \in 0..L /\ m \in [0..MaxLength -> Nat]
    BY LengthsFit DEF Taken
  <2> QED
    BY <2>1
<1>1. \A i \in 0..MaxLength : v[i] = IF i < stop THEN w[i] ELSE top + i - stop
  BY DEF NewWay
<1> HIDE DEF v
<1>2. ASSUME NEW i \in 0..(j - 1) PROVE i \in 0..MaxLength /\ i \in Nat /\ i < L
  BY <1>0
<1>3. ASSUME NEW i \in 0..(j - 1), i < stop
      PROVE  v[i] = w[i] /\ w[i] \in Nat /\ w[i] < top /\ stop > 0
  <2>1. stop > 0 /\ i \in 0..(stop - 1)
    BY <1>0, <1>3
  <2>2. w[i] \in Nat /\ w[i] < top
    BY <2>1 DEF Way
  <2> QED
    BY <1>1, <1>2, <1>3, <2>1, <2>2
<1>4. ASSUME NEW i \in 0..(j - 1), i >= stop
      PROVE  v[i] = top + i - stop /\ v[i] \in Nat /\ v[i] < end
  <2>1. i \in 0..MaxLength /\ i \in Nat /\ i < L /\ ~(i < stop)
    BY <1>0, <1>2, <1>4
  <2>2. v[i] = top + i - stop
    BY <1>1, <2>1
  <2> QED
    BY <1>0, <1>4, <2>1, <2>2
<1>5. ASSUME NEW i \in 0..(j - 1) PROVE v[i] \in Nat /\ v[i] < end
  <2>1. CASE i < stop
    <3>1. v[i] \in Nat /\ v[i] < top
      BY <1>3, <2>1
    <3>2. top < end /\ end \in Nat
      BY <1>0
    <3> HIDE DEF end
    <3> QED
      BY <3>1, <3>2
  <2>2. CASE i >= stop
    BY <1>4, <2>2
  <2> QED
    BY <1>0, <1>2, <2>1, <2>2
<1>6. v[0] = 0
  <2>0. 0 \in 0..(j - 1)
    BY <1>0
  <2>1. CASE stop = 0
    <3>1. v[0] = top + 0 - stop
      BY <1>4, <2>0, <2>1
    <3> QED
      BY <2>1, <3>1
  <2>2. CASE stop > 0
    BY <1>3, <2>0, <2>2 DEF Way
  <2> QED
    BY <1>0, <2>1, <2>2
<1>7. ASSUME NEW k \in 0..(j - 2)
      PROVE  v[k + 1] > 0 /\ r[2 * v[k] + Bit(n[j], j, k)] = v[k + 1]
  <2>0. /\ k \in Nat /\ k \in 0..(j - 1) /\ k + 1 \in 0..(j - 1)
        /\ k + 1 \in Nat /\ k + 1 < L
    BY <1>0
  <2>1. Bit(n[j], j, k) = IF k < stop THEN Bit(m[stop], stop, k) ELSE 0
    BY FreedBits
  <2>2. CASE k + 1 < stop
    <3>1. k < stop /\ k \in 0..(stop - 2) /\ stop > 0
      BY <1>0, <2>0, <2>2
    <3>2. v[k] = w[k] /\ v[k + 1] = w[k + 1]
      BY <1>3, <2>0, <2>2, <3>1
    <3>3. w[k + 1] > 0 /\ r[2 * w[k] + Bit(m[stop], stop, k)] = w[k + 1]
      BY <3>1 DEF Way
    <3> QED
      BY <2>1, <3>1, <3>2, <3>3
  <2>3. CASE k + 1 = stop
    <3>1. k < stop /\ k = stop - 1 /\ stop > 0 /\ stop < L
      BY <1>0, <2>0, <2>3
    <3>2. v[k] = w[stop - 1] /\ w[k] < top /\ w[k] \in Nat
      BY <1>3, <2>0, <3>1
    <3>3. v[k + 1] = top
      <4>1. v[k + 1] = top + (k + 1) - stop
        BY <1>0, <1>4, <2>0, <2>3
      <4> QED
        BY <1>0, <2>3, <4>1
    <3>4. Bit(m[stop], stop, k) = 1
      <4>1. stop \in 1..32 /\ stop \in 0..MaxLength
        BY <1>0, <3>1
      <4>2. m[stop] \in Nat /\ m[stop] % 2 = 1
        BY <1>0, <3>1, <4>1 DEF Taken
      <4> QED
        BY <3>1, <4>1, <4>2, LastBit
    <3>5. r[2 * w[stop - 1] + 1] = top
      BY <3>1
    <3> QED
      BY <2>1, <3>1, <3>2, <3>3, <3>4, <3>5
  <2>4. CASE k >= stop
    <3>1. k + 1 >= stop /\ ~(k < stop) /\ k \in stop..(L - 2)
      BY <1>0, <2>0, <2>4
    <3>2. v[k] = top + k - stop /\ v[k + 1] = top + (k + 1) - stop
      BY <1>4, <2>0, <2>4, <3>1
    <3>3. r[2 * (top + k - stop)] = top + k - stop + 1
      BY <3>1
    <3>4. Bit(n[j], j, k) = 0
      BY <2>1, <3>1
    <3> DEFINE d == top + k - stop
    <3>5. d \in Nat
      BY <1>0, <2>0, <2>4
    <3>6. v[k] = d /\ v[k + 1] = d + 1 /\ r[2 * d] = d + 1
      BY <1>0, <2>0, <3>2, <3>3
    <3> HIDE DEF d
    <3>7. 2 * v[k] + Bit(n[j], j, k) = 2 * d
      BY <3>4, <3>5, <3>6
    <3> QED
      BY <3>5, <3>6, <3>7
  <2> QED
    BY <1>0, <2>0, <2>2, <2>3, <2>4
<1>8. Way(v, r, n[j], j, end)
  BY <1>5, <1>6, <1>7 DEF Way
<1> QED
  BY <1>8 DEF v, end

LEMMA WayWidens ==
  ASSUME NEW w, NEW r, NEW x, NEW n, NEW top \in Nat, NEW end \in Nat,
         top <= end, Way(w, r, x, n, top)
  PROVE  Way(w, r, x, n, end)
<1>1. ASSUME NEW k \in 0..(n - 1) PROVE w[k] \in Nat /\ w[k] < end
  <2>1. w[k] \in Nat /\ w[k] < top
    BY DEF Way
  <2> QED
    BY <2>1
<1> QED
  BY <1>1 DEF Way

(* When the word is taken, the words that become free have their places.   *)
LEMMA PlacesMove ==
  ASSUME NEW L \in 1..MaxLength, NEW t, NEW ways, NEW stop, NEW u,
         Taken(t.marker, u.marker, L, stop), Placed(t, ways, stop),
         Base(t) \in Nat, stop = 0 => Base(t) = 0, u.r = t.r,
         Base(u) = Base(t) + L - stop,
         stop > 0 /\ stop < L => t.r[2 * ways[stop][stop - 1] + 1] = Base(t),
         \A i \in stop..(L - 2) :
           t.r[2 * (Base(t) + i - stop)] = Base(t) + i - stop + 1,
         \A i \in stop..(L - 1) : t.r[2 * (Base(t) + i - stop) + 1] = 0
  PROVE  \E v : Placed(u, v, 0)
<1> DEFINE B == Base(t)
           m == t.marker
           n == u.marker
           r == t.r
           new == (stop + 1)..L
           v == [j \in 1..MaxLength |->
                   IF j \in new THEN NewWay(ways[stop], stop, B) ELSE ways[j]]
<1>0. /\ MaxLength \in 1..32 /\ stop \in Nat /\ stop <= L /\ L \in Nat
      /\ L <= MaxLength /\ B \in Nat
  <2>1. MaxLength \in 1..32 /\ stop \in 0..L
    BY LengthsFit DEF Taken
  <2> QED
    BY <2>1
<1>1. /\ Odd(n) = (Odd(m) \ {stop}) \cup new
      /\ (Odd(m) \ {stop}) \cap new = {}
      /\ \A j \in Odd(m) \ {stop} : n[j] = m[j]
      /\ stop > 0 => stop \in Odd(m)
  BY TakenOdd
<1>2. stop > 0 => Way(ways[stop], r, m[stop], stop, B)
  BY <1>1 DEF Placed
<1>3. ASSUME NEW j \in new
      PROVE  /\ Way(v[j], r, n[j], j, B + L - stop)
             /\ v[j][j - 1] = B + j - 1 - stop
             /\ r[2 * v[j][j - 1] + 1] = 0
  <2>1. j \in 1..MaxLength
    BY <1>0
  <2>2. v[j] = NewWay(ways[stop], stop, B)
    BY <2>1
  <2> HIDE DEF v
  <2>3. /\ Way(v[j], r, n[j], j, B + L - stop)
        /\ v[j][j - 1] = B + j - 1 - stop
    <3> DEFINE w == ways[stop]
    <3>1. /\ stop = 0 => B = 0
          /\ stop > 0 /\ stop < L => r[2 * w[stop - 1] + 1] = B
          /\ \A i \in stop..(L - 2) : r[2 * (B + i - stop)] = B + i - stop + 1
          /\ stop > 0 => Way(w, r, m[stop], stop, B)
          /\ v[j] = NewWay(w, stop, B)
      BY <1>2, <2>2
    <3>2. Taken(m, n, L, stop)
      OBVIOUS
    <3> HIDE DEF B, m, n, r, w
    <3>3. B \in Nat /\ j \in (stop + 1)..L
      BY <1>0
    <3>4. Way(NewWay(w, stop, B), r, n[j], j, B + L - stop)
      BY <3>1, <3>2, <3>3, WayIsNew
    <3>5. NewWay(w, stop, B)[j - 1] = B + j - 1 - stop
      <4>1. j - 1 \in 0..MaxLength /\ ~(j - 1 < stop)
        BY <1>0, <3>3
      <4>2. NewWay(w, stop, B)[j - 1] = B + (j - 1) - stop
        BY <4>1 DEF NewWay
      <4> QED
        BY <1>0, <3>3, <4>2
    <3> QED
      BY <3>1, <3>4, <3>5
  <2>4. r[2 * v[j][j - 1] + 1] = 0
    <3>1. j - 1 \in stop..(L - 1) /\ B + j - 1 - stop = B + (j - 1) - stop
      BY <1>0
    <3>2. r[2 * (B + (j - 1) - stop) + 1] = 0
      BY <3>1
    <3> QED
      BY <2>3, <3>1, <3>2
  <2> QED
    BY <2>3, <2>4
<1>4. ASSUME NEW j \in Odd(m) \ {stop}
      PROVE  /\ Way(v[j], r, n[j], j, B + L - stop)
             /\ v[j][j - 1] \in Nat /\ v[j][j - 1] < B
             /\ v[j] = ways[j]
             /\ r[2 * v[j][j - 1] + 1] = 0
  <2>1. j \in 1..MaxLength /\ j \notin new /\ n[j] = m[j]
    BY <1>1 DEF Odd
  <2>2. v[j] = ways[j]
    BY <2>1
  <2> HIDE DEF v
  <2>3. Way(v[j], r, n[j], j, B) /\ r[2 * v[j][j - 1] + 1] = 0
    BY <2>1, <2>2 DEF Placed
  <2>4. B + L - stop \in Nat /\ B <= B + L - stop /\ j - 1 \in 0..(j - 1)
    BY <1>0, <2>1
  <2> HIDE DEF B, r, n
  <2>5. Way(v[j], r, n[j], j, B + L - stop)
    BY <1>0, <2>3, <2>4, WayWidens
  <2>6. v[j][j - 1] \in Nat /\ v[j][j - 1] < B
    BY <2>3, <2>4 DEF Way
  <2> QED
    BY <2>2, <2>3, <2>5, <2>6
<1>5. ASSUME NEW i \in Odd(n), NEW j \in Odd(n), i # j
      PROVE  v[i][i - 1] # v[j][j - 1]
  <2>0. /\ i \in 1..MaxLength /\ j \in 1..MaxLength
        /\ i \in Odd(m) \ {stop} \/ i \in new
        /\ j \in Odd(m) \ {stop} \/ j \in new
    BY <1>1 DEF Odd
  <2> HIDE DEF v, B, n, r
  <2>1. CASE i \in new /\ j \in new
    <3>1. v[i][i - 1] = B + i - 1 - stop /\ v[j][j - 1] = B + j - 1 - stop
      BY <1>3, <2>1
    <3> QED
      BY <1>0, <1>5, <2>0, <3>1
  <2>2. CASE i \in new /\ j \in Odd(m) \ {stop}
    <3>1. v[i][i - 1] = B + i - 1 - stop
      BY <1>3, <2>2
    <3>2. v[j][j - 1] \in Nat /\ v[j][j - 1] < B
      BY <1>4, <2>2
    <3>3. i > stop /\ i \in Nat
      BY <1>0, <2>2
    <3> QED
      BY <1>0, <3>1, <3>2, <3>3
  <2>3. CASE i \in Odd(m) \ {stop} /\ j \in new
    <3>1. v[j][j - 1] = B + j - 1 - stop
      BY <1>3, <2>3
    <3>2. v[i][i - 1] \in Nat /\ v[i][i - 1] < B
      BY <1>4, <2>3
    <3>3. j > stop /\ j \in Nat
      BY <1>0, <2>3
    <3> QED
      BY <1>0, <3>1, <3>2, <3>3
  <2>4. CASE i \in Odd(m) \ {stop} /\ j \in Odd(m) \ {stop}
    <3>1. v[i] = ways[i] /\ v[j] = ways[j]
      BY <1>4, <2>4
    <3>2. ways[i][i - 1] # ways[j][j - 1]
      BY <1>5, <2>4 DEF Placed
    <3> QED
      BY <3>1, <3>2
  <2> QED
    BY <2>0, <2>1, <2>2, <2>3, <2>4
<1> HIDE DEF v, new
<1>6. ASSUME NEW j \in Odd(n)
      PROVE  Way(v[j], r, n[j], j, B + L - stop) /\ r[2 * v[j][j - 1] + 1] = 0
  BY <1>1, <1>3, <1>4, <1>6
<1>7. Placed(u, v, 0)
  BY <1>5, <1>6 DEF Placed
<1> QED
  BY <1>7

Plants(t, u, L, bit, leaf) ==
  /\ u.marker = MarkersAfter(t.marker, L) /\ u.count = t.count + 1
  /\ LET r == IF t.chase >= t.top THEN [t.r EXCEPT ![2 * t.chase + 1] = 0]
              ELSE t.r
     IN  u.r = [r EXCEPT ![2 * t.chase + bit] = leaf]
  /\ u.top = IF t.chase >= t.top THEN t.top + 1 ELSE t.top

LEMMA BaseMoves ==
  ASSUME NEW L \in 1..MaxLength, NEW t, NEW ways, NEW stop, t.count \in Nat,
         t.count = 0 => t.marker = NoMarkers, Chased(t, ways, L, stop),
         NEW u, u.marker = MarkersAfter(t.marker, L), u.count = t.count + 1
  PROVE  Base(u) = Base(t) + L - stop
<1> DEFINE a == Cardinality(Odd(t.marker))
           b == Cardinality(Odd(u.marker))
<1>1. /\ Taken(t.marker, u.marker, L, stop)
      /\ stop = 0 <=> t.count = 0
  BY DEF Chased
<1>2. stop \in Nat /\ L \in Nat
  <2>1. stop \in 0..L /\ MaxLength \in 1..32
    BY <1>1, LengthsFit DEF Taken
  <2> QED
    BY <2>1
<1>3. a \in Nat /\ b \in Nat
  BY OddIsFinite
<1>4. b = a + (L - stop) - (IF stop > 0 THEN 1 ELSE 0)
  BY <1>1, TakenCount
<1>5. t.count = 0 => a = 0
  BY NoneOdd
<1>6. /\ Base(t) = IF t.count = 0 THEN 0 ELSE t.count + a - 1
      /\ Base(u) = IF u.count = 0 THEN 0 ELSE u.count + b - 1
  BY DEF Base
<1> HIDE DEF a, b
<1>7. Base(u) = t.count + b
  BY <1>3, <1>6
<1>8. CASE stop = 0
  BY <1>1, <1>2, <1>3, <1>4, <1>5, <1>6, <1>7, <1>8
<1>9. CASE stop > 0
  BY <1>1, <1>2, <1>3, <1>4, <1>6, <1>7, <1>9
<1> QED
  BY <1>2, <1>8, <1>9

(* A leaf takes its place, and every word that is then free has one.       *)
LEMMA PlantGrows ==
  ASSUME NEW t, NEW ways, NEW L \in 1..MaxLength, NEW stop, t.count \in Nat,
         t.count = 0 => t.marker = NoMarkers,
         Placed(t, ways, stop), Chased(t, ways, L, stop), NEW room,
         Cells(t, room), 2 * t.chase + 1 < room, t.j = L - 1,
         NEW leaf, NEW u, Plants(t, u, L, Bit(t.marker[L], L, t.j), leaf)
  PROVE  /\ \E v : Placed(u, v, 0)
         /\ u.top = Base(u) /\ Cells(u, room)
<1> DEFINE B == Base(t)
           w == ways[stop]
           end == 2 * w[stop - 1] + 1
           bit == Bit(t.marker[L], L, t.j)
           x == [r |-> u.r, marker |-> t.marker, count |-> t.count]
<1>0. /\ MaxLength \in 1..32 /\ stop \in 0..L /\ t.j \in Nat /\ t.j < L
      /\ t.marker \in [0..MaxLength -> Nat] /\ B \in Nat
      /\ stop = 0 => B = 0
      /\ stop > 0 => stop \in Odd(t.marker)
  BY ChasedTells
<1>n. stop \in Nat /\ stop <= L /\ L \in Nat /\ B \in Nat
  <2>1. L \in Nat
    BY LengthsFit
  <2> QED
    BY <1>0, <2>1
<1>w. ASSUME stop > 0
      PROVE  w[stop - 1] \in Nat /\ w[stop - 1] < B
  <2>1. Way(w, t.r, t.marker[stop], stop, B)
    BY <1>w, ChasedTells
  <2>2. stop - 1 \in 0..(stop - 1)
    BY <1>n, <1>w
  <2> HIDE DEF w, B, bit, end
  <2> QED
    BY <2>1, <2>2 DEF Way
<1>1. /\ u.marker = MarkersAfter(t.marker, L) /\ u.count = t.count + 1
      /\ Taken(t.marker, u.marker, L, stop)
  BY DEF Plants, Chased
<1>b. Base(u) = B + L - stop
  BY <1>1, BaseMoves
<1>2. /\ room \in Int /\ DOMAIN t.r = 0..(room - 1)
      /\ t.top \in Nat /\ (t.top > 0 => 2 * t.top <= room)
  BY DEF Cells
<1>x. x.r = u.r /\ x.marker = t.marker /\ x.count = t.count /\ Base(x) = B
  BY DEF Base
<1> HIDE DEF x
(* The last bit is on the way: its end takes the leaf.                     *)
<1>3. CASE t.j < stop
  <2>1. stop = L /\ t.j = stop - 1 /\ stop > 0
    BY <1>n, <1>3
  <2>2. /\ t.chase = w[stop - 1] /\ t.top = B /\ t.r[end] = 0 /\ bit = 1
    <3>1. bit = 1
      BY <2>1, ChasedBit
    <3> HIDE DEF bit
    <3>2. t.chase = w[t.j] /\ t.top = B /\ t.r[end] = 0
      BY <1>3 DEF Chased
    <3> QED
      BY <2>1, <3>1, <3>2
  <2> HIDE DEF B, bit
  <2>3. ~(t.chase >= t.top) /\ 2 * t.chase + bit = end
    BY <1>n, <1>w, <2>1, <2>2
  <2> HIDE DEF w, end
  <2>4. u.r = [t.r EXCEPT ![end] = leaf] /\ u.top = B
    BY <2>2, <2>3 DEF Plants, bit
  <2>5. Placed(x, ways, stop)
    <3>1. \A a \in 0..(2 * Base(t) - 1) :
            \/ x.r[a] = t.r[a]
            \/ /\ t.r[a] = 0 /\ stop \in Odd(t.marker)
               /\ a = 2 * ways[stop][stop - 1] + 1
      <4> TAKE a \in 0..(2 * Base(t) - 1)
      <4>1. CASE a = end
        BY <1>0, <2>1, <2>2, <4>1 DEF end, w
      <4>2. CASE a # end
        BY <1>x, <2>4, <4>2
      <4> QED
        BY <4>1, <4>2
    <3> QED
      BY <1>0, <1>x, <3>1, PlacesStay DEF B
  <2>6. (\A i \in stop..(L - 1) : FALSE) /\ (\A i \in stop..(L - 2) : FALSE)
    BY <1>n, <2>1
  <2>7. ~(stop < L)
    BY <1>n, <2>1
  <2>8. \E v : Placed(u, v, 0)
    BY <1>0, <1>1, <1>b, <1>x, <2>5, <2>6, <2>7, PlacesMove DEF B
  <2>9. DOMAIN u.r = DOMAIN t.r /\ Base(u) = B
    BY <1>n, <1>b, <2>1, <2>4
  <2> QED
    BY <1>2, <2>2, <2>4, <2>8, <2>9 DEF Cells
(* It is beyond: a new node takes the leaf, and is open on its right.      *)
<1>4. CASE t.j >= stop
  <2> DEFINE c == t.chase
  <2>0. /\ c = B + t.j - stop /\ t.top = c /\ bit = 0 /\ 2 * c + 1 < room
        /\ stop > 0 => t.r[end] = B
        /\ \A i \in stop..(t.j - 1) :
             /\ t.r[2 * (B + i - stop)] = B + i - stop + 1
             /\ t.r[2 * (B + i - stop) + 1] = 0
    BY <1>4, ChasedBit DEF Chased
  <2> HIDE DEF c, bit, B, end, w
  <2>1. /\ c \in Nat /\ c >= B /\ c >= t.top
        /\ c = B + (L - 1) - stop /\ stop < L
    BY <1>n, <1>4, <2>0
  <2>2. 2 * c \in DOMAIN t.r /\ 2 * c + 1 \in DOMAIN t.r
    <3>1. room \in Int /\ 2 * c + 1 < room
      BY <1>2, <2>0
    <3>2. 2 * c \in 0..(room - 1) /\ 2 * c + 1 \in 0..(room - 1)
      BY <2>1, <3>1
    <3> QED
      BY <1>2, <3>2
  <2>3. /\ u.r = [[t.r EXCEPT ![2 * c + 1] = 0] EXCEPT ![2 * c] = leaf]
        /\ u.top = c + 1
    <3>1. 2 * c + bit = 2 * c
      BY <2>0, <2>1
    <3> QED
      BY <2>0, <2>1, <3>1 DEF Plants, bit, c
  <2>4. DOMAIN u.r = DOMAIN t.r /\ u.r[2 * c + 1] = 0
    BY <2>1, <2>2, <2>3
  <2>5. ASSUME NEW a \in 0..(2 * c - 1) PROVE u.r[a] = t.r[a]
    <3>0. 2 * c + 1 < room /\ room \in Int /\ c \in Nat
      BY <1>2, <2>0, <2>1
    <3>1. a # 2 * c /\ a # 2 * c + 1 /\ a \in 0..(room - 1)
      BY <3>0
    <3>2. a \in DOMAIN t.r
      BY <1>2, <3>1
    <3> QED
      BY <2>3, <3>1, <3>2
  <2>6. Placed(x, ways, stop)
    <3>1. \A a \in 0..(2 * Base(t) - 1) : a \in 0..(2 * c - 1)
      BY <1>n, <2>1 DEF B
    <3>2. \A a \in 0..(2 * Base(t) - 1) : x.r[a] = t.r[a]
      BY <1>x, <2>5, <3>1
    <3> QED
      BY <1>0, <1>x, <3>2, PlacesStay DEF B
  <2>7. ASSUME stop > 0 PROVE u.r[end] = B
    <3>1. end \in 0..(2 * c - 1)
      <4> DEFINE v == w[stop - 1]
      <4>1. end = 2 * v + 1
        BY DEF end
      <4>2. v \in Nat /\ v < B
        BY <1>w, <2>7
      <4> HIDE DEF v
      <4>3. 2 * v + 1 \in 0..(2 * c - 1)
        BY <1>n, <2>1, <4>2
      <4> QED
        BY <4>1, <4>3
    <3> QED
      BY <2>0, <2>5, <2>7, <3>1
  <2>8. ASSUME NEW i \in stop..(L - 2)
        PROVE  /\ u.r[2 * (B + i - stop)] = B + i - stop + 1
               /\ u.r[2 * (B + i - stop) + 1] = 0
    <3> DEFINE d == B + i - stop
    <3>1. i \in stop..(t.j - 1) /\ d \in Nat /\ d < c
      BY <1>n, <2>1
    <3>2. t.r[2 * d] = d + 1 /\ t.r[2 * d + 1] = 0
      BY <2>0, <3>1
    <3> HIDE DEF d
    <3>3. 2 * d \in 0..(2 * c - 1) /\ 2 * d + 1 \in 0..(2 * c - 1)
      BY <2>1, <3>1
    <3>4. u.r[2 * d] = d + 1 /\ u.r[2 * d + 1] = 0
      BY <2>5, <3>2, <3>3
    <3> QED
      BY <3>4 DEF d
  <2>9. ASSUME NEW i \in stop..(L - 1) PROVE u.r[2 * (B + i - stop) + 1] = 0
    <3>1. CASE i = L - 1
      BY <2>1, <2>4, <3>1
    <3>2. CASE i # L - 1
      <4>1. i \in stop..(L - 2)
        BY <1>n, <3>2
      <4> QED
        BY <2>8, <4>1
    <3> QED
      BY <3>1, <3>2
  <2>10. \E v : Placed(u, v, 0)
    <3>1. /\ x.r = u.r /\ x.marker = t.marker /\ Base(x) = B
          /\ Base(u) = Base(x) + L - stop
          /\ stop = 0 => Base(x) = 0
      BY <1>0, <1>b, <1>x
    <3>2. stop > 0 /\ stop < L => x.r[2 * ways[stop][stop - 1] + 1] = Base(x)
      BY <2>7, <3>1 DEF end, w
    <3>3. /\ \A i \in stop..(L - 2) :
               x.r[2 * (Base(x) + i - stop)] = Base(x) + i - stop + 1
          /\ \A i \in stop..(L - 1) : x.r[2 * (Base(x) + i - stop) + 1] = 0
      BY <2>8, <2>9, <3>1
    <3>4. Taken(x.marker, u.marker, L, stop) /\ Base(x) \in Nat
      BY <1>n, <1>1, <3>1
    <3> QED
      BY <2>6, <3>1, <3>2, <3>3, <3>4, PlacesMove
  <2>11. u.top = Base(u)
    BY <1>n, <1>b, <2>1, <2>3
  <2>12. u.top \in Nat /\ 2 * u.top <= room
    <3>1. 2 * c + 1 < room /\ room \in Int /\ c \in Nat /\ u.top = c + 1
      BY <1>2, <2>0, <2>1, <2>3
    <3>2. 2 * (c + 1) <= room /\ c + 1 \in Nat
      BY <3>1
    <3> QED
      BY <3>1, <3>2
  <2> QED
    BY <1>2, <2>4, <2>10, <2>11, <2>12 DEF Cells
<1> QED
  BY <1>0, <1>n, <1>3, <1>4

(* Between two words every free word has its place in the tree; within     *)
(* one, the word has been followed there.                                  *)
Growth ==
  pc = "words" =>
    /\ Cells(tree, Room)
    /\ tree.j = 0 => /\ tree.chase = 0 /\ tree.top = Base(tree)
                     /\ \E ways : Placed(tree, ways, 0)
    /\ tree.j > 0 =>
         /\ tree.i < s.entries
         /\ \E stop, ways : Placed(tree, ways, stop)
                              /\ Chased(tree, ways, CurrentLength, stop)

LEMMA ListedTally ==
  ASSUME Lists, pc \in Listed
  PROVE  /\ Tally(lengthlist, Len(lengthlist), s.used_entries)
         /\ s.used_entries \in Nat
<1>1. /\ lengthlist \in Seq(Lengths) /\ Len(lengthlist) = s.entries
      /\ s.entries \in Nat
      /\ IF unused THEN Tally(lengthlist, Len(lengthlist), s.used_entries)
         ELSE /\ s.used_entries = s.entries
              /\ \A e \in 1..Len(lengthlist) : lengthlist[e] > 0
  BY DEF Lists, Listed
<1>2. Len(lengthlist) \in Nat /\ Len(lengthlist) \in 0..Len(lengthlist)
  BY <1>1
<1>3. CASE unused
  <2>1. Tally(lengthlist, Len(lengthlist), s.used_entries)
    BY <1>1, <1>3
  <2> QED
    BY <1>2, <2>1, WordsAreFinite DEF Tally
<1>4. CASE ~unused
  <2> DEFINE all == {e \in 1..Len(lengthlist) : lengthlist[e] > 0}
  <2>1. all = 1..Len(lengthlist)
    BY <1>1, <1>4
  <2>2. 1 \in Int /\ Len(lengthlist) \in Int
    BY <1>2
  <2>3. Cardinality(1..Len(lengthlist)) =
          IF 1 > Len(lengthlist) THEN 0 ELSE Len(lengthlist) - 1 + 1
    BY <2>2, FS_Interval
  <2>4. Cardinality(1..Len(lengthlist)) = Len(lengthlist)
    BY <1>2, <2>3
  <2>5. s.used_entries = Cardinality(all)
    BY <1>1, <1>4, <2>1, <2>4
  <2> QED
    BY <1>1, <1>4, <2>5 DEF Tally
<1> QED
  BY <1>3, <1>4

LEMMA UsedTally ==
  ASSUME Lists, pc \in {"table", "words"}
  PROVE  /\ Tally(lengthlist, Len(lengthlist), s.used_entries)
         /\ s.used_entries \in Nat
BY ListedTally DEF Listed

(* A word that is followed from the top finds its place.                   *)
LEMMA Reaching ==
  ASSUME Lists, Planting, Growth, pc = "words", tree.i < s.entries,
         CurrentLength > 0, ~Unfit
  PROVE  /\ CurrentLength \in 1..MaxLength
         /\ \E stop, ways : Placed(tree, ways, stop)
                              /\ Chased(tree, ways, CurrentLength, stop)
<1> DEFINE L == CurrentLength
           m == tree.marker
           n == MarkersAfter(m, L)
<1>1. L \in 1..MaxLength /\ MaxLength \in 1..32
  <2>1. L \in Lengths /\ L > 0
    BY NextEntry
  <2> HIDE DEF L
  <2> QED
    BY <2>1, LengthsFit DEF Lengths
<1>2. tree.count \in Nat /\ tree.j \in Nat
  <2>1. tree.i \in Nat
    BY NextEntry
  <2>2. Tally(lengthlist, tree.i, tree.count) /\ tree.j \in Nat
    BY DEF Planting
  <2> QED
    BY <2>1, <2>2, WordsAreFinite DEF Tally
<1>3. ASSUME tree.j > 0
      PROVE  \E stop, ways : Placed(tree, ways, stop)
                               /\ Chased(tree, ways, L, stop)
  BY <1>3 DEF Growth
<1>4. ASSUME tree.j = 0
      PROVE  \E stop, ways : Placed(tree, ways, stop)
                               /\ Chased(tree, ways, L, stop)
  <2>1. PICK ways : Placed(tree, ways, 0)
    BY <1>4 DEF Growth
  <2>2. tree.chase = 0 /\ tree.top = Base(tree) /\ 0 < L
    BY <1>1, <1>4 DEF Growth
  <2>3. CASE tree.count = 0
    <3>1. Taken(m, n, L, 0)
      <4>1. m = NoMarkers
        BY <2>3 DEF Planting
      <4> QED
        BY <1>1, <4>1, FirstIsTaken
    <3>2. Base(tree) = 0
      BY <2>3 DEF Base
    <3> HIDE DEF L
    <3>3. /\ tree.j \in Nat /\ tree.j < L /\ ~(tree.j < 0)
          /\ tree.chase = Base(tree) + tree.j - 0 /\ tree.top = tree.chase
          /\ \A i \in 0..(tree.j - 1) : FALSE
      BY <1>4, <2>2, <3>2
    <3>4. Chased(tree, ways, L, 0)
      BY <2>3, <3>1, <3>3 DEF Chased
    <3> QED
      BY <2>1, <3>4
  <2>4. CASE tree.count # 0
    <3>1. Good(m)
      BY <1>2, <2>4 DEF Planting
    <3>2. m[L] > 0
      <4>1. m[L] # 0
        BY <1>2, <2>4 DEF Unfit, CurrentLength
      <4>2. L \in 0..MaxLength
        BY <1>1
      <4>3. m[L] \in Nat
        BY <3>1, <4>2, MarkerFits
      <4> QED
        BY <4>1, <4>3
    <3>3. PICK stop : Moved(m, n, L, stop)
      BY <1>1, <3>1, <3>2, MarkersMove
    <3>4. Taken(m, n, L, stop) /\ stop > 0
      BY <1>1, <3>1, <3>3, MovedIsTaken
    <3>5. stop \in Odd(m) /\ stop \in Nat /\ stop # 0
      <4>1. stop \in Odd(m)
        BY <1>1, <3>4, TakenOdd
      <4>2. stop \in 1..MaxLength
        BY <4>1 DEF Odd
      <4> QED
        BY <1>1, <4>1, <4>2
    <3>6. /\ ways[stop][0] = 0
          /\ tree.r[2 * ways[stop][stop - 1] + 1] = 0
      <4>1. Way(ways[stop], tree.r, m[stop], stop, Base(tree))
        BY <2>1, <3>5 DEF Placed
      <4>2. tree.r[2 * ways[stop][stop - 1] + 1] = 0
        BY <2>1, <3>5 DEF Placed
      <4> QED
        BY <4>1, <4>2 DEF Way
    <3>7. Placed(tree, ways, stop)
      <4>1. \A j \in Odd(m) : j # 0
        BY <1>1 DEF Odd
      <4> QED
        BY <2>1, <4>1 DEF Placed
    <3> HIDE DEF L
    <3>8. Chased(tree, ways, L, stop)
      <4>1. tree.j < stop /\ ~(tree.j >= stop) /\ tree.j \in Nat /\ tree.j < L
        BY <1>4, <2>2, <3>5
      <4>2. tree.chase = ways[stop][tree.j]
        BY <1>4, <2>2, <3>6
      <4> QED
        BY <2>2, <2>4, <3>4, <3>5, <3>6, <4>1, <4>2 DEF Chased
    <3> QED
      BY <3>7, <3>8
  <2> QED
    BY <2>3, <2>4
<1>5. tree.j = 0 \/ tree.j > 0
  BY <1>2
<1> QED
  BY <1>1, <1>3, <1>4, <1>5

LEMMA CurrentBitIs ==
  CurrentBit = Bit(tree.marker[CurrentLength], CurrentLength, tree.j)
BY Zenon DEF CurrentBit, Bit, TwoTo

(* The node a word has been followed to is among those there are, or next. *)
LEMMA ChasedNode ==
  ASSUME NEW t, NEW ways, NEW L \in 1..MaxLength, NEW stop, t.count \in Nat,
         Placed(t, ways, stop), Chased(t, ways, L, stop)
  PROVE  t.chase \in Nat /\ t.chase <= Base(t) + L - stop - 1
<1> DEFINE B == Base(t)
<1>1. stop \in Nat /\ stop <= L /\ L \in Nat /\ B \in Nat
      /\ t.j \in Nat /\ t.j < L
  <2>1. stop \in 0..L /\ B \in Nat /\ t.j \in Nat /\ t.j < L
    BY ChasedTells
  <2>2. L \in Nat
    BY LengthsFit
  <2> QED
    BY <2>1, <2>2
<1>2. CASE t.j < stop
  <2>0. t.j \in 0..(stop - 1) /\ stop > 0
    BY <1>1, <1>2
  <2>1. Way(ways[stop], t.r, t.marker[stop], stop, B)
    BY <2>0, ChasedTells
  <2>2. t.chase = ways[stop][t.j]
    BY <1>2 DEF Chased
  <2> HIDE DEF B
  <2>3. t.chase \in Nat /\ t.chase < B
    BY <2>0, <2>1, <2>2 DEF Way
  <2> QED
    BY <1>1, <2>3 DEF B
<1>3. CASE t.j >= stop
  <2>1. t.chase = B + t.j - stop
    BY <1>3 DEF Chased
  <2> HIDE DEF B
  <2> QED
    BY <1>1, <1>3, <2>1 DEF B
<1> QED
  BY <1>1, <1>2, <1>3

LEMMA GrowthStarts ==
  ASSUME DOMAIN s = DOMAIN NoBook, Lists, AllocWords, ~Refuse(heap, TRUE)
  PROVE  Growth'
<1> DEFINE cells == [a \in 0..(Room - 1) |->
                       IF s.entries < 2 /\ a = 0 THEN LeafOf(0) ELSE Unset]
<1>1. /\ pc = "table" /\ s' = [s EXCEPT !.dec_table = InPlace]
      /\ tree' = [NoTree EXCEPT !.r = cells]
  BY DEF AllocWords
<1>2. Room' = Room
  BY <1>1, BookFields DEF Room, InPlace
<1>3. Room \in Int
  <2>1. s.used_entries \in Nat
    BY <1>1, UsedTally
  <2> QED
    BY <2>1 DEF Room
<1>4. DOMAIN cells = 0..(Room - 1)
  OBVIOUS
<1> HIDE DEF cells
<1>5. /\ tree'.r = cells /\ tree'.top = 0 /\ tree'.count = 0 /\ tree'.j = 0
      /\ tree'.chase = 0 /\ tree'.marker = NoMarkers
  BY <1>1 DEF NoTree
<1>6. Base(tree') = 0
  BY <1>5 DEF Base
<1>7. Cells(tree', Room')
  BY <1>2, <1>3, <1>4, <1>5 DEF Cells
<1>8. Placed(tree', <<>>, 0)
  BY <1>5, NoneOdd DEF Placed
<1> QED
  BY <1>5, <1>6, <1>7, <1>8 DEF Growth

LEMMA GrowthSkips ==
  ASSUME Planting, Growth, SkipEntry
  PROVE  Growth'
<1>1. /\ pc = "words" /\ CurrentLength = 0 /\ s' = s
      /\ tree' = [tree EXCEPT !.i = @ + 1]
      /\ DOMAIN tree = DOMAIN NoTree /\ tree.j \in Nat
  BY DEF SkipEntry, Planting
<1>2. /\ tree'.j = tree.j /\ tree'.count = tree.count /\ tree'.r = tree.r
      /\ tree'.marker = tree.marker /\ tree'.chase = tree.chase
      /\ tree'.top = tree.top
  BY <1>1, TreeFields
<1>3. tree.j = 0
  <2> SUFFICES ASSUME tree.j > 0 PROVE FALSE
    BY <1>1
  <2>1. tree.j < CurrentLength
    BY <1>1 DEF Growth, Chased
  <2> QED
    BY <1>1, <2>1
<1>4. Cells(tree, Room) /\ Room' = Room
  BY <1>1 DEF Growth, Room, InPlace
<1>5. Cells(tree', Room')
  BY <1>2, <1>4 DEF Cells
<1>6. Base(tree') = Base(tree)
  BY <1>2 DEF Base
<1>7. tree.chase = 0 /\ tree.top = Base(tree) /\ \E ways : Placed(tree, ways, 0)
  BY <1>1, <1>3 DEF Growth
<1>8. ASSUME NEW ways, Placed(tree, ways, 0) PROVE Placed(tree', ways, 0)
  BY <1>2, <1>6, <1>8 DEF Placed
<1>9. \E ways : Placed(tree', ways, 0)
  BY <1>7, <1>8
<1> QED
  BY <1>2, <1>3, <1>5, <1>6, <1>7, <1>9 DEF Growth

(* The steps of the model are those the lemmas speak of.                   *)
LEMMA ChaseGoes ==
  ASSUME DOMAIN tree = DOMAIN NoTree, ChaseTree, ~RefuseWords
  PROVE  Goes(tree, tree', CurrentBit) /\ tree'.i = tree.i
<1> DEFINE t == Descended(tree, CurrentBit)
<1>1. tree' = [t EXCEPT !.j = @ + 1]
  BY DEF ChaseTree
<1>2. /\ DOMAIN t = DOMAIN NoTree /\ t.i = tree.i /\ t.j = tree.j
      /\ t.count = tree.count /\ t.marker = tree.marker
      /\ t.r = IF tree.chase >= tree.top
               THEN [tree.r EXCEPT ![2 * tree.chase] = tree.top + 1,
                                   ![2 * tree.chase + 1] = 0]
               ELSE IF tree.r[2 * tree.chase + CurrentBit] = 0
               THEN [tree.r EXCEPT ![2 * tree.chase + CurrentBit] = tree.top]
               ELSE tree.r
      /\ t.chase = t.r[2 * tree.chase + CurrentBit]
      /\ t.top = IF tree.chase >= tree.top THEN tree.top + 1 ELSE tree.top
  BY TreeFields DEF Descended
<1> HIDE DEF t
<1>3. /\ tree'.i = tree.i /\ tree'.j = tree.j + 1 /\ tree'.count = tree.count
      /\ tree'.marker = tree.marker /\ tree'.chase = t.chase
      /\ tree'.r = t.r /\ tree'.top = t.top
  BY <1>1, <1>2, TreeFields
<1> QED
  BY <1>2, <1>3 DEF Goes

LEMMA GrowthChases ==
  ASSUME Lists, Planting, Growth, ChaseTree, ~RefuseWords
  PROVE  Growth'
<1>1. /\ pc = "words" /\ tree.i < s.entries /\ ~NoRoom /\ ~Unfit
      /\ tree.j < CurrentLength - 1
      /\ s' = s /\ lengthlist' = lengthlist
  BY DEF ChaseTree
<1>2. DOMAIN tree = DOMAIN NoTree /\ tree.j \in Nat
  BY DEF Planting
<1>3. Goes(tree, tree', CurrentBit) /\ tree'.i = tree.i
  BY <1>2, ChaseGoes
<1>4. tree'.i = tree.i /\ tree'.j = tree.j + 1
  BY <1>3 DEF Goes
<1>6. CurrentLength > 0
  <2>1. CurrentLength \in Lengths
    BY <1>1, NextEntry
  <2>2. CurrentLength \in Nat
    BY <2>1, LengthsFit DEF Lengths
  <2> HIDE DEF CurrentLength
  <2> QED
    BY <1>1, <1>2, <2>2
<1>7. CurrentLength \in 1..MaxLength
  BY <1>1, <1>6, Reaching
<1>8. PICK stop, ways : Placed(tree, ways, stop)
                          /\ Chased(tree, ways, CurrentLength, stop)
  BY <1>1, <1>6, Reaching
<1>9. tree.count \in Nat
  <2>1. tree.i \in Nat /\ Tally(lengthlist, tree.i, tree.count)
    BY <1>1, NextEntry DEF Planting
  <2> QED
    BY <2>1, WordsAreFinite DEF Tally
<1>10. 2 * tree.chase + 1 < Room /\ Cells(tree, Room) /\ Room' = Room
  <2>1. Cells(tree, Room) /\ Room' = Room
    BY <1>1 DEF Growth, Room, InPlace
  <2>2. tree.chase \in Nat
    BY <1>7, <1>8, <1>9, ChasedNode
  <2> QED
    BY <1>1, <2>1, <2>2 DEF NoRoom, Cells
<1>11. /\ Placed(tree', ways, stop) /\ Cells(tree', Room)
       /\ Chased(tree', ways, CurrentLength, stop)
  <2>1. Goes(tree, tree', Bit(tree.marker[CurrentLength], CurrentLength, tree.j))
    BY <1>3, CurrentBitIs
  <2> HIDE DEF CurrentLength
  <2> QED
    BY <1>1, <1>7, <1>8, <1>9, <1>10, <2>1, ChaseGoesOn
<1>12. CurrentLength' = CurrentLength
  BY <1>1, <1>4 DEF CurrentLength
<1>13. tree'.j # 0 /\ tree'.i < s'.entries
  BY <1>1, <1>2, <1>4
<1> QED
  BY <1>10, <1>11, <1>12, <1>13 DEF Growth

LEMMA LeafPlants ==
  ASSUME DOMAIN tree = DOMAIN NoTree, PlantLeaf, ~RefuseWords
  PROVE  /\ Plants(tree, tree', CurrentLength, CurrentBit,
                   LeafOf(decpack(tree.i, tree.count, opb')))
         /\ tree'.j = 0 /\ tree'.chase = 0
<1> DEFINE leaf == LeafOf(decpack(tree.i, tree.count, opb'))
           t == Leafed(tree, CurrentBit, leaf)
           m == MarkersAfter(tree.marker, CurrentLength)
           c == tree.count + 1
<1>1. tree' = [t EXCEPT !.marker = MarkersAfter(@, CurrentLength),
                        !.count = @ + 1, !.i = @ + 1,
                        !.j = 0, !.chase = 0]
  BY DEF PlantLeaf
<1> HIDE DEF leaf
<1>2. /\ DOMAIN t = DOMAIN NoTree /\ t.count = tree.count
      /\ t.marker = tree.marker
      /\ LET r == IF tree.chase >= tree.top
                  THEN [tree.r EXCEPT ![2 * tree.chase + 1] = 0] ELSE tree.r
         IN  t.r = [r EXCEPT ![2 * tree.chase + CurrentBit] = leaf]
      /\ t.top = IF tree.chase >= tree.top THEN tree.top + 1 ELSE tree.top
  BY TreeFields DEF Leafed
<1> HIDE DEF t
<1>3. \E e : tree' = [t EXCEPT !.marker = m, !.count = c, !.i = e,
                               !.j = 0, !.chase = 0]
  <2>1. tree' = [t EXCEPT !.marker = m, !.count = c, !.i = t.i + 1,
                          !.j = 0, !.chase = 0]
    BY <1>1, <1>2, Zenon
  <2> QED
    BY <2>1, Zenon
<1> HIDE DEF m, c
<1>4. /\ tree'.j = 0 /\ tree'.chase = 0 /\ tree'.count = c
      /\ tree'.marker = m /\ tree'.r = t.r /\ tree'.top = t.top
  BY <1>2, <1>3, TreeFields
<1>5. Plants(tree, tree', CurrentLength, CurrentBit, leaf)
  BY <1>2, <1>4 DEF Plants, m, c
<1> QED
  BY <1>4, <1>5 DEF leaf

LEMMA GrowthPlants ==
  ASSUME Lists, Planting, Growth, PlantLeaf, ~RefuseWords
  PROVE  Growth'
<1> DEFINE leaf == LeafOf(decpack(tree.i, tree.count, opb'))
<1>1. /\ pc = "words" /\ tree.i < s.entries /\ ~NoRoom /\ ~Unfit
      /\ tree.j = CurrentLength - 1
      /\ s' = s /\ lengthlist' = lengthlist
  BY DEF PlantLeaf
<1>2. DOMAIN tree = DOMAIN NoTree /\ tree.j \in Nat
  BY DEF Planting
<1>3. Plants(tree, tree', CurrentLength, CurrentBit, leaf)
  BY <1>2, LeafPlants
<1>4. tree'.j = 0 /\ tree'.chase = 0
  BY <1>2, LeafPlants
<1> HIDE DEF leaf
<1>6. CurrentLength > 0
  <2>1. CurrentLength \in Lengths
    BY <1>1, NextEntry
  <2>2. CurrentLength \in Nat
    BY <2>1, LengthsFit DEF Lengths
  <2> HIDE DEF CurrentLength
  <2> QED
    BY <1>1, <1>2, <2>2
<1>7. CurrentLength \in 1..MaxLength
  BY <1>1, <1>6, Reaching
<1>8. PICK stop, ways : Placed(tree, ways, stop)
                          /\ Chased(tree, ways, CurrentLength, stop)
  BY <1>1, <1>6, Reaching
<1>9. /\ tree.count \in Nat
      /\ tree.count = 0 => tree.marker = NoMarkers
  <2>1. tree.i \in Nat /\ Tally(lengthlist, tree.i, tree.count)
    BY <1>1, NextEntry DEF Planting
  <2> QED
    BY <2>1, WordsAreFinite DEF Tally, Planting
<1>10. 2 * tree.chase + 1 < Room /\ Cells(tree, Room) /\ Room' = Room
  <2>1. Cells(tree, Room) /\ Room' = Room
    BY <1>1 DEF Growth, Room, InPlace
  <2>2. tree.chase \in Nat
    BY <1>7, <1>8, <1>9, ChasedNode
  <2> QED
    BY <1>1, <2>1, <2>2, SMTT(30) DEF NoRoom, Cells
<1>11. /\ \E v : Placed(tree', v, 0)
       /\ tree'.top = Base(tree') /\ Cells(tree', Room)
  <2>1. Plants(tree, tree', CurrentLength,
               Bit(tree.marker[CurrentLength], CurrentLength, tree.j), leaf)
    BY <1>3, CurrentBitIs
  <2> HIDE DEF CurrentLength
  <2> QED
    BY <1>1, <1>7, <1>8, <1>9, <1>10, <2>1, PlantGrows
<1>12. ~(tree'.j > 0)
  BY <1>4
<1> QED
  BY <1>4, <1>10, <1>11, <1>12 DEF Growth

(* A tree whose words fit has the nodes it needs: each open place takes    *)
(* one of the words still to come.                                         *)
LEMMA NodesSuffice ==
  ASSUME Lists, Planting, Growth, s.used_entries = 1 => InPlace,
         pc = "words", tree.i < s.entries, CurrentLength > 0,
         IsTree(lengthlist)
  PROVE  ~NoRoom
<1> DEFINE L == CurrentLength
           u == s.used_entries
           n == MarkersAfter(tree.marker, L)
           c == tree.count
<1>1. ~Unfit
  BY UnfitIsNoTree
<1>2. L \in 1..MaxLength
  BY <1>1, Reaching
<1>3. PICK stop, ways : Placed(tree, ways, stop)
                          /\ Chased(tree, ways, CurrentLength, stop)
  BY <1>1, Reaching
<1>4. /\ lengthlist \in Seq(Lengths) /\ Len(lengthlist) = s.entries
      /\ s.entries >= 2 /\ tree.i \in 0..Len(lengthlist) /\ tree.i \in Nat
      /\ tree.i + 1 \in 0..Len(lengthlist) /\ lengthlist[tree.i + 1] = L
      /\ Tally(lengthlist, tree.i, c)
      /\ Tally(lengthlist, tree.i + 1, c + 1)
  <2>1. Len(lengthlist) = s.entries
    BY DEF Lists, Listed
  <2>2. s.entries >= 2 /\ Tally(lengthlist, tree.i, c)
    BY DEF Planting
  <2> QED
    BY <2>1, <2>2, NextEntry DEF CurrentLength
<1>5. c \in Nat
  BY <1>4, WordsAreFinite DEF Tally
<1>6. Tally(lengthlist, Len(lengthlist), u) /\ u \in Nat
  BY UsedTally
<1>7. tree.chase \in Nat /\ tree.chase <= Base(tree) + L - stop - 1
  BY <1>2, <1>3, <1>5, ChasedNode
<1>8. Base(tree) \in Nat /\ stop \in Nat /\ L \in Nat
  <2>1. stop \in 0..L /\ Base(tree) \in Nat
    BY <1>2, <1>3, <1>5, ChasedTells
  <2> HIDE DEF L
  <2> QED
    BY <1>2, <2>1, LengthsFit
<1>9. Room = 2 * u + 1 \/ Room = 2 * u - 2
  BY DEF Room
<1>10. /\ tree.i + 1 \in DOMAIN lengthlist
       /\ tree.i + 1 \in Used(lengthlist)
  <2>1. tree.i + 1 \in 1..Len(lengthlist)
    BY <1>4
  <2> QED
    BY <1>4, <2>1 DEF Used
<1> HIDE DEF L, u, n, c
<1>11. CASE \E e \in Used(lengthlist) :
              Used(lengthlist) = {e} /\ lengthlist[e] = 1
  <2>1. Used(lengthlist) = {tree.i + 1} /\ L = 1
    BY <1>4, <1>10, <1>11
  <2>2. {e \in 1..Len(lengthlist) : lengthlist[e] > 0} = {tree.i + 1}
    BY <1>4, <2>1 DEF Used
  <2>3. u = 1
    BY <1>6, <2>2, FS_Singleton DEF Tally
  <2>4. {e \in 1..tree.i : lengthlist[e] > 0} = {}
    <3> SUFFICES ASSUME NEW e \in 1..tree.i, lengthlist[e] > 0 PROVE FALSE
      OBVIOUS
    <3>1. e \in 1..Len(lengthlist) /\ e # tree.i + 1
      BY <1>4
    <3> QED
      BY <2>2, <3>1
  <2>5. c = 0
    BY <1>4, <2>4, FS_EmptySet DEF Tally
  <2>6. stop = 0 /\ Base(tree) = 0
    BY <1>3, <2>5 DEF Chased, Base, c
  <2>7. tree.chase = 0
    BY <1>7, <2>1, <2>6
  <2>8. Room = 3
    BY <2>3 DEF Room, u
  <2> QED
    BY <2>7, <2>8 DEF NoRoom
<1>12. CASE Measure(lengthlist, Len(lengthlist)) = TwoTo(MaxLength)
  <2>1. /\ Good(n)
        /\ \E f : /\ FreeBy(n, f)
                  /\ f[MaxLength] + Measure(lengthlist, tree.i + 1)
                       = TwoTo(MaxLength)
    BY <1>1, <1>2, MarkersGoOn DEF L, n
  <2>2. c + 1 + Cardinality(Odd(n)) <= u
    BY <1>4, <1>6, <1>12, <2>1, EnoughWords
  <2>3. Cardinality(Odd(n)) \in Nat
    BY OddIsFinite
  <2> DEFINE x == [count |-> c + 1, marker |-> n]
  <2>4. Base(x) = Base(tree) + L - stop
    <3>1. x.count = tree.count + 1 /\ x.marker = MarkersAfter(tree.marker, L)
      BY DEF c, n
    <3>2. tree.count \in Nat /\ (tree.count = 0 => tree.marker = NoMarkers)
      BY <1>5 DEF c, Planting
    <3> HIDE DEF x
    <3> QED
      BY <1>2, <1>3, <3>1, <3>2, BaseMoves DEF L
  <2>5. Base(x) = c + Cardinality(Odd(n))
    <3>1. c + 1 # 0 /\ x.count = c + 1 /\ x.marker = n
      BY <1>5
    <3> HIDE DEF x
    <3>2. Base(x) = c + 1 + Cardinality(Odd(n)) - 1
      BY <3>1 DEF Base
    <3> QED
      BY <1>5, <2>3, <3>2
  <2> HIDE DEF x
  <2>6. tree.chase <= u - 2
    BY <1>5, <1>6, <1>7, <1>8, <2>2, <2>3, <2>4, <2>5
  <2> QED
    BY <1>6, <1>7, <1>9, <2>6 DEF NoRoom
<1>13. ~(Len(lengthlist) < 2) /\ Used(lengthlist) # {}
  BY <1>4, <1>10
<1> QED
  BY <1>11, <1>12, <1>13, Zenon DEF IsTree, TwoTo

LEMMA GrowthStep ==
  ASSUME BInv, Lists, Trees, Growth, [DecodeNext]_allVars
  PROVE  Growth'
<1>0. DOMAIN s = DOMAIN NoBook
  BY DEF BInv, Pointers
<1>1. ASSUME NEW h, NEW listed, Refuse(h, listed) PROVE Growth'
  BY <1>1 DEF Refuse, Growth
<1>2. ASSUME RefuseWords PROVE Growth'
  BY <1>1, <1>2, Zenon DEF RefuseWords
<1>3. ASSUME pc' # "words" PROVE Growth'
  BY <1>3 DEF Growth
<1>4. CASE \/ ReadParameters \/ ReadOrdering \/ ReadLength \/ ReadRun
           \/ ReadMapping \/ PolishQuantvals \/ AllocLattice \/ ReadLattice
  <2>1. pc' # "words"
    BY <1>4, Zenon
       DEF ReadParameters, ReadOrdering, ReadLength, ReadRun, ReadMapping,
                PolishQuantvals, AllocLattice, ReadLattice, NextListed, Refuse
  <2> QED
    BY <1>3, <2>1
<1>5. CASE AllocWords
  BY <1>0, <1>1, <1>5, GrowthStarts
<1>6. CASE SkipEntry \/ ChaseTree \/ PlantLeaf
  <2>1. pc = "words"
    BY <1>6 DEF SkipEntry, ChaseTree, PlantLeaf
  <2> QED
    BY <1>2, <1>6, <2>1, GrowthSkips, GrowthChases, GrowthPlants DEF Trees
<1>7. CASE EndWords \/ PackTable \/ ReadScalars \/ Finish \/ Clear
  <2>1. pc' # "words"
    BY <1>7 DEF EndWords, PackTable, ReadScalars, Finish, Clear,
                vorbis_book_clear, RefuseWords, Refuse
  <2> QED
    BY <1>3, <2>1
<1>8. CASE \/ StartCall \/ NextVector \/ LookAhead \/ WalkBit \/ WalkEnds
           \/ UseEntry \/ UNCHANGED allVars
  <2>1. UNCHANGED <<pc, s, lengthlist, tree>>
    BY <1>8, Zenon DEF StartCall, NextVector, LookAhead, WalkBit, WalkEnds, UseEntry,
                Return, vars, allVars
  <2>2. Room' = Room /\ CurrentLength' = CurrentLength
    BY <2>1 DEF Room, InPlace, CurrentLength
  <2> QED
    BY <2>1, <2>2 DEF Growth
<1> QED
  BY <1>4, <1>5, <1>6, <1>7, <1>8 DEF DecodeNext, Unpack, vorbis_book_unpack

(* A book with words is accepted only when they are a whole tree, and none *)
(* is refused that has one, for its words or for the size of its tree, for *)
(* words of every width and lists of every length (_make_words,            *)
(* codebook.c:162-250).                                                    *)
THEOREM AcceptsTrees == DecodeSpec => []AcceptedIffTree
<1>1. DecodeInit => BInv
  BY BookStarts
<1>2. DecodeInit => Lists /\ Trees /\ Growth
  BY DEF DecodeInit, Init, Lists, Trees, Growing, Listed, Growth
<1>3. Lists /\ Trees /\ Growth => AcceptedIffTree
  BY UnfitIsNoTree, NodesSuffice DEF AcceptedIffTree, Trees
<1>4. BInv /\ Lists /\ Trees /\ Growth /\ [DecodeNext]_allVars
        => Lists' /\ Trees' /\ Growth'
  BY ListsStep, TreesStep, GrowthStep
<1>5. BInv /\ [DecodeNext]_allVars => BInv'
  BY BookInductive
<1> QED
  BY <1>1, <1>2, <1>3, <1>4, <1>5, PTL DEF DecodeSpec
-----------------------------------------------------------------------------
(* What the words make of the tree: leaves, holes, and pointers to nodes   *)
(* that are further on.                                                    *)

RealWidths == ByteBits = 8 /\ WordBytes = 4

LeafCells(r, n) == {a \in 0..(n - 1) : IsLeaf(r[a])}
Holes(r, n) == {a \in 0..(n - 1) : r[a] = 0}

(* A hole is where a codeword is still to come: there are as many as one   *)
(* needs to have a leaf more than there are nodes.                         *)
Grown(t) ==
  /\ \A k \in 0..(t.top - 1), o \in {0, 1} :
       LET w == t.r[2 * k + o]
       IN  /\ w \in Nat
           /\ IsLeaf(w) \/ w = 0 \/ (k < w /\ w <= t.top)
           /\ t.chase < t.top => IsLeaf(w) \/ w < t.top
  /\ Cardinality(LeafCells(t.r, 2 * t.top)) = t.count
  /\ Cardinality(Holes(t.r, 2 * t.top)) =
       IF t.chase < t.top THEN t.top + 1 - t.count ELSE t.top - t.count

LEMMA CellsAreFinite ==
  ASSUME NEW r, NEW n \in Nat
  PROVE  /\ IsFiniteSet(LeafCells(r, n)) /\ Cardinality(LeafCells(r, n)) \in Nat
         /\ IsFiniteSet(Holes(r, n)) /\ Cardinality(Holes(r, n)) \in Nat
<1>1. 0 \in Int /\ n - 1 \in Int
  OBVIOUS
<1>2. IsFiniteSet(0..(n - 1))
  BY <1>1, FS_Interval
<1>3. LeafCells(r, n) \in SUBSET (0..(n - 1)) /\ Holes(r, n) \in SUBSET (0..(n - 1))
  BY DEF LeafCells, Holes
<1>4. IsFiniteSet(LeafCells(r, n)) /\ IsFiniteSet(Holes(r, n))
  BY <1>2, <1>3, FS_Subset
<1> QED
  BY <1>4, FS_CardinalityType

(* One cell is changed.                                                    *)
LEMMA CellChanges ==
  ASSUME NEW n \in Nat, NEW c \in 0..(n - 1), NEW r, NEW q,
         \A a \in 0..(n - 1) : a # c => q[a] = r[a]
  PROVE  /\ ~IsLeaf(r[c]) /\ IsLeaf(q[c]) =>
              Cardinality(LeafCells(q, n)) = Cardinality(LeafCells(r, n)) + 1
         /\ ~IsLeaf(r[c]) /\ ~IsLeaf(q[c]) =>
              Cardinality(LeafCells(q, n)) = Cardinality(LeafCells(r, n))
         /\ r[c] = 0 /\ q[c] # 0 =>
              Cardinality(Holes(q, n)) = Cardinality(Holes(r, n)) - 1
<1>1. /\ IsFiniteSet(LeafCells(r, n)) /\ IsFiniteSet(Holes(r, n))
      /\ IsFiniteSet(Holes(q, n))
      /\ Cardinality(Holes(q, n)) \in Nat
  BY CellsAreFinite
<1>2. ASSUME ~IsLeaf(r[c]), IsLeaf(q[c])
      PROVE  Cardinality(LeafCells(q, n)) = Cardinality(LeafCells(r, n)) + 1
  <2>1. LeafCells(q, n) = LeafCells(r, n) \cup {c} /\ c \notin LeafCells(r, n)
    BY <1>2 DEF LeafCells
  <2> QED
    BY <1>1, <2>1, FS_AddElement
<1>3. ASSUME ~IsLeaf(r[c]), ~IsLeaf(q[c])
      PROVE  LeafCells(q, n) = LeafCells(r, n)
  BY <1>3 DEF LeafCells
<1>4. ASSUME r[c] = 0, q[c] # 0
      PROVE  Cardinality(Holes(q, n)) = Cardinality(Holes(r, n)) - 1
  <2>1. Holes(r, n) = Holes(q, n) \cup {c} /\ c \notin Holes(q, n)
    BY <1>4 DEF Holes
  <2>2. Cardinality(Holes(r, n)) = Cardinality(Holes(q, n)) + 1
    BY <1>1, <2>1, FS_AddElement
  <2> QED
    BY <1>1, <2>2
<1> QED
  BY <1>2, <1>3, <1>4

LEMMA CellLeafed ==
  ASSUME NEW n \in Nat, NEW c \in 0..(n - 1), NEW r, NEW q,
         \A a \in 0..(n - 1) : a # c => q[a] = r[a],
         ~IsLeaf(r[c]), IsLeaf(q[c])
  PROVE  Cardinality(LeafCells(q, n)) = Cardinality(LeafCells(r, n)) + 1
BY CellChanges

LEMMA CellKept ==
  ASSUME NEW n \in Nat, NEW c \in 0..(n - 1), NEW r, NEW q,
         \A a \in 0..(n - 1) : a # c => q[a] = r[a],
         ~IsLeaf(r[c]), ~IsLeaf(q[c])
  PROVE  Cardinality(LeafCells(q, n)) = Cardinality(LeafCells(r, n))
BY CellChanges

LEMMA HoleFilled ==
  ASSUME NEW n \in Nat, NEW c \in 0..(n - 1), NEW r, NEW q,
         \A a \in 0..(n - 1) : a # c => q[a] = r[a], r[c] = 0, q[c] # 0
  PROVE  Cardinality(Holes(q, n)) = Cardinality(Holes(r, n)) - 1
BY CellChanges

(* A node is added.                                                        *)
LEMMA NodeAdded ==
  ASSUME NEW n \in Nat, NEW r, NEW q, \A a \in 0..(n - 1) : q[a] = r[a],
         ~IsLeaf(q[n + 1]), q[n] # 0, q[n + 1] = 0
  PROVE  /\ IsLeaf(q[n]) => Cardinality(LeafCells(q, n + 2))
                              = Cardinality(LeafCells(r, n)) + 1
         /\ ~IsLeaf(q[n]) => Cardinality(LeafCells(q, n + 2))
                               = Cardinality(LeafCells(r, n))
         /\ Cardinality(Holes(q, n + 2)) = Cardinality(Holes(r, n)) + 1
<1>1. /\ IsFiniteSet(LeafCells(r, n)) /\ IsFiniteSet(Holes(r, n))
  BY CellsAreFinite
<1>2. /\ \A a : a \in 0..(n + 2 - 1) <=> a \in 0..(n - 1) \/ a = n \/ a = n + 1
      /\ n \notin 0..(n - 1) /\ n + 1 \notin 0..(n - 1)
  OBVIOUS
<1>3. ASSUME IsLeaf(q[n])
      PROVE  Cardinality(LeafCells(q, n + 2)) = Cardinality(LeafCells(r, n)) + 1
  <2>1. LeafCells(q, n + 2) = LeafCells(r, n) \cup {n} /\ n \notin LeafCells(r, n)
    BY <1>2, <1>3 DEF LeafCells
  <2> QED
    BY <1>1, <2>1, FS_AddElement
<1>4. ASSUME ~IsLeaf(q[n])
      PROVE  LeafCells(q, n + 2) = LeafCells(r, n)
  BY <1>2, <1>4 DEF LeafCells
<1>5. Cardinality(Holes(q, n + 2)) = Cardinality(Holes(r, n)) + 1
  <2>1. Holes(q, n + 2) = Holes(r, n) \cup {n + 1} /\ n + 1 \notin Holes(r, n)
    BY <1>2 DEF Holes
  <2> QED
    BY <1>1, <2>1, FS_AddElement
<1> QED
  BY <1>3, <1>4, <1>5

(* Where a word has been followed to, there is no leaf.                    *)
LEMMA ReachedCell ==
  ASSUME NEW t, NEW ways, NEW L \in 1..MaxLength, NEW stop, t.count \in Nat,
         Placed(t, ways, stop), Chased(t, ways, L, stop)
  PROVE  LET bit == Bit(t.marker[L], L, t.j)
             w   == t.r[2 * t.chase + bit]
         IN  /\ t.chase \in Nat /\ t.top \in Nat /\ bit \in {0, 1}
             /\ t.chase < t.top \/ (t.chase = t.top /\ bit = 0)
             /\ t.chase < t.top => w \in Nat /\ w < t.top
             /\ t.chase < t.top /\ t.j = L - 1 => w = 0
<1> DEFINE B == Base(t)
           v == ways[stop]
           bit == Bit(t.marker[L], L, t.j)
           w == t.r[2 * t.chase + bit]
<1>0. /\ MaxLength \in 1..32 /\ stop \in 0..L /\ t.j \in Nat /\ t.j < L
      /\ B \in Nat /\ t.chase \in Nat
  BY ChasedTells, ChasedNode
<1>1. stop \in Nat /\ stop <= L /\ L \in Nat
  BY <1>0
<1>2. CASE t.j >= stop
  <2>1. bit = 0
    BY <1>2, ChasedBit
  <2>2. t.top = t.chase
    BY <1>2 DEF Chased
  <2> HIDE DEF bit
  <2> QED
    BY <1>0, <2>1, <2>2 DEF bit
<1>3. CASE t.j < stop
  <2>1. Way(v, t.r, t.marker[stop], stop, B)
    <3>1. stop > 0
      BY <1>0, <1>1, <1>3
    <3> QED
      BY <3>1, ChasedTells
  <2>2. bit = Bit(t.marker[stop], stop, t.j)
    BY <1>3, ChasedBit
  <2>3. /\ t.chase = v[t.j] /\ t.top = B
        /\ t.r[2 * v[stop - 1] + 1] = 0
    BY <1>3 DEF Chased
  <2>4. t.j = stop - 1 => bit = 1
    BY ChasedBit
  <2>5. t.j \in 0..(stop - 1) /\ stop \in 1..32 /\ t.j + 1 \in Nat
    BY <1>0, <1>1, <1>3
  <2> HIDE DEF B, v
  <2>6. v[t.j] \in Nat /\ v[t.j] < B
    BY <2>1, <2>5 DEF Way
  <2>7. CASE t.j = stop - 1
    <3>1. 2 * t.chase + bit = 2 * v[stop - 1] + 1
      BY <2>3, <2>4, <2>7
    <3>2. w = 0
      BY <2>3, <3>1
    <3> HIDE DEF bit, w
    <3> QED
      BY <1>0, <2>3, <2>4, <2>6, <2>7, <3>2 DEF bit, w
  <2>8. CASE t.j # stop - 1
    <3>1. t.j \in 0..(stop - 2) /\ t.j + 1 \in 0..(stop - 1) /\ t.j # L - 1
      BY <1>0, <1>1, <2>5, <2>8
    <3>2. t.r[2 * v[t.j] + Bit(t.marker[stop], stop, t.j)] = v[t.j + 1]
      BY <2>1, <3>1 DEF Way
    <3>3. v[t.j + 1] \in Nat /\ v[t.j + 1] < B
      BY <2>1, <3>1 DEF Way
    <3>4. w = v[t.j + 1]
      BY <2>2, <2>3, <3>2
    <3>5. bit \in {0, 1}
      <4>1. t.marker[stop] \in Nat
        <5>1. t.marker \in [0..MaxLength -> Nat]
          BY ChasedTells
        <5>2. stop \in 0..MaxLength
          BY <1>0, <1>1
        <5> QED
          BY <5>1, <5>2
      <4> QED
        BY <2>2, <2>5, <4>1, BitIs
    <3> HIDE DEF bit, w
    <3> QED
      BY <1>0, <2>3, <2>6, <3>1, <3>3, <3>4, <3>5 DEF bit, w
  <2> QED
    BY <2>7, <2>8
<1> QED
  BY <1>0, <1>1, <1>2, <1>3

(* A step down the tree adds a node, or a pointer to the next.             *)
LEMMA GrownChases ==
  ASSUME NEW t, NEW u, NEW bit, NEW room, Grown(t), t.count \in Nat,
         t.chase \in Nat, t.top \in Nat, bit \in {0, 1},
         t.chase < t.top \/ (t.chase = t.top /\ bit = 0),
         t.chase < t.top => /\ t.r[2 * t.chase + bit] \in Nat
                            /\ t.r[2 * t.chase + bit] < t.top,
         TopBit(WordBits) \in Nat, t.top + 1 < TopBit(WordBits),
         Cells(t, room), 2 * t.chase + 1 < room, Goes(t, u, bit)
  PROVE  Grown(u)
<1> DEFINE n == 2 * t.top
           c == 2 * t.chase + bit
<1>0. \A w : IsLeaf(w) <=> w >= TopBit(WordBits)
  BY DEF IsLeaf
<1>1. /\ room \in Int /\ DOMAIN t.r = 0..(room - 1)
      /\ (t.top > 0 => n <= room) /\ n \in Nat
  BY DEF Cells
<1>2. /\ \A k \in 0..(t.top - 1), o \in {0, 1} :
           LET w == t.r[2 * k + o]
           IN  /\ w \in Nat
               /\ IsLeaf(w) \/ w = 0 \/ (k < w /\ w <= t.top)
               /\ t.chase < t.top => IsLeaf(w) \/ w < t.top
      /\ Cardinality(LeafCells(t.r, n)) = t.count
      /\ Cardinality(Holes(t.r, n)) =
           IF t.chase < t.top THEN t.top + 1 - t.count ELSE t.top - t.count
  BY DEF Grown
<1>3. u.count = t.count
  BY DEF Goes
(* A new node.                                                             *)
<1>4. CASE t.chase = t.top
  <2>1. /\ u.r = [t.r EXCEPT ![n] = t.top + 1, ![n + 1] = 0]
        /\ u.chase = u.r[n] /\ u.top = t.top + 1
    BY <1>4 DEF Goes
  <2>2. n \in DOMAIN t.r /\ n + 1 \in DOMAIN t.r
    BY <1>1, <1>4
  <2>3. /\ u.r[n] = t.top + 1 /\ u.r[n + 1] = 0
        /\ \A a \in 0..(n - 1) : u.r[a] = t.r[a]
    <3>1. n < room /\ room \in Int
      BY <1>1, <1>4
    <3> HIDE DEF n
    <3>2. \A a \in 0..(n - 1) : a \in DOMAIN t.r /\ a # n /\ a # n + 1
      BY <1>1, <3>1
    <3>3. n # n + 1
      BY <1>1
    <3> QED
      BY <2>1, <2>2, <3>2, <3>3
  <2>4. u.chase = u.top /\ 2 * u.top = n + 2
    BY <2>1, <2>3
  <2>5. ~IsLeaf(u.r[n]) /\ ~IsLeaf(u.r[n + 1]) /\ u.r[n] # 0
    BY <1>0, <2>3
  <2>6. /\ Cardinality(LeafCells(u.r, n + 2)) = t.count
        /\ Cardinality(Holes(u.r, n + 2)) = t.top - t.count + 1
    <3>1. /\ Cardinality(LeafCells(t.r, n)) = t.count
          /\ Cardinality(Holes(t.r, n)) = t.top - t.count
      <4>1. ~(t.chase < t.top)
        BY <1>4
      <4> QED
        BY <1>2, <4>1
    <3> HIDE DEF n
    <3>2. n \in Nat
      BY <1>1
    <3>3. /\ Cardinality(LeafCells(u.r, n + 2)) = Cardinality(LeafCells(t.r, n))
          /\ Cardinality(Holes(u.r, n + 2)) = Cardinality(Holes(t.r, n)) + 1
      BY <2>3, <2>5, <3>2, NodeAdded, ZenonT(40)
    <3> QED
      BY <3>1, <3>3
  <2>7. ASSUME NEW k \in 0..(u.top - 1), NEW o \in {0, 1}
        PROVE  LET w == u.r[2 * k + o]
               IN  /\ w \in Nat
                   /\ IsLeaf(w) \/ w = 0 \/ (k < w /\ w <= u.top)
    <3>1. CASE k = t.top
      <4>1. 2 * k + o = n \/ 2 * k + o = n + 1
        BY <3>1
      <4> HIDE DEF n
      <4> QED
        BY <2>1, <2>3, <3>1, <4>1
    <3>2. CASE k # t.top
      <4>1. k \in 0..(t.top - 1) /\ 2 * k + o \in 0..(n - 1)
        BY <2>1, <3>2
      <4>2. u.r[2 * k + o] = t.r[2 * k + o]
        BY <2>3, <4>1
      <4>3. LET w == t.r[2 * k + o]
            IN  w \in Nat /\ (IsLeaf(w) \/ w = 0 \/ (k < w /\ w <= t.top))
        BY <1>2, <4>1
      <4> QED
        BY <2>1, <4>2, <4>3
    <3> QED
      BY <3>1, <3>2
  <2>8. ~(u.chase < u.top)
    BY <2>1, <2>4
  <2> HIDE DEF n
  <2>9. Cardinality(Holes(u.r, n + 2)) = u.top - u.count
    BY <1>3, <2>1, <2>6
  <2> QED
    BY <1>3, <2>4, <2>6, <2>7, <2>8, <2>9 DEF Grown
(* A hole is filled, or a node is there already.                           *)
<1>5. CASE t.chase < t.top
  <2>1. /\ u.r = IF t.r[c] = 0 THEN [t.r EXCEPT ![c] = t.top] ELSE t.r
        /\ u.chase = u.r[c] /\ u.top = t.top
    BY <1>5 DEF Goes
  <2>2. c \in 0..(n - 1) /\ c \in DOMAIN t.r /\ t.r[c] \in Nat /\ t.r[c] < t.top
    <3>1. c \in 0..(n - 1) /\ t.top > 0
      BY <1>5
    <3>2. c \in 0..(room - 1)
      <4>1. n <= room /\ room \in Int /\ c <= n - 1 /\ c \in Nat
        BY <1>1, <3>1
      <4> HIDE DEF c, n
      <4> QED
        BY <1>1, <4>1
    <3> QED
      BY <1>1, <1>5, <3>1, <3>2
  <2> HIDE DEF n
  <2>3. CASE t.r[c] # 0
    <3>1. u.r = t.r /\ u.chase < u.top
      BY <2>1, <2>2, <2>3
    <3> QED
      BY <1>2, <1>3, <1>5, <2>1, <3>1 DEF Grown, n
  <2>4. CASE t.r[c] = 0
    <3>1. /\ u.r[c] = t.top /\ u.chase = u.top
          /\ \A a \in 0..(n - 1) : a # c => u.r[a] = t.r[a]
      BY <2>1, <2>2, <2>4
    <3>2. ~IsLeaf(t.r[c]) /\ ~IsLeaf(u.r[c]) /\ u.r[c] # 0
      BY <1>0, <1>5, <2>2, <3>1
    <3>3. /\ Cardinality(LeafCells(u.r, n)) = t.count
          /\ Cardinality(Holes(u.r, n)) = t.top - t.count
      <4> HIDE DEF c
      <4>1. /\ Cardinality(LeafCells(u.r, n)) = Cardinality(LeafCells(t.r, n))
            /\ Cardinality(Holes(u.r, n)) = Cardinality(Holes(t.r, n)) - 1
        <5>1. /\ n \in Nat /\ c \in 0..(n - 1)
              /\ \A a \in 0..(n - 1) : a # c => u.r[a] = t.r[a]
          BY <1>1, <2>2, <3>1
        <5>2. ~IsLeaf(t.r[c]) /\ ~IsLeaf(u.r[c]) /\ t.r[c] = 0 /\ u.r[c] # 0
          BY <2>4, <3>2
        <5>3. Cardinality(LeafCells(u.r, n)) = Cardinality(LeafCells(t.r, n))
          <6> DEFINE q == u.r
                     r == t.r
          <6>1. /\ n \in Nat /\ c \in 0..(n - 1)
                /\ \A a \in 0..(n - 1) : a # c => q[a] = r[a]
            BY <5>1
          <6>2. ~IsLeaf(r[c]) /\ ~IsLeaf(q[c])
            BY <5>2
          <6> HIDE DEF q, r
          <6>3. Cardinality(LeafCells(q, n)) = Cardinality(LeafCells(r, n))
            BY <6>1, <6>2, CellKept
          <6> QED
            BY <6>3 DEF q, r
        <5>4. Cardinality(Holes(u.r, n)) = Cardinality(Holes(t.r, n)) - 1
          BY <5>1, <5>2, HoleFilled
        <5> QED
          BY <5>3, <5>4
      <4> QED
        BY <1>2, <1>5, <4>1
    <3>4. ASSUME NEW k \in 0..(u.top - 1), NEW o \in {0, 1}
          PROVE  LET w == u.r[2 * k + o]
                 IN  /\ w \in Nat
                     /\ IsLeaf(w) \/ w = 0 \/ (k < w /\ w <= u.top)
      <4>1. k \in 0..(t.top - 1) /\ 2 * k + o \in 0..(n - 1)
        BY <2>1 DEF n
      <4>2. CASE 2 * k + o = c
        BY <1>5, <2>1, <3>1, <4>1, <4>2
      <4>3. CASE 2 * k + o # c
        <5>1. u.r[2 * k + o] = t.r[2 * k + o]
          BY <3>1, <4>1, <4>3
        <5>2. LET w == t.r[2 * k + o]
              IN  w \in Nat /\ (IsLeaf(w) \/ w = 0 \/ (k < w /\ w <= t.top))
          BY <1>2, <4>1
        <5> QED
          BY <2>1, <5>1, <5>2
      <4> QED
        BY <4>2, <4>3
    <3>5. ~(u.chase < u.top)
      BY <2>1, <3>1
    <3> QED
      BY <1>3, <2>1, <3>3, <3>4, <3>5 DEF Grown, n
  <2> QED
    BY <2>3, <2>4
<1> QED
  BY <1>4, <1>5

(* A leaf fills a hole, or half of a new node.                             *)
LEMMA GrownPlants ==
  ASSUME NEW t, NEW u, NEW bit, NEW room, NEW L, NEW leaf, Grown(t),
         t.count \in Nat, t.chase \in Nat, t.top \in Nat, bit \in {0, 1},
         t.chase < t.top \/ (t.chase = t.top /\ bit = 0),
         t.chase < t.top => t.r[2 * t.chase + bit] = 0,
         TopBit(WordBits) \in Nat, TopBit(WordBits) > 0,
         leaf \in Nat, IsLeaf(leaf),
         Cells(t, room), 2 * t.chase + 1 < room,
         Plants(t, u, L, bit, leaf), u.chase = 0
  PROVE  Grown(u)
<1> DEFINE n == 2 * t.top
           c == 2 * t.chase + bit
<1>0. (\A w : IsLeaf(w) <=> w >= TopBit(WordBits)) /\ ~IsLeaf(0) /\ leaf # 0
  BY DEF IsLeaf
<1>1. /\ room \in Int /\ DOMAIN t.r = 0..(room - 1)
      /\ (t.top > 0 => n <= room) /\ n \in Nat
  BY DEF Cells
<1>2. /\ \A k \in 0..(t.top - 1), o \in {0, 1} :
           LET w == t.r[2 * k + o]
           IN  /\ w \in Nat
               /\ IsLeaf(w) \/ w = 0 \/ (k < w /\ w <= t.top)
               /\ t.chase < t.top => IsLeaf(w) \/ w < t.top
      /\ Cardinality(LeafCells(t.r, n)) = t.count
      /\ Cardinality(Holes(t.r, n)) =
           IF t.chase < t.top THEN t.top + 1 - t.count ELSE t.top - t.count
  BY DEF Grown
<1>3. u.count = t.count + 1
  BY DEF Plants
<1>4. CASE t.chase = t.top
  <2>1. /\ u.r = [[t.r EXCEPT ![n + 1] = 0] EXCEPT ![n] = leaf]
        /\ u.top = t.top + 1
    BY <1>4 DEF Plants
  <2>2. n \in DOMAIN t.r /\ n + 1 \in DOMAIN t.r
    BY <1>1, <1>4
  <2>3. /\ u.r[n] = leaf /\ u.r[n + 1] = 0
        /\ \A a \in 0..(n - 1) : u.r[a] = t.r[a]
    <3>1. n < room /\ room \in Int
      BY <1>1, <1>4
    <3> HIDE DEF n
    <3>2. \A a \in 0..(n - 1) : a \in DOMAIN t.r /\ a # n /\ a # n + 1
      BY <1>1, <3>1
    <3>3. n # n + 1
      BY <1>1
    <3> QED
      BY <2>1, <2>2, <3>2, <3>3
  <2>4. u.chase < u.top /\ 2 * u.top = n + 2
    BY <2>1, <2>3
  <2>5. IsLeaf(u.r[n]) /\ ~IsLeaf(u.r[n + 1]) /\ u.r[n] # 0
    BY <1>0, <2>3
  <2>6. /\ Cardinality(LeafCells(u.r, n + 2)) = t.count + 1
        /\ Cardinality(Holes(u.r, n + 2)) = t.top - t.count + 1
    <3>1. /\ Cardinality(LeafCells(t.r, n)) = t.count
          /\ Cardinality(Holes(t.r, n)) = t.top - t.count
      <4>1. ~(t.chase < t.top)
        BY <1>4
      <4> QED
        BY <1>2, <4>1
    <3> HIDE DEF n
    <3>2. n \in Nat
      BY <1>1
    <3>3. Cardinality(LeafCells(u.r, n + 2)) = Cardinality(LeafCells(t.r, n)) + 1
      BY <2>3, <2>5, <3>2, NodeAdded, ZenonT(40)
    <3>4. Cardinality(Holes(u.r, n + 2)) = Cardinality(Holes(t.r, n)) + 1
      BY <2>3, <2>5, <3>2, NodeAdded, ZenonT(40)
    <3> QED
      BY <3>1, <3>3, <3>4
  <2>7. ASSUME NEW k \in 0..(u.top - 1), NEW o \in {0, 1}
        PROVE  LET w == u.r[2 * k + o]
               IN  /\ w \in Nat
                   /\ IsLeaf(w) \/ w = 0 \/ (k < w /\ w <= u.top)
                   /\ IsLeaf(w) \/ w < u.top
    <3>1. CASE k = t.top
      <4>1. 2 * k + o = n \/ 2 * k + o = n + 1
        BY <3>1
      <4> HIDE DEF n
      <4> QED
        BY <1>0, <2>1, <2>3, <3>1, <4>1
    <3>2. CASE k # t.top
      <4>1. k \in 0..(t.top - 1) /\ 2 * k + o \in 0..(n - 1)
        BY <2>1, <3>2
      <4>2. u.r[2 * k + o] = t.r[2 * k + o]
        BY <2>3, <4>1
      <4>3. LET w == t.r[2 * k + o]
            IN  w \in Nat /\ (IsLeaf(w) \/ w = 0 \/ (k < w /\ w <= t.top))
        BY <1>2, <4>1
      <4> QED
        BY <2>1, <4>2, <4>3
    <3> QED
      BY <3>1, <3>2
  <2> HIDE DEF n
  <2>8. Cardinality(Holes(u.r, n + 2)) = u.top + 1 - u.count
    BY <1>3, <2>1, <2>6
  <2> QED
    BY <1>3, <2>4, <2>6, <2>7, <2>8 DEF Grown
<1>5. CASE t.chase < t.top
  <2>1. u.r = [t.r EXCEPT ![c] = leaf] /\ u.top = t.top
    BY <1>5 DEF Plants
  <2>2. c \in 0..(n - 1) /\ c \in DOMAIN t.r /\ t.r[c] = 0
    <3>1. c \in 0..(n - 1) /\ t.top > 0
      BY <1>5
    <3>2. c \in 0..(room - 1)
      <4>1. n <= room /\ room \in Int /\ c <= n - 1 /\ c \in Nat
        BY <1>1, <3>1
      <4> HIDE DEF c, n
      <4> QED
        BY <1>1, <4>1
    <3> QED
      BY <1>1, <1>5, <3>1, <3>2
  <2> HIDE DEF n
  <2>3. /\ u.r[c] = leaf /\ u.chase < u.top
        /\ \A a \in 0..(n - 1) : a # c => u.r[a] = t.r[a]
    BY <1>5, <2>1, <2>2
  <2>4. ~IsLeaf(t.r[c]) /\ IsLeaf(u.r[c]) /\ u.r[c] # 0
    BY <1>0, <2>2, <2>3
  <2>5. /\ Cardinality(LeafCells(u.r, n)) = t.count + 1
        /\ Cardinality(Holes(u.r, n)) = t.top + 1 - t.count - 1
    <3> HIDE DEF c
    <3>1. /\ Cardinality(LeafCells(u.r, n)) = Cardinality(LeafCells(t.r, n)) + 1
          /\ Cardinality(Holes(u.r, n)) = Cardinality(Holes(t.r, n)) - 1
      <4>1. /\ n \in Nat /\ c \in 0..(n - 1)
            /\ \A a \in 0..(n - 1) : a # c => u.r[a] = t.r[a]
        BY <1>1, <2>2, <2>3
      <4>2. ~IsLeaf(t.r[c]) /\ IsLeaf(u.r[c]) /\ t.r[c] = 0 /\ u.r[c] # 0
        BY <2>2, <2>4
      <4>3. Cardinality(LeafCells(u.r, n)) = Cardinality(LeafCells(t.r, n)) + 1
        BY <4>1, <4>2, CellLeafed, Zenon
      <4>4. Cardinality(Holes(u.r, n)) = Cardinality(Holes(t.r, n)) - 1
        BY <4>1, <4>2, HoleFilled, Zenon
      <4> QED
        BY <4>3, <4>4
    <3> QED
      BY <1>2, <1>5, <3>1
  <2>6. ASSUME NEW k \in 0..(u.top - 1), NEW o \in {0, 1}
        PROVE  LET w == u.r[2 * k + o]
               IN  /\ w \in Nat
                   /\ IsLeaf(w) \/ w = 0 \/ (k < w /\ w <= u.top)
                   /\ IsLeaf(w) \/ w < u.top
    <3>1. k \in 0..(t.top - 1) /\ 2 * k + o \in 0..(n - 1)
      BY <2>1 DEF n
    <3>2. CASE 2 * k + o = c
      BY <1>0, <2>1, <2>3, <3>1, <3>2
    <3>3. CASE 2 * k + o # c
      <4>1. u.r[2 * k + o] = t.r[2 * k + o]
        BY <2>3, <3>1, <3>3
      <4>2. LET w == t.r[2 * k + o]
            IN  /\ w \in Nat /\ (IsLeaf(w) \/ w = 0 \/ (k < w /\ w <= t.top))
                /\ IsLeaf(w) \/ w < t.top
        BY <1>2, <1>5, <3>1
      <4> QED
        BY <2>1, <4>1, <4>2
    <3> QED
      BY <3>2, <3>3
  <2>7. Cardinality(Holes(u.r, n)) = u.top + 1 - u.count
    BY <1>3, <2>1, <2>5
  <2> QED
    BY <1>3, <2>1, <2>3, <2>5, <2>6, <2>7 DEF Grown, n
<1> QED
  BY <1>4, <1>5
-----------------------------------------------------------------------------
(* Functions that are defined step by step.                                *)

LEMMA StepsExist ==
  ASSUME NEW n \in Nat, NEW b \in Nat, NEW st \in [(1..n) \X Nat -> Nat]
  PROVE  \E g : /\ g \in [0..n -> Nat] /\ g[0] = b
                /\ \A i \in 1..n : g[i] = st[<<i, g[i - 1]>>]
<1> DEFINE Ok(k, g) == /\ g \in [0..k -> Nat] /\ g[0] = b
                       /\ \A i \in 1..k : g[i] = st[<<i, g[i - 1]>>]
           T == {k \in Nat : k <= n => \E g : Ok(k, g)}
<1>1. 0 \in T
  <2>1. Ok(0, [i \in 0..0 |-> b])
    OBVIOUS
  <2> QED
    BY <2>1
<1>2. ASSUME NEW k \in Nat, k \in T PROVE k + 1 \in T
  <2> SUFFICES ASSUME k + 1 <= n PROVE \E g : Ok(k + 1, g)
    OBVIOUS
  <2>1. PICK g : Ok(k, g)
    BY <1>2
  <2>2. PICK x \in Nat : x = st[<<k + 1, g[k]>>]
    <3>1. g[k] \in Nat /\ k + 1 \in 1..n
      BY <2>1
    <3> QED
      BY <3>1
  <2> DEFINE h == [i \in 0..(k + 1) |-> IF i <= k THEN g[i] ELSE x]
  <2>3. h[k + 1] = x /\ h[k] = g[k] /\ h[0] = b
    BY <2>1
  <2>4. \A i \in 1..k : h[i] = g[i] /\ h[i - 1] = g[i - 1]
    BY <2>1
  <2>5. h \in [0..(k + 1) -> Nat]
    BY <2>1
  <2>6. \A i \in 1..(k + 1) : i \in 1..k \/ (i = k + 1 /\ i - 1 = k)
    OBVIOUS
  <2> HIDE DEF h
  <2>7. ASSUME NEW i \in 1..(k + 1) PROVE h[i] = st[<<i, h[i - 1]>>]
    <3>1. CASE i \in 1..k
      BY <2>1, <2>4, <3>1
    <3>2. CASE i = k + 1
      BY <2>2, <2>3, <2>6, <3>2
    <3> QED
      BY <2>6, <3>1, <3>2
  <2>8. Ok(k + 1, h)
    BY <2>3, <2>5, <2>7
  <2> HIDE DEF Ok
  <2> QED
    BY <2>8
<1> HIDE DEF T
<1>3. n \in T
  BY <1>1, <1>2, InductiveSet
<1> QED
  BY <1>3 DEF T

(* The digits of an entry.                                                 *)
LEMMA OffsetEquation ==
  ASSUME NEW entry \in Nat, NEW j \in Nat, quantvals \in Nat \ {0}
  PROVE  \E p : /\ p \in [0..j -> Nat] /\ p[0] = entry
                /\ \A k \in 1..j : p[k] = p[k - 1] \div quantvals
                /\ Offset(entry, j) = p[j] % quantvals
<1> DEFINE Eq(p) == p = [k \in 0..j |->
                          IF k = 0 THEN entry ELSE p[k - 1] \div quantvals]
           q == CHOOSE p : Eq(p)
           st == [x \in (1..j) \X Nat |-> x[2] \div quantvals]
<1>1. st \in [(1..j) \X Nat -> Nat]
  OBVIOUS
<1>2. PICK g : /\ g \in [0..j -> Nat] /\ g[0] = entry
               /\ \A i \in 1..j : g[i] = st[<<i, g[i - 1]>>]
  <2> HIDE DEF st
  <2>1. \A n, b \in Nat : \A f \in [(1..n) \X Nat -> Nat] :
          \E g : /\ g \in [0..n -> Nat] /\ g[0] = b
                 /\ \A i \in 1..n : g[i] = f[<<i, g[i - 1]>>]
    BY StepsExist, Zenon
  <2>2. \A f \in [(1..j) \X Nat -> Nat] :
          \E g : /\ g \in [0..j -> Nat] /\ g[0] = entry
                 /\ \A i \in 1..j : g[i] = f[<<i, g[i - 1]>>]
    BY <2>1, Zenon
  <2> QED
    BY <1>1, <2>2, Zenon
<1>3. \A i \in 1..j : g[i] = g[i - 1] \div quantvals
  <2> TAKE i \in 1..j
  <2>1. g[i - 1] \in Nat
    BY <1>2
  <2>2. st[<<i, g[i - 1]>>] = g[i - 1] \div quantvals
    BY <2>1
  <2> QED
    BY <1>2, <2>2
<1> HIDE DEF st
<1>4. Eq(g)
  <2>1. \A i \in 0..j : i = 0 \/ i \in 1..j
    OBVIOUS
  <2>2. g = [i \in 0..j |-> g[i]]
    BY <1>2
  <2> QED
    BY <1>2, <1>3, <2>1, <2>2
<1>5. Eq(q)
  BY <1>4
<1>6. Offset(entry, j) = q[j] % quantvals
  BY DEF Offset
<1> HIDE DEF q
<1>7. q[0] = entry /\ \A i \in 1..j : q[i] = q[i - 1] \div quantvals
  BY <1>5
<1>8. \A i \in Nat : i <= j => q[i] \in Nat
  <2> DEFINE T == {i \in Nat : i <= j => q[i] \in Nat}
  <2>1. 0 \in T
    BY <1>7
  <2>2. ASSUME NEW i \in Nat, i \in T PROVE i + 1 \in T
    BY <1>7, <2>2
  <2> HIDE DEF T
  <2>3. Nat \subseteq T
    BY <2>1, <2>2, InductiveSet
  <2> QED
    BY <2>3 DEF T
<1>9. q \in [0..j -> Nat]
  BY <1>5, <1>8
<1> QED
  BY <1>6, <1>7, <1>9

LEMMA OffsetIn ==
  ASSUME NEW entry \in Nat, NEW j \in Nat, quantvals \in Nat \ {0}
  PROVE  Offset(entry, j) \in Nat /\ Offset(entry, j) < quantvals
<1>1. PICK p : /\ p \in [0..j -> Nat] /\ p[0] = entry
               /\ \A k \in 1..j : p[k] = p[k - 1] \div quantvals
               /\ Offset(entry, j) = p[j] % quantvals
  BY OffsetEquation, Zenon
<1>2. p[j] \in Nat
  BY <1>1
<1> QED
  BY <1>1, <1>2

(* The fields of a leaf.                                                   *)
LEMMA FieldsEquation ==
  ASSUME s.dim \in Nat, NEW v \in [0..(s.dim - 1) -> Nat], NEW bits \in Nat,
         bits * s.dim <= 32
  PROVE  \E p : /\ p \in [0..s.dim -> Nat] /\ p[0] = 0
                /\ \A k \in 1..s.dim :
                     p[k] = p[k - 1] + v[k - 1] * TwoTo(bits * (k - 1))
                /\ Fields(v, bits) = p[s.dim]
<1> DEFINE d == s.dim
           Eq(p) == p = [n \in 0..d |->
                          IF n = 0 THEN 0
                          ELSE p[n - 1] + v[n - 1] * TwoTo(bits * (n - 1))]
           q == CHOOSE p : Eq(p)
           st == [x \in (1..d) \X Nat |->
                    x[2] + v[x[1] - 1] * TwoTo(bits * (x[1] - 1))]
<1>0. ASSUME NEW n \in 1..d PROVE v[n - 1] * TwoTo(bits * (n - 1)) \in Nat
  <2>0. d \in Nat /\ n \in Nat /\ 1 <= n /\ n <= d
    OBVIOUS
  <2> HIDE DEF d
  <2>1. n - 1 \in 0..(d - 1) /\ n - 1 \in Nat /\ n - 1 <= d /\ d \in Nat
    BY <2>0
  <2> USE DEF d
  <2>2. bits * (n - 1) <= bits * d /\ bits * (n - 1) \in Nat
    BY <2>1
  <2>3. bits * (n - 1) \in 0..32
    BY <2>2
  <2>4. TwoTo(bits * (n - 1)) \in Nat
    BY <2>3, Doubling
  <2>5. v[n - 1] \in Nat
    BY <2>1
  <2> QED
    BY <2>4, <2>5
<1>1. st \in [(1..d) \X Nat -> Nat]
  <2> SUFFICES ASSUME NEW x \in (1..d) \X Nat
               PROVE  x[2] + v[x[1] - 1] * TwoTo(bits * (x[1] - 1)) \in Nat
    OBVIOUS
  <2>1. x[1] \in 1..d /\ x[2] \in Nat
    OBVIOUS
  <2>2. v[x[1] - 1] * TwoTo(bits * (x[1] - 1)) \in Nat
    BY <1>0, <2>1
  <2> QED
    BY <2>1, <2>2
<1>2. PICK g : /\ g \in [0..d -> Nat] /\ g[0] = 0
               /\ \A i \in 1..d : g[i] = st[<<i, g[i - 1]>>]
  <2>1. d \in Nat /\ 0 \in Nat
    OBVIOUS
  <2> HIDE DEF st, d, Eq, q
  <2>2. \A n, b \in Nat : \A f \in [(1..n) \X Nat -> Nat] :
          \E g : /\ g \in [0..n -> Nat] /\ g[0] = b
                 /\ \A i \in 1..n : g[i] = f[<<i, g[i - 1]>>]
    BY StepsExist, Zenon
  <2>3. \A f \in [(1..d) \X Nat -> Nat] :
          \E g : /\ g \in [0..d -> Nat] /\ g[0] = 0
                 /\ \A i \in 1..d : g[i] = f[<<i, g[i - 1]>>]
    BY <2>1, <2>2, Zenon
  <2> QED
    BY <1>1, <2>3, Zenon
<1>3. \A i \in 1..d : g[i] = g[i - 1] + v[i - 1] * TwoTo(bits * (i - 1))
  <2> TAKE i \in 1..d
  <2>1. g[i - 1] \in Nat
    <3>1. g \in [0..d -> Nat] /\ d \in Nat
      BY <1>2
    <3> HIDE DEF d, st
    <3>2. i - 1 \in 0..d
      BY <3>1
    <3> QED
      BY <3>1, <3>2
  <2>2. st[<<i, g[i - 1]>>] = g[i - 1] + v[i - 1] * TwoTo(bits * (i - 1))
    BY <2>1
  <2> QED
    BY <1>2, <2>2
<1> HIDE DEF st
<1>4. Eq(g)
  <2>1. \A i \in 0..d : i = 0 \/ i \in 1..d
    OBVIOUS
  <2>2. g = [i \in 0..d |-> g[i]]
    BY <1>2
  <2> QED
    BY <1>2, <1>3, <2>1, <2>2
<1>5. Eq(q)
  BY <1>4
<1>6. Fields(v, bits) = q[d]
  BY DEF Fields, TwoTo
<1> HIDE DEF q
<1>7. q[0] = 0 /\ \A i \in 1..d :
                    q[i] = q[i - 1] + v[i - 1] * TwoTo(bits * (i - 1))
  BY <1>5
<1>8. \A i \in Nat : i <= d => q[i] \in Nat
  <2> DEFINE T == {i \in Nat : i <= d => q[i] \in Nat}
  <2>1. 0 \in T
    BY <1>7
  <2>2. ASSUME NEW i \in Nat, i \in T PROVE i + 1 \in T
    <3> SUFFICES ASSUME i + 1 <= d PROVE q[i + 1] \in Nat
      OBVIOUS
    <3>1. i + 1 \in 1..d /\ (i + 1) - 1 = i /\ q[i] \in Nat
      BY <2>2
    <3>2. q[i + 1] = q[i] + v[(i + 1) - 1] * TwoTo(bits * ((i + 1) - 1))
      BY <1>7, <3>1
    <3> QED
      BY <1>0, <3>1, <3>2
  <2> HIDE DEF T
  <2>3. Nat \subseteq T
    BY <2>1, <2>2, InductiveSet
  <2> QED
    BY <2>3 DEF T
<1>9. q \in [0..d -> Nat]
  <2>1. \E body : q = [n \in 0..d |-> body[n]]
    <3>1. q = [n \in 0..d |-> q[n]]
      BY <1>5
    <3> QED
      BY <3>1
  <2> HIDE DEF Eq
  <2>2. \A n \in 0..d : q[n] \in Nat
    BY <1>8
  <2> QED
    BY <2>1, <2>2
<1> QED
  BY <1>6, <1>7, <1>9
-----------------------------------------------------------------------------
(* Widths.                                                                 *)

LEMMA IlogTells ==
  ASSUME NEW v \in Nat, v > 0, v < TwoTo(30)
  PROVE  /\ ilog(v) \in 1..30
         /\ TwoTo(ilog(v) - 1) <= v /\ v < TwoTo(ilog(v))
<1> DEFINE Bits(n) == TwoTo(n - 1) <= v /\ v < TwoTo(n)
           T == {n \in Nat : n <= 30 /\ v < TwoTo(n)}
<1>1. 30 \in T
  OBVIOUS
<1>2. PICK n \in T : \A k \in T : n <= k
  BY <1>1, LeastNumber
<1>3. n \in 1..30 /\ n - 1 \in 0..32
  <2>1. 0 \in 0..32
    OBVIOUS
  <2>2. TwoTo(0) = 1
    BY <2>1, Doubling
  <2>3. n # 0
    BY <1>2, <2>2
  <2> QED
    BY <1>2, <2>3
<1>4. ~(v < TwoTo(n - 1)) /\ TwoTo(n - 1) \in Nat
  <2>1. TwoTo(n - 1) \in Nat
    BY <1>3, Doubling
  <2>2. n - 1 \notin T
    BY <1>2, <1>3
  <2> QED
    BY <1>3, <2>1, <2>2
<1>5. n \in 1..30 /\ Bits(n)
  BY <1>2, <1>3, <1>4
<1>6. ilog(v) = CHOOSE k \in 1..30 : Bits(k)
  <2>1. v # 0
    OBVIOUS
  <2> QED
    BY <2>1, Zenon DEF ilog, TwoTo
<1> DEFINE m == CHOOSE k \in 1..30 : Bits(k)
<1>7. m \in 1..30 /\ Bits(m)
  <2> HIDE DEF Bits
  <2> QED
    BY <1>5
<1> QED
  BY <1>6, <1>7, Zenon

(* A number of a shorter width is less.                                    *)
LEMMA WidthBounds ==
  ASSUME NEW v \in Nat, v < TwoTo(30), NEW n \in 0..32, ilog(v) <= n
  PROVE  v < TwoTo(n)
<1>1. TwoTo(n) \in Nat \ {0}
  BY Doubling
<1>2. CASE v = 0
  BY <1>1, <1>2
<1>3. CASE v > 0
  <2>1. ilog(v) \in 1..30 /\ v < TwoTo(ilog(v))
    BY <1>3, IlogTells
  <2> DEFINE i == ilog(v)
  <2>2. i \in 0..32 /\ i <= n
    BY <2>1
  <2>3. v < TwoTo(i)
    BY <2>1
  <2> HIDE DEF i
  <2>4. TwoTo(i) <= TwoTo(n) /\ TwoTo(i) \in Nat
    <3>1. i \in 0..n
      BY <2>2
    <3>2. TwoTo(i) <= TwoTo(n)
      BY <3>1, PowersGrow
    <3> QED
      BY <2>2, <3>2, Doubling
  <2> QED
    BY <1>1, <2>3, <2>4
<1> QED
  BY <1>2, <1>3

LEMMA Thirty == TwoTo(30) = 1073741824 /\ TwoTo(24) = 16777216
BY SMT DEF TwoTo

LEMMA IlogOfZero == ilog(0) = 0
BY DEF ilog

LEMMA IlogSmall ==
  ASSUME NEW v \in Nat, v < TwoTo(30)
  PROVE  ilog(v) \in 0..30
<1>1. CASE v = 0
  BY <1>1, IlogOfZero
<1>2. CASE v > 0
  <2>1. ilog(v) \in 1..30
    BY <1>2, IlogTells
  <2> QED
    BY <2>1
<1> QED
  BY <1>1, <1>2

(* The widest leaf has the bits of a word, and its nodes are as wide, or   *)
(* half as wide where they can be named by that.                           *)
LEMMA NodeSizes ==
  ASSUME RealWidths, NEW used \in Nat, used < TwoTo(24), NEW width \in 1..4
  PROVE  LET nodeb == determine_node_bytes(used, width)
             leafw == determine_leaf_words(nodeb, width)
         IN  \/ nodeb = 4
             \/ used >= 2 /\ nodeb \in {1, 2} /\ leafw = 1 /\ nodeb = width
             \/ /\ used >= 2 /\ nodeb \in {1, 2} /\ leafw = 2
                /\ ilog(3 * used - 6) < nodeb * ByteBits
<1> DEFINE i == ilog(3 * used - 6)
           nodeb == determine_node_bytes(used, width)
           leafw == determine_leaf_words(nodeb, width)
           lw == IF width = 3 THEN 4 ELSE width
<1>0. ByteBits = 8
  BY DEF RealWidths
<1>1. CASE used < 2
  BY <1>1 DEF determine_node_bytes
<1>2. CASE used >= 2
  <2>1. i \in Nat
    <3>1. 3 * used - 6 \in Nat /\ 3 * used - 6 < 1073741824
      BY <1>2, Thirty
    <3>2. 3 * used - 6 < TwoTo(30)
      BY <3>1, Thirty
    <3> DEFINE v == 3 * used - 6
    <3> HIDE DEF v
    <3>3. ilog(v) \in 0..30
      BY <3>1, <3>2, IlogSmall DEF v
    <3> QED
      BY <3>3 DEF v
  <2>2. nodeb = IF i + 1 <= (lw * 8) \div 2
                THEN Max({lw \div 2, 1}) ELSE lw
    <3>1. ~(used < 2)
      BY <1>2
    <3> QED
      BY <1>0, <3>1, Zenon DEF determine_node_bytes
  <2>3. leafw = IF width > nodeb THEN 2 ELSE 1
    BY DEF determine_leaf_words
  <2>4. Max({0, 1}) = 1 /\ Max({1, 1}) = 1 /\ Max({2, 1}) = 2
    <3>1. Max({0, 1}) = 1
      <4>1. {0, 1} \in SUBSET (0..1)
        OBVIOUS
      <4>2. \A x \in {0, 1} : (\A y \in {0, 1} : x >= y) <=> x = 1
        OBVIOUS
      <4> QED
        BY <4>2 DEF Max
    <3>2. Max({1, 1}) = 1
      <4>1. \A x \in {1, 1} : (\A y \in {1, 1} : x >= y) <=> x = 1
        OBVIOUS
      <4> QED
        BY <4>1 DEF Max
    <3>3. Max({2, 1}) = 2
      <4>1. \A x \in {2, 1} : (\A y \in {2, 1} : x >= y) <=> x = 2
        OBVIOUS
      <4> QED
        BY <4>1 DEF Max
    <3> QED
      BY <3>1, <3>2, <3>3
  <2> HIDE DEF i, nodeb, leafw
  <2>5. CASE width = 1
    <3>1. lw = 1 /\ lw \div 2 = 0
      BY <2>5
    <3>2. nodeb = 1
      BY <2>2, <2>4, <3>1
    <3> QED
      BY <1>2, <2>3, <2>5, <3>2 DEF nodeb, leafw
  <2>6. CASE width = 2
    <3>1. lw = 2 /\ lw \div 2 = 1 /\ (lw * 8) \div 2 = 8
      BY <2>6
    <3>2. CASE i + 1 <= 8
      <4>1. nodeb = 1 /\ leafw = 2 /\ i < nodeb * 8
        BY <2>1, <2>2, <2>3, <2>4, <2>6, <3>1, <3>2
      <4> QED
        BY <1>0, <1>2, <4>1 DEF nodeb, leafw, i
    <3>3. CASE ~(i + 1 <= 8)
      <4>1. nodeb = 2 /\ leafw = 1
        BY <2>2, <2>3, <2>6, <3>1, <3>3
      <4> QED
        BY <1>2, <2>6, <4>1 DEF nodeb, leafw
    <3> QED
      BY <3>2, <3>3
  <2>7. CASE width \in {3, 4}
    <3>1. lw = 4 /\ lw \div 2 = 2 /\ (lw * 8) \div 2 = 16
      BY <2>7
    <3>2. CASE i + 1 <= 16
      <4>1. nodeb = 2 /\ leafw = 2 /\ i < nodeb * 8
        BY <2>1, <2>2, <2>3, <2>4, <2>7, <3>1, <3>2
      <4> QED
        BY <1>0, <1>2, <4>1 DEF nodeb, leafw, i
    <3>3. CASE ~(i + 1 <= 16)
      <4>1. nodeb = 4
        BY <2>2, <3>1, <3>3
      <4> QED
        BY <4>1 DEF nodeb
    <3> QED
      BY <3>2, <3>3
  <2> QED
    BY <2>5, <2>6, <2>7
<1> QED
  BY <1>1, <1>2

LEMMA SizedFields ==
  ASSUME NEW book, DOMAIN book = DOMAIN NoBook, NEW type, NEW width
  PROVE  LET b == Sized(book, type, width)
         IN  /\ b.dim = book.dim /\ b.entries = book.entries
             /\ b.used_entries = book.used_entries
             /\ b.dec_maxlength = book.dec_maxlength
             /\ b.q_bits = book.q_bits /\ b.q_pack = book.q_pack
             /\ b.dec_type = type
             /\ b.dec_nodeb = determine_node_bytes(book.used_entries, width)
             /\ b.dec_leafw = determine_leaf_words(b.dec_nodeb, width)
<1> DEFINE nodeb == determine_node_bytes(book.used_entries, width)
           leafw == determine_leaf_words(nodeb, width)
           b == Sized(book, type, width)
<1>1. b = [book EXCEPT !.dec_type = type, !.dec_nodeb = nodeb,
                       !.dec_leafw = leafw]
  BY DEF Sized
<1> HIDE DEF b
<1>2. b.dec_nodeb = nodeb
  <2> HIDE DEF nodeb, leafw
  <2> QED
    BY <1>1, BookFields
<1>3. b.dec_leafw = leafw
  <2> HIDE DEF nodeb, leafw
  <2> QED
    BY <1>1, BookFields
<1>4. /\ b.dim = book.dim /\ b.entries = book.entries
      /\ b.used_entries = book.used_entries
      /\ b.dec_maxlength = book.dec_maxlength
      /\ b.q_bits = book.q_bits /\ b.q_pack = book.q_pack
      /\ b.dec_type = type
  <2> HIDE DEF nodeb, leafw
  <2> QED
    BY <1>1, BookFields
<1> QED
  BY <1>2, <1>3, <1>4 DEF b
(* The places of a lattice have less bits than a word: there are not so    *)
(* many entries.                                                           *)
LEMMA PowerAtLeast ==
  ASSUME NEW v \in Nat, NEW c \in Nat, c <= v, NEW n \in Nat, NEW p,
         p \in [0..n -> Nat], p[0] = 1, \A i \in 1..n : p[i] = p[i - 1] * v
  PROVE  \A i \in 1..n : p[i] >= c * p[i - 1]
<1> TAKE i \in 1..n
<1>1. p[i - 1] \in Nat /\ p[i] = p[i - 1] * v
  OBVIOUS
<1> DEFINE x == p[i - 1]
           y == p[i]
<1>2. x \in Nat /\ y = x * v
  BY <1>1
<1> HIDE DEF x, y
<1>3. x * v >= c * x
  <2>1. x * (v - c) >= 0
    BY <1>2
  <2>2. x * v = x * (v - c) + c * x
    BY <1>2
  <2>3. x * (v - c) \in Int /\ c * x \in Int
    BY <1>2
  <2> QED
    BY <2>1, <2>2, <2>3
<1> QED
  BY <1>2, <1>3 DEF x, y

LEMMA LatticeFits ==
  ASSUME NEW q \in Nat \ {0}, q < TwoTo(24), NEW d \in Nat \ {0},
         Power(q, d) < TwoTo(24), ilog(q - 1) * d <= 32
  PROVE  ilog(q - 1) * d <= 31
<1> DEFINE k == ilog(q - 1)
<1>1. TwoTo(24) = 16777216 /\ TwoTo(30) = 1073741824
  BY Thirty
<1>2. q - 1 \in Nat /\ q - 1 < TwoTo(30)
  BY <1>1
<1>3. k \in 0..30 /\ (k > 0 => TwoTo(k - 1) <= q - 1)
  <2> DEFINE v == q - 1
  <2>1. v \in Nat /\ v < TwoTo(30)
    BY <1>2
  <2> HIDE DEF v
  <2>2. ilog(v) \in 0..30
    BY <2>1, IlogSmall
  <2>3. ASSUME ilog(v) > 0 PROVE TwoTo(ilog(v) - 1) <= v
    <3>1. v # 0
      BY <2>3, IlogOfZero
    <3> QED
      BY <2>1, <3>1, IlogTells
  <2> QED
    BY <2>2, <2>3 DEF v
<1> SUFFICES ASSUME k * d = 32 PROVE FALSE
  BY <1>3
<1>4. PICK p : /\ p \in [0..d -> Nat] /\ p[d] = Power(q, d) /\ p[0] = 1
               /\ \A i \in 1..d : p[i] = p[i - 1] * q
  BY PowerEquation
<1> HIDE DEF k
<1>5. k > 0 /\ TwoTo(k - 1) + 1 <= q /\ TwoTo(k - 1) \in Nat
  <2>1. k > 0
    BY <1>3
  <2>2. k - 1 \in 0..32
    BY <1>3, <2>1
  <2>3. TwoTo(k - 1) \in Nat
    BY <2>2, Doubling
  <2> QED
    BY <1>3, <2>1, <2>3
<1>6. \A i \in 1..d : p[i] >= (TwoTo(k - 1) + 1) * p[i - 1]
  <2> DEFINE c == TwoTo(k - 1) + 1
  <2>1. c \in Nat /\ c <= q /\ q \in Nat /\ d \in Nat
    BY <1>5
  <2> HIDE DEF c
  <2>2. \A i \in 1..d : p[i] >= c * p[i - 1]
    BY <1>4, <2>1, PowerAtLeast
  <2> QED
    BY <2>2 DEF c
<1>7. p[d] < 16777216
  BY <1>1, <1>4
<1>8. \/ k = 1 /\ d = 32
      \/ k = 2 /\ d = 16
      \/ k = 4 /\ d = 8
      \/ k = 8 /\ d = 4
      \/ k = 16 /\ d = 2
  <2>1. k \in 1..30
    BY <1>3, <1>5
  <2>2. k * d = 32 /\ d \in Nat
    OBVIOUS
  <2>3. /\ k = 1 => d = 32
        /\ k = 2 => d = 16
        /\ k = 3 => FALSE
        /\ k = 4 => d = 8
        /\ k = 5 => FALSE
        /\ k = 6 => FALSE
        /\ k = 7 => FALSE
        /\ k = 8 => d = 4
    <3>1. ASSUME k = 1 PROVE d = 32
      BY <2>2, <3>1
    <3>2. ASSUME k = 2 PROVE d = 16
      BY <2>2, <3>2
    <3>3. ASSUME k = 3 PROVE FALSE
      BY <2>2, <3>3
    <3>4. ASSUME k = 4 PROVE d = 8
      BY <2>2, <3>4
    <3>5. ASSUME k = 5 PROVE FALSE
      BY <2>2, <3>5
    <3>6. ASSUME k = 6 PROVE FALSE
      BY <2>2, <3>6
    <3>7. ASSUME k = 7 PROVE FALSE
      BY <2>2, <3>7
    <3>8. ASSUME k = 8 PROVE d = 4
      BY <2>2, <3>8
    <3> QED
      BY <3>1, <3>2, <3>3, <3>4, <3>5, <3>6, <3>7, <3>8
  <2>4. ASSUME k \in 9..30 PROVE (k = 16 /\ d = 2)
    <3>1. d = 1 \/ d = 2 \/ d = 3 \/ d >= 4
      BY <2>2
    <3>2. CASE d >= 4
      <4>1. k * d >= 9 * d
        <5>1. (k - 9) * d >= 0
          BY <2>4, <2>2
        <5>2. k * d = (k - 9) * d + 9 * d
          BY <2>4, <2>2
        <5> QED
          BY <2>4, <2>2, <5>1, <5>2
      <4> QED
        BY <2>2, <3>2, <4>1
    <3>3. CASE d = 1
      <4>1. k * d = k
        BY <2>4, <3>3
      <4> QED
        BY <2>2, <2>4, <4>1
    <3>4. CASE d = 2
      <4>1. k * d = 2 * k
        BY <2>4, <3>4
      <4> QED
        BY <2>2, <2>4, <3>4, <4>1
    <3>5. CASE d = 3
      <4>1. k * d = 3 * k
        BY <2>4, <3>5
      <4> QED
        BY <2>2, <2>4, <4>1
    <3> QED
      BY <3>1, <3>2, <3>3, <3>4, <3>5
  <2>5. \/ k = 1 \/ k = 2 \/ k = 3 \/ k = 4 \/ k = 5 \/ k = 6 \/ k = 7 \/ k = 8
        \/ k \in 9..30
    BY <2>1, SMT
  <2>6. CASE k \in 9..30
    BY <2>4, <2>6
  <2>7. CASE k \in {1, 2, 3}
    BY <2>3, <2>7
  <2>8. CASE k \in {4, 5, 6, 7, 8}
    BY <2>3, <2>8
  <2> QED
    BY <2>5, <2>6, <2>7, <2>8
<1>9. /\ TwoTo(0) = 1 /\ TwoTo(1) = 2 /\ TwoTo(3) = 8 /\ TwoTo(7) = 128
      /\ TwoTo(15) = 32768
  BY SMT DEF TwoTo
<1>10. \A i \in 0..d : p[i] \in Nat
  BY <1>4
<1>11. CASE k = 1 /\ d = 32
  <2>1. \A i \in 1..32 : p[i] >= 2 * p[i - 1]
    BY <1>6, <1>9, <1>11
  <2>2. \A i \in 0..32 : p[i] \in Nat
    BY <1>10, <1>11
  <2>3. /\ p[1] >= 2 /\ p[2] >= 2 * p[1] /\ p[3] >= 2 * p[2]
        /\ p[4] >= 2 * p[3] /\ p[5] >= 2 * p[4] /\ p[6] >= 2 * p[5]
        /\ p[7] >= 2 * p[6] /\ p[8] >= 2 * p[7] /\ p[9] >= 2 * p[8]
        /\ p[10] >= 2 * p[9] /\ p[11] >= 2 * p[10] /\ p[12] >= 2 * p[11]
    BY <1>4, <2>1
  <2>4. /\ p[13] >= 2 * p[12] /\ p[14] >= 2 * p[13] /\ p[15] >= 2 * p[14]
        /\ p[16] >= 2 * p[15] /\ p[17] >= 2 * p[16] /\ p[18] >= 2 * p[17]
        /\ p[19] >= 2 * p[18] /\ p[20] >= 2 * p[19] /\ p[21] >= 2 * p[20]
        /\ p[22] >= 2 * p[21] /\ p[23] >= 2 * p[22] /\ p[24] >= 2 * p[23]
    BY <2>1
  <2>5. /\ p[25] >= 2 * p[24] /\ p[26] >= 2 * p[25] /\ p[27] >= 2 * p[26]
        /\ p[28] >= 2 * p[27] /\ p[29] >= 2 * p[28] /\ p[30] >= 2 * p[29]
        /\ p[31] >= 2 * p[30] /\ p[32] >= 2 * p[31]
    BY <2>1
  <2>6. p[12] >= 4096
    BY <2>2, <2>3
  <2>7. p[24] >= 16777216
    BY <2>2, <2>4, <2>6
  <2>8. p[32] >= p[24]
    BY <2>2, <2>5
  <2> QED
    BY <1>7, <1>11, <2>2, <2>7, <2>8
<1>12. CASE k = 2 /\ d = 16
  <2>1. \A i \in 1..16 : p[i] >= 3 * p[i - 1]
    BY <1>6, <1>9, <1>12
  <2>2. \A i \in 0..16 : p[i] \in Nat
    BY <1>10, <1>12
  <2>3. /\ p[1] >= 3 /\ p[2] >= 3 * p[1] /\ p[3] >= 3 * p[2]
        /\ p[4] >= 3 * p[3] /\ p[5] >= 3 * p[4] /\ p[6] >= 3 * p[5]
        /\ p[7] >= 3 * p[6] /\ p[8] >= 3 * p[7]
    BY <1>4, <2>1
  <2>4. /\ p[9] >= 3 * p[8] /\ p[10] >= 3 * p[9] /\ p[11] >= 3 * p[10]
        /\ p[12] >= 3 * p[11] /\ p[13] >= 3 * p[12] /\ p[14] >= 3 * p[13]
        /\ p[15] >= 3 * p[14] /\ p[16] >= 3 * p[15]
    BY <2>1
  <2>5. p[8] >= 6561
    BY <2>2, <2>3
  <2>6. p[16] >= 43046721
    BY <2>2, <2>4, <2>5
  <2> QED
    BY <1>7, <1>12, <2>2, <2>6
<1>13. CASE k = 4 /\ d = 8
  <2>1. \A i \in 1..8 : p[i] >= 9 * p[i - 1]
    BY <1>6, <1>9, <1>13
  <2>2. \A i \in 0..8 : p[i] \in Nat
    BY <1>10, <1>13
  <2>3. /\ p[1] >= 9 /\ p[2] >= 9 * p[1] /\ p[3] >= 9 * p[2]
        /\ p[4] >= 9 * p[3] /\ p[5] >= 9 * p[4] /\ p[6] >= 9 * p[5]
        /\ p[7] >= 9 * p[6] /\ p[8] >= 9 * p[7]
    BY <1>4, <2>1
  <2>4. p[8] >= 43046721
    BY <2>2, <2>3
  <2> QED
    BY <1>7, <1>13, <2>2, <2>4
<1>14. CASE k = 8 /\ d = 4
  <2>1. \A i \in 1..4 : p[i] >= 129 * p[i - 1]
    BY <1>6, <1>9, <1>14
  <2>2. \A i \in 0..4 : p[i] \in Nat
    BY <1>10, <1>14
  <2>3. /\ p[1] >= 129 /\ p[2] >= 129 * p[1] /\ p[3] >= 129 * p[2]
        /\ p[4] >= 129 * p[3]
    BY <1>4, <2>1
  <2>4. p[4] >= 129 * 129 * 129 * 129
    BY <2>2, <2>3
  <2> QED
    BY <1>7, <1>14, <2>2, <2>4
<1>15. CASE k = 16 /\ d = 2
  <2>1. \A i \in 1..2 : p[i] >= 32769 * p[i - 1]
    BY <1>6, <1>9, <1>15
  <2>2. \A i \in 0..2 : p[i] \in Nat
    BY <1>10, <1>15
  <2>3. p[1] >= 32769 /\ p[2] >= 32769 * p[1]
    BY <1>4, <2>1
  <2>4. p[2] >= 32769 * 32769
    BY <2>2, <2>3
  <2> QED
    BY <1>7, <1>15, <2>2, <2>4
<1> QED
  BY <1>8, <1>11, <1>12, <1>13, <1>14, <1>15
=============================================================================
