------------------------------ MODULE Codebook ------------------------------
(***************************************************************************)
(* vorbis_book_unpack (src/tremor/codebook.c): a codebook is read from the *)
(* setup header, its lengths become a decode tree, the tree is packed and  *)
(* the value vectors are read.  The packet can end at every read and every *)
(* allocation can fail; then the book is cleared.                          *)
(*                                                                         *)
(* sent is what the packet holds: the parameters of the book, and the      *)
(* lengths it picks from, with their run lengths.  Values[n] stands for    *)
(* the nth value of the vectors.                                           *)
(***************************************************************************)
EXTENDS BookTree

CONSTANTS
  SizeBits,  \* bound on the bits of dim and entries together (24)
  Shapes,    \* the books that can be sent
  Values     \* the values of the vectors, in the order they are sent

(* dim and entries are read from 16 and 24 bits; there are values for the  *)
(* vector of every entry.                                                  *)
ASSUME ShapeAssumption ==
  /\ SizeBits \in Nat /\ \A n \in DOMAIN Values : Values[n] \in Nat
  /\ \A b \in Shapes :
       /\ b.dim \in Nat /\ b.dim < 2 ^ 16
       /\ b.entries \in Nat /\ b.entries < 2 ^ 24
       /\ b.ordered \in BOOLEAN
       /\ b.lengths \subseteq 1..MaxLength
       /\ b.nums \in [1..(MaxLength + 1) -> SUBSET Nat]
       /\ b.maptype \in 0..3 /\ b.q_bits \in 1..(2 * ByteBits)
       /\ 0..(b.entries * b.dim - 1) \subseteq DOMAIN Values

VARIABLES
  sent,
  pc,          \* where vorbis_book_unpack is; "ok" and "refused" at its end
  opb,         \* TRUE once a read has gone past the end of the header
  s,           \* the codebook; q_val and dec_table: there is a block
  lengthlist,
  unused,      \* the flag of a list that leaves entries out
  length,      \* that of the next run of an ordered list
  quantvals,
  tree,        \* _make_words: [r, top, count, marker, i, j, chase]
  table,       \* the cells of dec_table
  vals,        \* the values in q_val
  heap         \* the blocks of each kind that are allocated

vars == <<sent, pc, opb, s, lengthlist, unused, length, quantvals, tree,
          table, vals, heap>>

Blocks == {"lengthlist", "work", "q_val", "dec_table", "vec"}

NoBook ==
  [dim |-> 0, entries |-> 0, used_entries |-> 0, dec_maxlength |-> 0,
   dec_table |-> FALSE, dec_nodeb |-> 0, dec_leafw |-> 0, dec_type |-> 0,
   q_bits |-> 0, q_pack |-> 0, q_val |-> FALSE]

NoTree == [r |-> <<>>, top |-> 0, count |-> 0, marker |-> NoMarkers, i |-> 0,
           j |-> 0, chase |-> 0]

Init ==
  /\ sent \in Shapes /\ pc = "params" /\ opb = FALSE /\ s = NoBook
  /\ lengthlist = <<>> /\ unused = FALSE /\ length = 0 /\ quantvals = 0
  /\ tree = NoTree /\ table = <<>> /\ vals = <<>>
  /\ heap = [b \in Blocks |-> 0]

Less(h, b) == [h EXCEPT ![b] = @ - 1]
More(h, b) == [h EXCEPT ![b] = @ + 1]

(* Mutant: only the table is freed.                                        *)
ClearedTable(h) == IF s.dec_table THEN Less(h, "dec_table") ELSE h

(* vorbis_book_clear.                                                      *)
Cleared(h) ==
  LET h1 == IF s.q_val THEN Less(h, "q_val") ELSE h
  IN  IF s.dec_table THEN Less(h1, "dec_table") ELSE h1

(* _eofout, _errout: listed when there is a length list.                   *)
Refuse(h, listed) ==
  /\ pc' = "refused" /\ s' = NoBook
  /\ heap' = IF listed THEN Less(Cleared(h), "lengthlist") ELSE Cleared(h)
  /\ UNCHANGED <<sent, lengthlist, unused, length, quantvals, tree, table,
                 vals>>

(* A read that goes past the end makes every later one fail.               *)
Reads(over) == over \in BOOLEAN /\ (opb => over) /\ opb' = over

-----------------------------------------------------------------------------
(* Parameters and lengths.                                                 *)

ReadParameters ==
  /\ pc = "params"
  /\ \/ Refuse(heap, FALSE) /\ opb' \in BOOLEAN
     \/ /\ sent.dim >= 1 /\ ilog(sent.dim) + ilog(sent.entries) <= SizeBits
        /\ s' = [s EXCEPT !.dim = sent.dim, !.entries = sent.entries]
        /\ pc' = "ordering"
        /\ UNCHANGED <<sent, opb, lengthlist, unused, length, quantvals,
                       tree, table, vals, heap>>

(* The list is allocated, unless the packet is too short to hold it.       *)
ReadOrdering ==
  /\ pc = "ordering"
  /\ \/ Refuse(heap, FALSE) /\ opb' \in BOOLEAN
     \/ /\ heap' = More(heap, "lengthlist")
        /\ unused' \in (IF sent.ordered THEN {FALSE} ELSE BOOLEAN)
        /\ length' \in (IF sent.ordered THEN sent.lengths ELSE {0})
        /\ s' = [s EXCEPT !.used_entries = IF unused' THEN 0 ELSE s.entries]
        /\ pc' = IF s.entries = 0 THEN "mapping"
                 ELSE IF sent.ordered THEN "runs" ELSE "lengths"
        /\ UNCHANGED <<sent, opb, lengthlist, quantvals, tree, table, vals>>

NextListed(list) == IF Len(list) < s.entries THEN pc ELSE "mapping"

ReadLength ==
  /\ pc = "lengths"
  /\ \/ Refuse(heap, TRUE) /\ opb' = TRUE
     \/ \E len \in sent.lengths \cup (IF unused THEN {0} ELSE {}) :
          /\ lengthlist' = Append(lengthlist, len)
          /\ s' = [s EXCEPT
               !.used_entries = IF unused /\ len > 0 THEN @ + 1 ELSE @,
               !.dec_maxlength = Max({@, len})]
          /\ pc' = NextListed(lengthlist')
          /\ UNCHANGED <<sent, opb, unused, length, quantvals, tree, table,
                         vals, heap>>

(* More words than the length has, or than the book has entries.           *)
RunTooLong(num) ==
  \/ length > MaxLength
  \/ num > s.entries - Len(lengthlist)
  \/ num > 0 /\ (num - 1) \div 2 ^ length > 0

ReadRun ==
  /\ pc = "runs"
  /\ \/ Refuse(heap, TRUE) /\ opb' = TRUE
     \/ \E num \in sent.nums[length] :
          /\ num < 2 ^ ilog(s.entries - Len(lengthlist))
          /\ \/ RunTooLong(num) /\ Refuse(heap, TRUE) /\ UNCHANGED opb
             \/ /\ ~RunTooLong(num)
                /\ lengthlist' = lengthlist \o [k \in 1..num |-> length]
                /\ s' = [s EXCEPT !.dec_maxlength = length]
                /\ length' = length + 1
                /\ pc' = NextListed(lengthlist')
                /\ UNCHANGED <<sent, opb, unused, quantvals, tree, table,
                               vals, heap>>

-----------------------------------------------------------------------------
(* The mapping decides on the cells and on what a leaf holds.              *)

Sized(book, type, leafwidth) ==
  LET nodeb == determine_node_bytes(book.used_entries, leafwidth)
  IN  [book EXCEPT !.dec_type = type, !.dec_nodeb = nodeb,
                   !.dec_leafw = determine_leaf_words(nodeb, leafwidth)]

ValueBytes(bits) == (bits + ByteBits - 1) \div ByteBits
PackedWidth(book) == LeafBytes(book.q_bits * book.dim)

(* The width of a value is read as 0 when the packet has ended before it.  *)
ReadMapping ==
  /\ pc = "mapping"
  /\ \/ Refuse(heap, TRUE) /\ opb' \in BOOLEAN
     \/ /\ sent.maptype \in 0..2
        /\ opb' \in (IF sent.maptype = 0 THEN {FALSE} ELSE BOOLEAN)
        /\ \E bits \in {0, sent.q_bits} :
             LET book == [s EXCEPT !.q_bits = bits]
             IN  /\ bits = 0 => sent.maptype = 0 \/ opb'
                 /\ bits > 0 => sent.maptype > 0
                 /\ s' = CASE sent.maptype = 0 ->
                                Sized(book, 0, (ilog(s.entries) \div ByteBits) + 1)
                           [] sent.maptype = 1 -> book
                           [] sent.maptype = 2 /\ PackedWidth(book) <= 4 ->
                                Sized(book, 1, PackedWidth(book))
                           [] OTHER ->
                                Sized(book, 3,
                                  (ilog((s.used_entries - 1) % 2 ^ WordBits)
                                     \div ByteBits) + 1)
        /\ quantvals' = CASE sent.maptype = 0 -> 0
                          [] sent.maptype = 1 -> QuantvalsHint(s.dim, s.entries)
                          [] OTHER -> s.entries * s.dim
        /\ pc' = IF sent.maptype = 1 THEN "quantvals" ELSE "table"
        /\ UNCHANGED <<sent, lengthlist, unused, length, tree, table, vals,
                       heap>>

PolishQuantvals ==
  /\ pc = "quantvals"
  /\ IF QuantvalsFound(quantvals, s.dim, s.entries)
     THEN pc' = "lattice" /\ UNCHANGED quantvals
     ELSE /\ quantvals' = QuantvalsPolished(quantvals, s.dim, s.entries)
          /\ UNCHANGED pc
  /\ UNCHANGED <<sent, opb, s, lengthlist, unused, length, tree, table, vals,
                 heap>>

(* The leaves of a lattice hold the values, or their places in q_val where *)
(* those are narrower.                                                     *)
LatticePack == ilog(quantvals - 1)
LatticePacked ==
  LET total2 == LeafBytes(LatticePack * s.dim) + ValueBytes(s.q_bits)
  IN  PackedWidth(s) <= 4 /\ PackedWidth(s) <= total2

AllocLattice ==
  /\ pc = "lattice"
  /\ \/ Refuse(heap, TRUE) /\ UNCHANGED opb
     \/ /\ heap' = More(heap, "q_val")
        /\ s' = [s EXCEPT !.q_val = TRUE]
        /\ pc' = "values"
        /\ UNCHANGED <<sent, opb, lengthlist, unused, length, quantvals, tree,
                       table, vals>>

ValuesRead(n) == [k \in 0..(n - 1) |-> Values[k] % 2 ^ s.q_bits]

ReadLattice ==
  /\ pc = "values"
  /\ \/ Refuse(heap, TRUE) /\ opb' \in {opb, TRUE}
     \/ /\ Reads(FALSE)
        /\ LatticePacked \/ LatticePack * s.dim <= WordBits
        /\ s' = IF LatticePacked THEN Sized(s, 1, PackedWidth(s))
                ELSE Sized([s EXCEPT !.q_pack = LatticePack], 2,
                           LeafBytes(LatticePack * s.dim))
        /\ vals' = ValuesRead(quantvals)
        /\ pc' = "table"
        /\ UNCHANGED <<sent, lengthlist, unused, length, quantvals, tree,
                       table, heap>>

-----------------------------------------------------------------------------
(* _make_decode_table: the words, then the cells.                          *)

(* Wide nodes need no packing: the words are made in the table itself.     *)
InPlace == s.dec_nodeb = 4
Room == IF InPlace THEN 2 * s.used_entries + 1 ELSE 2 * s.used_entries - 2

AllocWords ==
  /\ pc = "table"
  /\ \/ Refuse(heap, TRUE) /\ UNCHANGED opb
     \/ /\ heap' = More(heap, IF InPlace THEN "dec_table" ELSE "work")
        /\ s' = [s EXCEPT !.dec_table = InPlace]
        /\ tree' = [NoTree EXCEPT !.r =
             [a \in 0..(Room - 1) |-> IF s.entries < 2 /\ a = 0 THEN LeafOf(0)
                                                                ELSE Unset]]
        /\ pc' = IF s.entries < 2 THEN "pack" ELSE "words"
        /\ UNCHANGED <<sent, opb, lengthlist, unused, length, quantvals,
                       table, vals>>

(* The jth coordinate of an entry in the lattice.                          *)
Offset(entry, j) ==
  LET rest[k \in 0..j] ==
        IF k = 0 THEN entry ELSE rest[k - 1] \div quantvals
  IN  rest[j] % quantvals

(* The coordinates v of a vector in fields of so many bits each.           *)
Fields(v, bits) ==
  LET leaf[n \in 0..s.dim] ==
        IF n = 0 THEN 0 ELSE leaf[n - 1] + v[n - 1] * 2 ^ (bits * (n - 1))
  IN  leaf[s.dim]

(* decpack: the leaf of the entry, which is the count'th in use.  A value  *)
(* that cannot be read spoils the leaf, and the book is refused later.     *)
decpack(entry, count, spoilt) ==
  LET offsets == [j \in 0..(s.dim - 1) |-> Offset(entry, j)]
      packed  == [j \in 0..(s.dim - 1) |->
                    IF sent.maptype = 1 THEN vals[offsets[j]]
                    ELSE Values[count * s.dim + j] % 2 ^ s.q_bits]
  IN  CASE s.dec_type = 0 -> entry
        [] s.dec_type = 1 -> IF spoilt THEN 0 ELSE Fields(packed, s.q_bits)
        [] s.dec_type = 2 -> Fields(offsets, s.q_pack)
        [] s.dec_type = 3 -> count

(* The book is no tree: there is no word left for an entry, or one is left *)
(* at the end.                                                             *)
Unfit ==
  \/ /\ tree.i < s.entries /\ lengthlist[tree.i + 1] > 0
     /\ tree.count > 0 /\ tree.marker[lengthlist[tree.i + 1]] = 0
  \/ /\ tree.i = s.entries
     /\ tree.count # 1 /\ Underpopulated(tree.marker)

RefuseWords == Refuse(IF InPlace THEN heap ELSE Less(heap, "work"), TRUE)

(* Mutant: the last node is not used.                                      *)
NoRoomLeft == 2 * tree.chase + 2 >= Room

(* The tree has all the nodes there is room for.                           *)
NoRoom == 2 * tree.chase + 1 >= Room

CurrentLength == lengthlist[tree.i + 1]
CurrentBit ==
  (tree.marker[CurrentLength] \div 2 ^ (CurrentLength - tree.j - 1)) % 2

SkipEntry ==
  /\ pc = "words" /\ tree.i < s.entries /\ CurrentLength = 0
  /\ tree' = [tree EXCEPT !.i = @ + 1]
  /\ UNCHANGED <<sent, pc, opb, s, lengthlist, unused, length, quantvals,
                 table, vals, heap>>

(* The codeword of the entry is followed into the tree, bit by bit.        *)
ChaseTree ==
  /\ pc = "words" /\ tree.i < s.entries /\ ~Unfit
  /\ tree.j < CurrentLength - 1
  /\ \/ NoRoom /\ RefuseWords /\ UNCHANGED opb
     \/ /\ ~NoRoom
        /\ tree' = [Descended(tree, CurrentBit) EXCEPT !.j = @ + 1]
        /\ UNCHANGED <<sent, pc, opb, s, lengthlist, unused, length,
                       quantvals, table, vals, heap>>

(* Its last bit leads to the leaf, and the markers move on.                *)
PlantLeaf ==
  /\ pc = "words" /\ tree.i < s.entries /\ ~Unfit
  /\ tree.j = CurrentLength - 1
  /\ \/ NoRoom /\ RefuseWords /\ UNCHANGED opb
     \/ /\ ~NoRoom
        /\ \E o \in BOOLEAN :
             IF s.dec_type = 1 /\ sent.maptype = 2 THEN Reads(o) ELSE opb' = opb
        /\ tree' = [Leafed(tree, CurrentBit,
                           LeafOf(decpack(tree.i, tree.count, opb')))
                      EXCEPT !.marker = MarkersAfter(@, CurrentLength),
                             !.count = @ + 1, !.i = @ + 1,
                             !.j = 0, !.chase = 0]
        /\ UNCHANGED <<sent, pc, s, lengthlist, unused, length, quantvals,
                       table, vals, heap>>

EndWords ==
  /\ pc = "words" /\ tree.j = 0 /\ UNCHANGED opb
  /\ \/ Unfit /\ RefuseWords
     \/ /\ ~Unfit /\ tree.i = s.entries
        /\ pc' = "pack"
        /\ UNCHANGED <<sent, s, lengthlist, unused, length, quantvals, tree,
                       table, vals, heap>>

Packed ==
  LET bits == s.dec_nodeb * ByteBits
  IN  IF InPlace THEN tree.r
      ELSE IF s.dec_leafw = 1 THEN Flat(tree.r, s.used_entries, bits)
      ELSE Halved(tree.r, s.used_entries, bits)

(* The table is there; a packed lattice gives its values back.             *)
PackTable ==
  /\ pc = "pack" /\ UNCHANGED opb
  /\ \/ ~InPlace /\ RefuseWords
     \/ LET freed == IF InPlace THEN heap
                     ELSE Less(More(heap, "dec_table"), "work")
            done  == sent.maptype = 1 /\ s.dec_type = 1
        IN  /\ table' = Packed
            /\ heap' = IF done THEN Less(freed, "q_val") ELSE freed
            /\ s' = [s EXCEPT !.dec_table = TRUE,
                              !.q_val = IF done THEN FALSE ELSE @]
            /\ pc' = IF s.dec_type = 3 THEN "scalars" ELSE "end"
            /\ UNCHANGED <<sent, lengthlist, unused, length, quantvals, tree,
                           vals>>

(* The values of the entries in use, one vector after the other.           *)
ReadScalars ==
  /\ pc = "scalars"
  /\ \/ Refuse(heap, TRUE) /\ UNCHANGED opb
     \/ /\ \E o \in BOOLEAN : Reads(o)
        /\ heap' = More(heap, "q_val")
        /\ s' = [s EXCEPT !.q_val = TRUE,
                          !.q_pack = ValueBytes(s.q_bits) * s.dim]
        /\ vals' = ValuesRead(s.used_entries * s.dim)
        /\ pc' = "end"
        /\ UNCHANGED <<sent, lengthlist, unused, length, quantvals, tree,
                       table>>

Finish ==
  /\ pc = "end" /\ UNCHANGED opb
  /\ \/ opb /\ Refuse(heap, TRUE)
     \/ /\ ~opb /\ heap' = Less(heap, "lengthlist")
        /\ pc' = "ok"
        /\ UNCHANGED <<sent, s, lengthlist, unused, length, quantvals, tree,
                       table, vals>>

(* vorbis_info_clear clears the books it was given.                        *)
vorbis_book_clear ==
  /\ pc = "ok" /\ pc' = "cleared" /\ s' = NoBook /\ heap' = Cleared(heap)
  /\ UNCHANGED <<sent, opb, lengthlist, unused, length, quantvals, tree,
                 table, vals>>

vorbis_book_unpack ==
  \/ ReadParameters \/ ReadOrdering \/ ReadLength \/ ReadRun \/ ReadMapping
  \/ PolishQuantvals \/ AllocLattice \/ ReadLattice \/ AllocWords
  \/ SkipEntry \/ ChaseTree \/ PlantLeaf \/ EndWords \/ PackTable \/ ReadScalars \/ Finish

-----------------------------------------------------------------------------
(* Properties.                                                             *)

(* The words a book's lengths describe: every used entry in turn takes the *)
(* lowest word of its length that no earlier word is a prefix of and that  *)
(* is no prefix of one.                                                    *)
Used(list) == {e \in DOMAIN list : list[e] > 0}

(* What the words of the first n entries take of the words of MaxLength.   *)
Measure(list, n) ==
  LET sum[k \in 0..n] ==
        IF k = 0 THEN 0
        ELSE sum[k - 1] + (IF list[k] > 0 THEN 2 ^ (MaxLength - list[k]) ELSE 0)
  IN  sum[n]

(* A list that leaves no word over and needs none it does not have: its    *)
(* words have the measure of the whole tree.  A list of less than two      *)
(* entries is taken as it is, one without words has no tree, and of one    *)
(* word only that of a single bit has the room it needs.                   *)
IsTree(list) ==
  \/ Len(list) < 2
  \/ Used(list) = {}
  \/ \E e \in Used(list) : Used(list) = {e} /\ list[e] = 1
  \/ Measure(list, Len(list)) = 2 ^ MaxLength

(* A book that is accepted has a tree in which every word of bits leads to *)
(* one leaf, and none that has one is refused for its words, or for the    *)
(* size of its tree: the nodes that the leaves in use need are those there *)
(* is room for (the markers and checks of _make_words,                     *)
(* codebook.c:162-250).                                                    *)
AcceptedIffTree ==
  /\ pc \in {"pack", "scalars", "end", "ok"} => IsTree(lengthlist)
  /\ pc = "words" /\ Unfit => ~IsTree(lengthlist)
  /\ pc = "words" /\ tree.i < s.entries /\ CurrentLength > 0 /\ NoRoom
       => ~IsTree(lengthlist)

(* Blocks are owned: every block has one pointer that will free it, up to  *)
(* the return of vorbis_book_unpack and then in vorbis_book_clear; a book  *)
(* that was refused or cleared owns nothing.                               *)
BookMemoryOwned ==
  /\ \A b \in Blocks : heap[b] \in {0, 1}
  /\ (heap["q_val"] = 1) = s.q_val /\ (heap["dec_table"] = 1) = s.dec_table
  /\ pc \in {"refused", "ok", "cleared"} =>
       heap["work"] = 0 /\ heap["lengthlist"] = 0
  /\ pc = "ok" => s.dec_table /\ s.q_val = (s.dec_type \in {2, 3})

Power(v, n) ==
  LET p[i \in 0..n] == IF i = 0 THEN 1 ELSE p[i - 1] * v
  IN  p[n]

(* The values a lattice has along each axis are as many as fit, whether or *)
(* not the powers of the search were cut short (codebook.c:370-408).       *)
QuantvalsExact ==
  pc = "lattice" /\ s.entries > 0 =>
    /\ Power(quantvals, s.dim) <= s.entries
    /\ Power(quantvals + 1, s.dim) > s.entries

(* The node size was chosen so that it "fits our decode table"             *)
(* (codebook.c:135): every node of a packed table can be named beside the  *)
(* mark of a leaf.                                                         *)
NodesFit ==
  pc = "pack" /\ ~InPlace =>
    LET starts == NodeStarts(tree.r, s.used_entries)
    IN  \A k \in 0..(s.used_entries - 2) :
          (IF s.dec_leafw = 1 THEN k ELSE starts[k])
            < TopBit(s.dec_nodeb * ByteBits)

(* Whatever the header holds, unpacking comes to an end (the polishing     *)
(* loop, codebook.c:384, and the runs of an ordered list, codebook.c:500). *)
UnpackEnds == (pc = "params") ~> (pc \in {"ok", "refused"})
=============================================================================
