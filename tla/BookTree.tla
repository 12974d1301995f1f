------------------------------ MODULE BookTree ------------------------------
(***************************************************************************)
(* The decode tree of a codebook (src/tremor/codebook.c): how the lengths  *)
(* of the codewords become nodes, and how nodes and leaves are packed into *)
(* cells of one, two or four bytes.                                        *)
(*                                                                         *)
(* A word of the tree is an integer of a word's width, a leaf one with the *)
(* top bit set; Unset stands for what an allocation leaves.  Node k is the *)
(* pair of words 2k and 2k + 1.                                            *)
(***************************************************************************)
EXTENDS BitReader, Sequences, FiniteSetsExt

CONSTANT MaxLength  \* bits of the longest codeword (32, those of a word)

(* A word is no longer than an ogg_uint32_t.                               *)
ASSUME LengthAssumption == MaxLength \in 1..WordBits /\ WordBits <= 32

Unset == -1
TopBit(bits) == 2 ^ (bits - 1)
IsLeaf(w) == w >= TopBit(WordBits)
LeafOf(v) == TopBit(WordBits) + v

ilog(v) == IF v = 0 THEN 0
           ELSE CHOOSE n \in 1..30 : 2 ^ (n - 1) <= v /\ v < 2 ^ n

(* Bytes of a leaf of so many bits, with its mark.                         *)
LeafBytes(bits) == (bits + ByteBits) \div ByteBits

(* Bytes of a node.                                                        *)
determine_node_bytes(used, leafwidth) ==
  LET lw == IF leafwidth = 3 THEN 4 ELSE leafwidth
  IN  IF used < 2 THEN 4
      ELSE IF ilog(3 * used - 6) + 1 <= (lw * ByteBits) \div 2
      THEN Max({lw \div 2, 1}) ELSE lw

determine_leaf_words(nodeb, leafwidth) == IF leafwidth > nodeb THEN 2 ELSE 1

-----------------------------------------------------------------------------
(* The markers: the next free codeword of every length.                    *)

NoMarkers == [j \in 0..MaxLength |-> 0]

(* Mutant: the longer markers are left where they hang.                    *)
MarkersUnpruned(marker, length) ==
  LET odd  == {j \in 1..length : marker[j] % 2 = 1}
      stop == IF odd = {} THEN 0 ELSE Max(odd)
  IN  [j \in 0..MaxLength |->
         IF j = stop /\ j > 0 THEN 2 * marker[j - 1]
         ELSE IF j \in (stop + 1)..length THEN marker[j] + 1 ELSE marker[j]]

(* A codeword of this length is taken.  Its marker and the shorter ones    *)
(* step on, up to the first that has just become a whole word of the next  *)
(* shorter length; the longer ones that hung from the codeword are hung    *)
(* from the new word.                                                      *)
MarkersAfter(marker, length) ==
  LET odd  == {j \in 1..length : marker[j] % 2 = 1}
      stop == IF odd = {} THEN 0 ELSE Max(odd)
      stepped == [j \in 0..length |->
                    IF j = stop /\ j > 0 THEN 2 * marker[j - 1]
                    ELSE IF j > stop THEN marker[j] + 1 ELSE marker[j]]
      hangs(j) == \A k \in (length + 1)..j : marker[k] \div 2 = marker[k - 1]
  IN  [j \in 0..MaxLength |->
         IF j <= length THEN stepped[j]
         ELSE IF hangs(j)
              THEN (stepped[length] * 2 ^ (j - length)) % 2 ^ WordBits
              ELSE marker[j]]

(* Some length still has a word to give.                                   *)
Underpopulated(marker) == \E j \in 1..MaxLength : marker[j] % 2 ^ j # 0

-----------------------------------------------------------------------------
(* Growing the tree t: [r, top, chase, ...], the words, the first node not *)
(* yet there and the node reached.                                         *)

(* One side of the node reached is followed, to a new node if need be.     *)
Descended(t, bit) ==
  LET left == 2 * t.chase
      r == IF t.chase >= t.top
           THEN [t.r EXCEPT ![left] = t.top + 1, ![left + 1] = 0]
           ELSE IF t.r[left + bit] = 0
           THEN [t.r EXCEPT ![left + bit] = t.top] ELSE t.r
  IN  [t EXCEPT !.r = r, !.chase = r[left + bit],
                !.top = IF t.chase >= t.top THEN @ + 1 ELSE @]

(* It gets a leaf.                                                         *)
Leafed(t, bit, leaf) ==
  LET left == 2 * t.chase
      r == IF t.chase >= t.top THEN [t.r EXCEPT ![left + 1] = 0] ELSE t.r
  IN  [t EXCEPT !.r = [r EXCEPT ![left + bit] = leaf],
                !.top = IF t.chase >= t.top THEN @ + 1 ELSE @]

-----------------------------------------------------------------------------
(* Packing.  A cell of so many bits marks a leaf by its own top bit.       *)

Narrowed(w, bits) ==
  LET low == w % 2 ^ bits
  IN  IF IsLeaf(w) /\ low < TopBit(bits) THEN low + TopBit(bits) ELSE low

(* One cell for a node's side and for a leaf.                              *)
Flat(r, used, bits) == [a \in 0..(2 * used - 3) |-> Narrowed(r[a], bits)]

(* Two cells for a leaf: a node's two sides are followed by the low halves *)
(* of those that are leaves, and nodes point to where nodes start.         *)
NodeCells(r, k) == 2 + Cardinality({o \in {0, 1} : IsLeaf(r[2 * k + o])})

NodeStarts(r, used) ==
  LET start[n \in 0..(used - 1)] ==  \* of the nth node from the end
        IF n = 0 THEN 3 * used - 2
        ELSE start[n - 1] - NodeCells(r, used - 1 - n)
  IN  [k \in 0..(used - 2) |-> start[used - 1 - k]]

Halved(r, used, bits) ==
  LET start == NodeStarts(r, used)
      side(w) == IF IsLeaf(w)
                 THEN TopBit(bits) + ((w \div 2 ^ bits) % TopBit(bits))
                 ELSE start[w] % 2 ^ bits
      low(w)  == w % 2 ^ bits
  IN  [a \in 0..(3 * used - 3) |->
         LET k == Max({n \in 0..(used - 2) : start[n] <= a})
             l == r[2 * k]
             m == r[2 * k + 1]
         IN  CASE a = start[k]     -> side(l)
               [] a = start[k] + 1 -> side(m)
               [] a = start[k] + 2 -> low(IF IsLeaf(l) THEN l ELSE m)
               [] a = start[k] + 3 -> low(m)]

-----------------------------------------------------------------------------
(* _book_maptype1_quantvals: one look of the polishing loop.               *)

(* Mutant: a power that comes to entries is kept past it.                  *)
SaturatedEarly(vals, dim, entries) ==
  LET acc[i \in 0..dim] ==
        IF i = 0 THEN 1
        ELSE IF acc[i - 1] >= entries \div vals THEN entries + 1
        ELSE acc[i - 1] * vals
  IN  acc[dim]

(* vals to the power dim, kept at entries + 1 once it is past entries.     *)
Saturated(vals, dim, entries) ==
  LET acc[i \in 0..dim] ==
        IF i = 0 THEN 1
        ELSE IF acc[i - 1] > entries \div vals THEN entries + 1
        ELSE acc[i - 1] * vals
  IN  acc[dim]

QuantvalsHint(dim, entries) ==
  IF dim < 1 \/ entries < 1 THEN 1
  ELSE Max({entries \div 2 ^ (((ilog(entries) - 1) * (dim - 1)) \div dim), 1})

(* Mutant: a lattice that is exactly full is taken for too large.          *)
NeverFull(vals, dim, entries) ==
  \/ dim < 1 \/ entries < 1
  \/ Saturated(vals, dim, entries) < entries
     /\ Saturated(vals + 1, dim, entries) > entries
  \/ Saturated(vals, dim, entries) > entries /\ vals <= 1

QuantvalsFound(vals, dim, entries) ==
  \/ dim < 1 \/ entries < 1
  \/ Saturated(vals, dim, entries) <= entries
     /\ Saturated(vals + 1, dim, entries) > entries
  \/ Saturated(vals, dim, entries) > entries /\ vals <= 1

QuantvalsPolished(vals, dim, entries) ==
  IF Saturated(vals, dim, entries) > entries THEN vals - 1 ELSE vals + 1
=============================================================================
