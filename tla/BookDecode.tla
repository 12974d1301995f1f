----------------------------- MODULE BookDecode -----------------------------
(***************************************************************************)
(* Decoding with a codebook (src/tremor/codebook.c): the walk of the tree  *)
(* along the bits of an audio packet, and the functions that decode one    *)
(* entry or fill a stretch of samples with value vectors.  A book that was *)
(* accepted serves one call, and is cleared with its stream.               *)
(*                                                                         *)
(* The bits of the packet are chosen as they are walked.  The values are   *)
(* those of q_val; scale, offset and running sum of decode_map_apply are   *)
(* left out.                                                               *)
(***************************************************************************)
EXTENDS Codebook

CONSTANTS
  LongBits,         \* bits of a long: a word's (ESP32), or more
  Packets,          \* bytes of the packet
  Calls,            \* [op, n, off, ch]: the calls made
  DECODE_VEC_STACK  \* the longest vector that needs no block (32)

ASSUME CallAssumption ==
  /\ LongBits \in Nat /\ LongBits >= WordBits /\ DECODE_VEC_STACK \in Nat
  /\ Packets \subseteq Nat
  /\ \A c \in Calls : c.op \in {"decode", "vs", "v", "set", "vv"}
                      /\ c.n \in Nat /\ c.off \in Nat /\ c.ch \in Nat \ {0}

-----------------------------------------------------------------------------
(* What the lengths say: the codewords, by entry.                          *)

(* Words are <<length, value>>.  Of two the shorter may begin the longer.  *)
Clash(u, w) ==
  IF u[1] <= w[1] THEN w[2] \div 2 ^ (w[1] - u[1]) = u[2]
  ELSE u[2] \div 2 ^ (u[1] - w[1]) = w[2]

(* The words of each length that follow a word, where the lowest free one  *)
(* is to be found when 0 is not free.                                      *)
After(u, len) ==
  IF len >= u[1] THEN (u[2] + 1) * 2 ^ (len - u[1])
  ELSE (u[2] \div 2 ^ (u[1] - len)) + 1

(* An entry takes the lowest word of its length that clashes with none.    *)
Taking(taken, e, len) ==
  LET old  == {x[2] : x \in taken}
      free == {v \in {0} \cup {After(u, len) : u \in old} :
                 \A u \in old : ~Clash(u, <<len, v>>)}
  IN  IF len = 0 THEN taken ELSE taken \cup {<<e, <<len, Min(free)>>>>}

(* The entries in use take their words in turn.                            *)
Codewords(list) ==
  LET taken[e \in 0..Len(list)] ==
        IF e = 0 THEN {} ELSE Taking(taken[e - 1], e, list[e])
  IN  taken[Len(list)]

-----------------------------------------------------------------------------
VARIABLES
  stage,   \* of the call: "idle", "next", "look", "walk", "entry", "done"
  reader,  \* the oggpack_buffer of the packet
  call,
  walk,    \* decode_packed_entry_number, and the bits walked
  wrote,   \* <<cell, value>> in the order written
  at,      \* how far the call is: [j, i, chptr]
  ret,
  words,   \* history: the paths walked to a leaf
  spelling \* history: the codewords of the book, by entry

callVars == <<stage, reader, call, walk, wrote, at, ret, words,
             spelling>>
allVars == <<vars, callVars>>

NoWalk == [read |-> 0, i |-> 0, chase |-> 0, entry |-> -1, path |-> <<>>,
           left |-> 0, topset |-> FALSE]

NoCall == [op |-> "none", n |-> 0, off |-> 0, ch |-> 1]

DecodeInit ==
  /\ Init /\ stage = "idle" /\ reader = oggpack_readinit(0) /\ call = NoCall
  /\ walk = NoWalk /\ wrote = <<>> /\ at = [j |-> 0, i |-> 0, chptr |-> 0]
  /\ ret = 0 /\ words = <<>> /\ spelling = {}

(* Vectors of an interleaved stretch.                                      *)
Steps == call.n \div s.dim

(* Vectors too long for the stack are in a block while the call lasts.     *)
OnHeap == call.op \notin {"none", "decode"} /\ s.dim > DECODE_VEC_STACK
Freed == IF OnHeap THEN Less(heap, "vec") ELSE heap

Return(code, h) ==
  /\ stage' = "done" /\ ret' = code /\ heap' = h
  /\ UNCHANGED <<sent, pc, opb, s, lengthlist, unused, length, quantvals,
                 tree, table, vals>>

(* vorbis_book_decode wants a book without values.  The others give zeros, *)
(* or nothing, for a book without words, and -1 when the scale is out of   *)
(* range (ready fails) or the vector finds no memory.                      *)
StartCall ==
  /\ pc = "ok" /\ stage = "idle"
  /\ call' \in Calls
  /\ \E bytes \in Packets, bit \in {0, 1} :
       reader' = oggpack_adv(oggpack_readinit(bytes), bit)
  /\ spelling' = Codewords(lengthlist)
  /\ UNCHANGED <<walk, at, words>>
  /\ \/ /\ call'.op = "decode" /\ s.dec_type # 0 /\ Return(-1, heap)
        /\ UNCHANGED wrote
     \/ /\ call'.op = "decode" /\ s.dec_type = 0
        /\ stage' = "look" /\ UNCHANGED <<vars, wrote, ret>>
     \/ /\ call'.op # "decode" /\ s.used_entries = 0 /\ Return(0, heap)
        /\ wrote' = IF call'.op = "set"
                    THEN [k \in 1..call'.n |-> <<k - 1, 0>>] ELSE wrote
     \/ /\ call'.op # "decode" /\ s.used_entries > 0 /\ Return(-1, heap)
        /\ UNCHANGED wrote
     \/ /\ call'.op # "decode" /\ s.used_entries > 0
        /\ heap' = IF s.dim > DECODE_VEC_STACK THEN More(heap, "vec") ELSE heap
        /\ stage' = "next"
        /\ UNCHANGED <<wrote, ret, sent, pc, opb, s, lengthlist, unused,
                       length, quantvals, tree, table, vals>>

(* The loop of the call, up to its next vector.                            *)
Filled ==
  CASE call.op = "vs" -> at.j >= Steps
    [] call.op \in {"v", "set"} -> at.i >= call.n
    [] call.op = "vv" -> at.i >= call.n

NextVector ==
  /\ stage = "next"
  /\ UNCHANGED <<reader, call, walk, wrote, at, words, spelling>>
  /\ \/ Filled /\ Return(0, Freed)
     \/ ~Filled /\ stage' = "look" /\ UNCHANGED <<vars, ret>>

-----------------------------------------------------------------------------
(* decode_packed_entry_number.                                             *)

(* A look at a whole word whose top bit is set is negative in a long of as *)
(* many bits, like one past the end.  The longest look that is not         *)
(* negative serves.                                                        *)
LookAhead ==
  /\ stage = "look"
  /\ \E topset \in BOOLEAN :
       LET negative(n) == topset /\ n = WordBits /\ n = LongBits
           most  == s.dec_maxlength
           looks == {n \in (IF most = 0 THEN {0} ELSE 1..most) :
                       Readable(reader, n) /\ ~negative(n)}
       IN  /\ topset => most = LongBits /\ Readable(reader, most)
           /\ \/ /\ looks # {}
                 /\ walk' = [NoWalk EXCEPT !.read = Max(looks),
                               !.left = BitsLeft(reader), !.topset = topset]
                 /\ stage' = "walk" /\ UNCHANGED reader
              \/ /\ looks = {}
                 /\ walk' = [NoWalk EXCEPT !.left = BitsLeft(reader)]
                 /\ stage' = "entry" /\ reader' = oggpack_adv(reader, 1)
  /\ UNCHANGED <<vars, call, wrote, at, ret, words, spelling>>

CellBits == IF InPlace THEN WordBits ELSE s.dec_nodeb * ByteBits
(* Mutant: nodes of every layout are found by their number.               *)
CellByNumber(chase, bit) == 2 * chase + bit

CellOf(chase, bit) ==
  IF InPlace \/ s.dec_leafw = 1 THEN 2 * chase + bit ELSE chase + bit
Marked(cell) == cell >= TopBit(CellBits)

(* The low half of a leaf is behind the node, after that of a leaf to its  *)
(* left.                                                                   *)
LowHalf(chase, bit) ==
  chase + bit + 1 + (IF bit = 0 \/ Marked(table[chase]) THEN 1 ELSE 0)

LeafAt(cell, chase, bit) ==
  LET high == cell % TopBit(CellBits)
  IN  IF InPlace \/ s.dec_leafw = 1 THEN high
      ELSE high * 2 ^ CellBits + table[LowHalf(chase, bit)]

(* What the walk reads.  The second word of the node of a book of one      *)
(* entry is never written: it may be a leaf, or lead anywhere.             *)
Strays == {TopBit(CellBits), TopBit(CellBits) + 1, s.used_entries + 1}
Held(a) == IF a \in DOMAIN table /\ table[a] # Unset THEN {table[a]} ELSE Strays

(* The bits that can come next.  Astray, it does not matter which.         *)
NextBits ==
  IF CellOf(walk.chase, 0) \notin DOMAIN table THEN {0}
  ELSE IF walk.i = LongBits - 1 THEN {0}  \* not negative, so top bit clear
  ELSE {0, 1}

WalkBit ==
  /\ stage = "walk" /\ walk.i < walk.read
  /\ \E bit \in NextBits : \E cell \in Held(CellOf(walk.chase, bit)) :
       LET path == Append(walk.path, bit)
       IN  \/ /\ Marked(cell)
              /\ walk' = [walk EXCEPT !.path = path,
                                      !.entry = LeafAt(cell, walk.chase, bit)]
              /\ reader' = oggpack_adv(reader, walk.i + 1)
              /\ stage' = "entry" /\ words' = Append(words, path)
           \/ /\ ~Marked(cell)
              /\ walk' = [walk EXCEPT !.path = path, !.chase = cell, !.i = @ + 1]
              /\ UNCHANGED <<reader, stage, words>>
  /\ UNCHANGED <<vars, call, wrote, at, ret, spelling>>

(* Mutant: one bit more is skipped, as if that had to leave the packet.    *)
WalkSkipsOn ==
  /\ stage = "walk" /\ walk.i = walk.read
  /\ reader' = oggpack_adv(reader, walk.read + 1) /\ stage' = "entry"
  /\ UNCHANGED <<vars, call, walk, wrote, at, ret, words, spelling>>

(* All bits are walked and there was no leaf.                              *)
WalkEnds ==
  /\ stage = "walk" /\ walk.i = walk.read
  /\ reader' = oggpack_seteop(reader) /\ stage' = "entry"
  /\ UNCHANGED <<vars, call, walk, wrote, at, ret, words, spelling>>

-----------------------------------------------------------------------------
(* The entry of one walk is used.                                          *)

(* decode_map_apply: the vector of the entry, or no vector.                *)
HasVector == /\ ~oggpack_eop(reader) /\ s.dec_type \in 1..3
             /\ s.dec_type = 3 => walk.entry < s.used_entries

Unpacked(k) ==
  LET field(bits) == (walk.entry \div 2 ^ (bits * k)) % 2 ^ bits
      width == IF s.q_bits <= ByteBits THEN 1 ELSE 2  \* bytes of a value
  IN  CASE s.dec_type = 1 -> field(s.q_bits)
        [] s.dec_type = 2 -> vals[field(s.q_pack)]
        [] s.dec_type = 3 -> vals[(walk.entry * s.q_pack) \div width + k]

(* The coordinates of one vector are written.                              *)
WriteStrided(v) ==  \* vorbis_book_decodevs_add
  /\ wrote' = wrote \o [k \in 1..s.dim |->
                          <<at.j + (k - 1) * Steps, v[k - 1]>>]
  /\ at' = [at EXCEPT !.j = @ + 1]

WriteNext(v) ==     \* vorbis_book_decodev_add, vorbis_book_decodev_set
  LET m == Min({s.dim, call.n - at.i})
  IN  /\ wrote' = wrote \o [k \in 1..m |-> <<at.i + k - 1, v[k - 1]>>]
      /\ at' = [at EXCEPT !.i = @ + m]

(* Mutant: every vector starts with the first channel.                     *)
WriteFromFirst(v) ==
  LET to[k \in 0..s.dim] ==
        IF k = 0 THEN [w |-> wrote, i |-> at.i, chptr |-> 0]
        ELSE LET p == to[k - 1]
                 c == p.chptr + 1
             IN  IF p.i >= call.n THEN p
                 ELSE [w |-> Append(p.w, <<p.chptr, call.off + p.i, v[k - 1]>>),
                       i |-> IF c = call.ch THEN p.i + 1 ELSE p.i,
                       chptr |-> c % call.ch]
  IN  /\ wrote' = to[s.dim].w
      /\ at' = [at EXCEPT !.i = to[s.dim].i, !.chptr = to[s.dim].chptr]

WriteChannels(v) == \* vorbis_book_decodevv_add
  LET to[k \in 0..s.dim] ==
        IF k = 0 THEN [w |-> wrote, i |-> at.i, chptr |-> at.chptr]
        ELSE LET p == to[k - 1]
                 c == p.chptr + 1
             IN  IF p.i >= call.n THEN p
                 ELSE [w |-> Append(p.w, <<p.chptr, call.off + p.i, v[k - 1]>>),
                       i |-> IF c = call.ch THEN p.i + 1 ELSE p.i,
                       chptr |-> IF c = call.ch THEN 0 ELSE c]
  IN  /\ wrote' = to[s.dim].w
      /\ at' = [at EXCEPT !.i = to[s.dim].i, !.chptr = to[s.dim].chptr]

UseEntry ==
  /\ stage = "entry"
  /\ UNCHANGED <<reader, call, walk, words, spelling>>
  /\ \/ call.op = "decode" /\ Return(walk.entry, heap) /\ UNCHANGED <<wrote, at>>
     \/ /\ call.op # "decode" /\ ~HasVector
        /\ Return(-1, Freed) /\ UNCHANGED <<wrote, at>>
     \/ /\ call.op # "decode" /\ HasVector
        /\ LET v == [k \in 0..(s.dim - 1) |-> Unpacked(k)]
           IN  CASE call.op = "vs" -> WriteStrided(v)
                 [] call.op = "vv" -> WriteChannels(v)
                 [] OTHER -> WriteNext(v)
        /\ stage' = "next" /\ UNCHANGED <<vars, ret>>

Unpack == vorbis_book_unpack /\ UNCHANGED callVars
Clear == stage \in {"idle", "done"} /\ vorbis_book_clear /\ UNCHANGED callVars

DecodeNext ==
  \/ Unpack \/ StartCall \/ NextVector \/ LookAhead \/ WalkBit \/ WalkEnds
  \/ UseEntry \/ Clear

(* One thread unpacks the headers and is not stopped in them.              *)
DecodeSpec == DecodeInit /\ [][DecodeNext]_allVars /\ WF_allVars(Unpack)

-----------------------------------------------------------------------------
(* What the packet says.                                                   *)

(* The number that the first n bits of the path are.                       *)
ValueOf(path, n) ==
  LET value[k \in 0..n] == IF k = 0 THEN 0 ELSE 2 * value[k - 1] + path[k]
  IN  value[n]

(* The entries, from 1, whose codeword begins the path.                    *)
Spelled(path) ==
  {x[1] : x \in {y \in spelling :
      /\ y[2][1] <= Len(path)
      /\ ValueOf(path, y[2][1]) = y[2][2]}}

(* The values of an entry's vector as they were sent.                      *)
VectorOf(e) ==
  LET n == Cardinality({d \in Used(lengthlist) : d < e})
  IN  [k \in 0..(s.dim - 1) |->
         Values[IF sent.maptype = 1 THEN Offset(e - 1, k) ELSE n * s.dim + k]
           % 2 ^ s.q_bits]

-----------------------------------------------------------------------------
(* Properties.                                                             *)

(* A walk reads cells of the table that were written, and no others: it    *)
(* may not leave the table by a node, or by the low half of a leaf.  Only  *)
(* in a book of one entry a bit that its word does not have reads memory   *)
(* that was not written (codebook.c:168).                                  *)
WalkStaysInTable ==
  stage = "walk" /\ walk.i < walk.read /\ s.entries > 1 =>
    \A bit \in NextBits :
      LET a == CellOf(walk.chase, bit)
      IN  /\ a \in DOMAIN table /\ table[a] # Unset
          /\ Marked(table[a]) /\ ~InPlace /\ s.dec_leafw = 2
               => LowHalf(walk.chase, bit) \in DOMAIN table

(* decode_packed_entry_number finds the entry whose codeword is next in    *)
(* the packet and moves just past it; when none is, as the packet ends     *)
(* within it, the reader is dead.  A codeword of a whole word whose last   *)
(* bit is set is lost where a long is no wider.  A book of one entry gives *)
(* it for a bit that is zero, however long its word.                       *)
DecodesTheCodeword ==
  stage = "entry" =>
    IF walk.entry >= 0
    THEN /\ \/ \E e \in Used(lengthlist) :
                 /\ Spelled(walk.path) = {e}
                 /\ s.dec_type = 0 => walk.entry = e - 1
            \/ s.entries = 1 /\ (walk.path = <<0>> => walk.entry = 0)
         /\ reader.live /\ BitsLeft(reader) = walk.left - Len(walk.path)
    ELSE /\ ~reader.live
         /\ Spelled(walk.path) = {}
         /\ \/ Len(walk.path) = Min({s.dec_maxlength, walk.left})
            \/ walk.topset /\ Len(walk.path) = LongBits - 1

(* The values written are those of the codewords in the packet, each once  *)
(* and in its place: interleaved, one behind the other, or channel by      *)
(* channel; and a call that succeeds has filled what it was given.         *)
ValuesInPlace ==
  LET size == Len(words) * s.dim
      V(k) == VectorOf(CHOOSE e \in Spelled(words[(k \div s.dim) + 1]) : TRUE)
                [k % s.dim]
      all  == CASE call.op = "vs" -> Steps * s.dim
                [] call.op = "vv" -> call.n * call.ch
                [] OTHER -> call.n
  IN  stage \in {"next", "done"} /\ call.op # "decode" /\ pc = "ok"
        /\ s.used_entries > 0 /\ s.dec_type > 0 /\ s.entries > 1 =>
        /\ ret = 0 /\ stage = "done" => Len(wrote) = all
        /\ Len(wrote) = Min({size, all})
        /\ \A p \in 1..Len(wrote) :
             LET k == p - 1
             IN  wrote[p] =
                   CASE call.op = "vs" -> <<(k \div s.dim) + (k % s.dim) * Steps, V(k)>>
                     [] call.op = "vv" -> <<k % call.ch, call.off + (k \div call.ch), V(k)>>
                     [] OTHER -> <<k, V(k)>>

(* Every block has one owner, to the end of the call that needs it.        *)
MemoryOwned ==
  /\ BookMemoryOwned
  /\ (heap["vec"] = 1) = (OnHeap /\ stage \in {"next", "look", "walk", "entry"})
=============================================================================
