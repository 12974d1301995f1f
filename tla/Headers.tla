------------------------------ MODULE Headers ------------------------------
(***************************************************************************)
(* The headers that describe a stream: the identification header, which    *)
(* the wrapper parses for itself (vorbis_header.cpp) before Tremor unpacks *)
(* it again, and the setup header, whose six sections fill the codec setup *)
(* (info.c), struct by struct (floor0.c, floor1.c, res012.c, mapping0.c).  *)
(* The packet can end at every read, hold a value out of range, and every  *)
(* allocation can fail; then everything is freed by what the tables and    *)
(* counts say.                                                             *)
(*                                                                         *)
(* sent is what the packets hold.  A block of memory is                    *)
(* <<section, index, field>>, the tables those of section "codec_setup".   *)
(***************************************************************************)
EXTENDS Integers, Sequences

CONSTANTS
  Sent,      \* [ident, count, type, floor0, floor1, residue, mapping, mode]
  Rates,     \* values of the sample rate's field (2^32)
  LongMax    \* of a long: 2^31 - 1 (ESP32), or more

Sections == {"times", "floors", "residues", "maps", "modes"}
Backends == [times |-> 0..0, floors |-> 0..1, residues |-> 0..2,
             maps |-> 0..0, modes |-> 0..0]

ASSUME HeadersAssumption ==
  /\ Rates \in Nat /\ LongMax \in Nat
  /\ \A h \in Sent :
       /\ h.ident.rate \in 0..(Rates - 1)
       /\ h.ident.magic \in BOOLEAN /\ h.ident.framing \in {0, 1}
       /\ h.ident.bytes \in Nat /\ h.ident.channels \in Nat
       /\ h.ident.exp0 \in 0..15 /\ h.ident.exp1 \in 0..15
       /\ h.count \in [Sections \cup {"books"} -> SUBSET (Nat \ {0})]
       /\ h.type \in [Sections \cup {"books"} -> SUBSET Nat]
       /\ \A f \in h.floor0 : f.barkmap \in Nat

VARIABLES
  sent,
  pc,
  vi,       \* [channels, blocksizes]
  section,  \* of the setup header
  ci,       \* the codec setup: counts, types and structs
  part,     \* fields of the struct being unpacked still to be allocated
  heap      \* the blocks allocated

headerVars == <<sent, pc, vi, section, ci, part, heap>>

NoInfo == [channels |-> 0, blocksizes |-> [f \in {0, 1} |-> 0]]
ZeroedSetup ==
  [books |-> 0, book_param |-> <<>>,
   count |-> [c \in Sections |-> 0],
   type |-> [c \in Sections |-> <<>>],
   param |-> [c \in Sections |-> <<>>]]

HeadersInit ==
  /\ sent \in Sent /\ pc = "parse" /\ vi = NoInfo /\ section = "times"
  /\ ci = ZeroedSetup /\ part = <<>> /\ heap = {}

-----------------------------------------------------------------------------
(* Memory.                                                                 *)

Table(name) == <<"codec_setup", 0, name>>

(* The tables of a section: types and structs.                             *)
TableNames ==
  [times |-> {"time_type"}, floors |-> {"floor_type", "floor_param"},
   residues |-> {"residue_type", "residue_param"},
   maps |-> {"map_type", "map_param"}, modes |-> {"mode_param"}]
Tables(c) == {Table(n) : n \in TableNames[c]}

(* Mutant: the neighbours of a floor 1 are not freed.                      *)
InfoFieldsOfLook(c, t) ==
  CASE c = "floors" /\ t = 1 ->
         {"info", "partitionclass", "class_dim", "class_subs", "class_book",
          "class_subbook", "postlist", "forward_index"}
    [] c = "residues" ->
         {"info", "secondstages", "booklist", "stagemasks", "stagebooks"}
    [] c = "maps" -> {"info", "chmuxlist", "coupling_mag", "coupling_ang"}
    [] OTHER -> {"info"}

(* What free_info of a backend frees, where there is something.            *)
InfoFields(c, t) ==
  CASE c = "floors" /\ t = 1 ->
         {"info", "partitionclass", "class_dim", "class_subs", "class_book",
          "class_subbook", "postlist", "forward_index", "hineighbor",
          "loneighbor"}
    [] c = "residues" ->
         {"info", "secondstages", "booklist", "stagemasks", "stagebooks"}
    [] c = "maps" -> {"info", "chmuxlist", "coupling_mag", "coupling_ang"}
    [] OTHER -> {"info"}
InfoBlocks(c, i, t) == {<<c, i, f>> : f \in InfoFields(c, t)}

(* vorbis_info_clear: the tables, and what their entries point to.         *)
BookBlocks == {<<"books", i, "book">> : i \in 1..Len(ci.book_param)}
StructBlocks(c) ==
  UNION {InfoBlocks(c, i, ci.type[c][i]) :
           i \in {k \in 1..ci.count[c] : k <= Len(ci.param[c])}}
ClearedBlocks ==
  {Table("codec_setup"), Table("book_param")} \cup BookBlocks
    \cup UNION {Tables(c) \cup StructBlocks(c) : c \in Sections}

(* The struct being unpacked frees itself when it cannot be completed.     *)
PartBlocks ==
  IF pc = "fields"
  THEN InfoBlocks(section, Len(ci.type[section]),
                  ci.type[section][Len(ci.type[section])])
  ELSE {}

(* err_out: got is what had been allocated in the step that failed.        *)
Refuse(got) ==
  /\ pc' = "refused"
  /\ heap' = (heap \cup got) \ (PartBlocks \cup ClearedBlocks)
  /\ vi' = NoInfo /\ ci' = ZeroedSetup /\ part' = <<>>
  /\ UNCHANGED <<sent, section>>

(* Of several blocks all are asked for before the pointers are looked at.  *)
SomeFail(blocks) == \E got \in SUBSET blocks : got # blocks /\ Refuse(got)

-----------------------------------------------------------------------------
(* The identification header.                                              *)

(* What parse_vorbis_identification says to it.                            *)
parse_vorbis_identification(p) ==
  CASE ~p.magic -> "INVALID_MAGIC"
    [] p.magic /\ p.bytes < 30 -> "TOO_SHORT"
    [] OTHER ->
         CASE p.version # 0 -> "INVALID_VERSION"
           [] p.version = 0 /\ p.channels = 0 -> "INVALID_CHANNELS"
           [] p.version = 0 /\ p.channels > 0 /\ p.rate = 0 ->
                "INVALID_SAMPLE_RATE"
           [] OTHER ->
                IF p.exp0 \notin 6..13 \/ p.exp1 \notin 6..13 \/ p.exp0 > p.exp1
                THEN "INVALID_BLOCKSIZE"
                ELSE IF p.framing = 0 THEN "INVALID_FRAMING" ELSE "OK"

ParseIdentification ==
  /\ pc = "parse"
  /\ pc' = IF parse_vorbis_identification(sent.ident) = "OK" THEN "init"
           ELSE "refused"
  /\ UNCHANGED <<sent, vi, section, ci, part, heap>>

vorbis_info_init ==
  /\ pc = "init"
  /\ \/ Refuse({})
     \/ /\ heap' = heap \cup {Table("codec_setup")} /\ pc' = "info"
        /\ UNCHANGED <<sent, vi, section, ci, part>>

(* The rate as the long it is read into.                                   *)
Signed(rate) == IF rate > LongMax THEN rate - Rates ELSE rate

(* The header as _vorbis_unpack_info takes it.  In a packet that is too    *)
(* short the framing bit cannot be read.  (A version that is not 0, which  *)
(* the parser has kept out, would leave the setup to the next reset.)      *)
Unpackable(p) ==
  /\ p.magic /\ p.version = 0
  /\ Signed(p.rate) >= 1 /\ p.channels >= 1
  /\ 2 ^ p.exp0 >= 64 /\ 2 ^ p.exp1 >= 2 ^ p.exp0 /\ 2 ^ p.exp1 <= 8192
  /\ p.bytes >= 30 /\ p.framing = 1

UnpackInfo ==
  /\ pc = "info"
  /\ \/ ~Unpackable(sent.ident) /\ Refuse({})
     \/ /\ Unpackable(sent.ident)
        /\ vi' = [channels |-> sent.ident.channels,
                  blocksizes |-> [f \in {0, 1} |->
                     2 ^ (IF f = 0 THEN sent.ident.exp0 ELSE sent.ident.exp1)]]
        /\ pc' = "books"
        /\ UNCHANGED <<sent, section, ci, part, heap>>

-----------------------------------------------------------------------------
(* The setup header: the codebooks.                                        *)

(* Their count is there before their table.                                *)
StartBooks ==
  /\ pc = "books"
  /\ \/ Refuse({})
     \/ \E n \in sent.count["books"] :
          /\ ci' = [ci EXCEPT !.books = n]
          /\ heap' = heap \cup {Table("book_param")} /\ pc' = "book"
          /\ UNCHANGED <<sent, vi, section, part>>

(* vorbis_book_unpack leaves a book, or nothing.                           *)
UnpackBook ==
  /\ pc = "book" /\ Len(ci.book_param) < ci.books
  /\ \/ Refuse({})
     \/ \E t \in sent.type["books"] \cap (0..3) :
          /\ ci' = [ci EXCEPT !.book_param = Append(@, t)]
          /\ heap' = heap \cup {<<"books", Len(ci.book_param) + 1, "book">>}
          /\ UNCHANGED <<sent, pc, vi, section, part>>

BooksUnpacked ==
  /\ pc = "book" /\ Len(ci.book_param) = ci.books
  /\ pc' = "section" /\ section' = "times"
  /\ UNCHANGED <<sent, vi, ci, part, heap>>

-----------------------------------------------------------------------------
(* The other sections.  Each has a table or two; its count is published    *)
(* when they are there.                                                    *)

StartSection ==
  /\ pc = "section"
  /\ \/ SomeFail(Tables(section))
     \/ \E n \in sent.count[section] :
          /\ heap' = heap \cup Tables(section)
          /\ ci' = [ci EXCEPT !.count[section] = n]
          /\ pc' = "element"
          /\ UNCHANGED <<sent, vi, section, part>>

InComplete == Len(ci.param[section]) < ci.count[section]

ReadTime ==
  /\ pc = "element" /\ section = "times" /\ InComplete
  /\ \E t \in sent.type["times"] :
       \/ t \notin Backends["times"] /\ Refuse({})
       \/ /\ t \in Backends["times"]
          /\ ci' = [ci EXCEPT !.type["times"] = Append(@, t),
                              !.param["times"] = Append(@, t)]
          /\ UNCHANGED <<sent, pc, vi, section, part, heap>>

(* The fields of a struct in the order of their allocations, those of one  *)
(* set together.  A floor 1 without partitions has no classes and no inner *)
(* posts, one with partitions has both.                                    *)
FieldLists(c, t) ==
  CASE c = "floors" /\ t = 1 ->
         {<<{"info"}, {"postlist"}, {"forward_index"}>>,
          <<{"info"}, {"partitionclass"},
            {"class_dim", "class_subs", "class_book", "class_subbook"},
            {"postlist"}, {"forward_index"}, {"hineighbor", "loneighbor"}>>}
    [] c = "residues" ->
         {<<{"info"}, {"secondstages"}, {"booklist"}, {"stagemasks"},
            {"stagebooks"}>>}
    [] c = "maps" ->
         {<<{"info"}, {"chmuxlist"}>>,
          <<{"info"}, {"chmuxlist"}, {"coupling_mag", "coupling_ang"}>>}
    [] OTHER -> {<<{"info"}>>}

(* The type of a struct; modes have no type, and are all of type 0 here.   *)
ReadType ==
  /\ pc = "element" /\ section # "times" /\ InComplete
  /\ \E t \in sent.type[section] :
       \/ t \notin Backends[section] /\ Refuse({})
       \/ /\ t \in Backends[section]
          /\ ci' = [ci EXCEPT !.type[section] = Append(@, t)]
          /\ part' \in FieldLists(section, t) /\ pc' = "fields"
          /\ UNCHANGED <<sent, vi, section, heap>>

Current == Len(ci.type[section])

(* A struct reads its values and allocates its arrays in turn.             *)
UnpackFields ==
  /\ pc = "fields" /\ part # <<>>
  /\ LET blocks == {<<section, Current, f>> : f \in Head(part)}
     IN  \/ SomeFail(blocks)
         \/ /\ heap' = heap \cup blocks /\ part' = Tail(part)
            /\ UNCHANGED <<sent, pc, vi, section, ci>>

(* What the unpackers check: numbers of books, and that those have values  *)
(* where values are decoded; submaps, floors, residues and channels.       *)
ValueBook(b) == b \in 0..(ci.books - 1) /\ ci.book_param[b + 1] # 0
Floor0OK(f) ==
  /\ f.order >= 1 /\ f.rate >= 1 /\ f.barkmap >= 1 /\ Len(f.books) \in 1..16
  /\ \A k \in DOMAIN f.books : ValueBook(f.books[k])
Floor1OK(f) == \A b \in f.books : b \in -1..(ci.books - 1)
ResidueOK(r) ==
  /\ r.groupbook \in 0..(ci.books - 1)
  /\ \A b \in r.booklist : ValueBook(b)
MappingOK(m) ==
  /\ \A c \in 0..(vi.channels - 1) : m.chmuxlist[c] \in 0..(m.submaps - 1)
  /\ \A k \in DOMAIN m.coupling :
       /\ m.coupling[k][1] \in 0..(vi.channels - 1)
       /\ m.coupling[k][2] \in 0..(vi.channels - 1)
       /\ m.coupling[k][1] # m.coupling[k][2]
  /\ m.submaps \in 1..16
  /\ \A s \in 0..(m.submaps - 1) :
       /\ m.floorsubmap[s] \in 0..(ci.count["floors"] - 1)
       /\ m.residuesubmap[s] \in 0..(ci.count["residues"] - 1)
ModeOK(m) ==
  /\ m.blockflag \in {0, 1} /\ m.windowtype = 0 /\ m.transformtype = 0
  /\ m.mapping \in 0..(ci.count["maps"] - 1)

Structs(c, t) ==
  CASE c = "floors" /\ t = 0 -> {f \in sent.floor0 : Floor0OK(f)}
    [] c = "floors" /\ t = 1 -> {f \in sent.floor1 : Floor1OK(f)}
    [] c = "residues" -> {r \in sent.residue : ResidueOK(r)}
    [] c = "maps" -> {m \in sent.mapping : MappingOK(m)}
    [] c = "modes" -> {m \in sent.mode : ModeOK(m)}

CompleteStruct ==
  /\ pc = "fields" /\ part = <<>>
  /\ \/ Refuse({})
     \/ \E info \in Structs(section, ci.type[section][Current]) :
          /\ ci' = [ci EXCEPT !.param[section] = Append(@, info)]
          /\ pc' = "element"
          /\ UNCHANGED <<sent, vi, section, part, heap>>

NextSection ==
  [times |-> "floors", floors |-> "residues", residues |-> "maps",
   maps |-> "modes"]

(* After the modes comes the bit that has to be set.                       *)
EndSection ==
  /\ pc = "element" /\ ~InComplete
  /\ \/ section = "modes" /\ Refuse({})
     \/ /\ section = "modes" /\ pc' = "accepted"
        /\ UNCHANGED <<sent, vi, section, ci, part, heap>>
     \/ /\ section # "modes" /\ pc' = "section"
        /\ section' = NextSection[section]
        /\ UNCHANGED <<sent, vi, ci, part, heap>>

HeadersNext ==
  \/ ParseIdentification \/ vorbis_info_init \/ UnpackInfo
  \/ StartBooks \/ UnpackBook \/ BooksUnpacked
  \/ StartSection \/ ReadTime \/ ReadType \/ UnpackFields \/ CompleteStruct
  \/ EndSection

-----------------------------------------------------------------------------
(* Properties.                                                             *)

(* The wrapper takes its block size, rate and channels from its own        *)
(* parser, the decoder from Tremor's: a header that Tremor would take is   *)
(* not refused, and one the parser took is refused only for a rate that    *)
(* is negative in a long (vorbis_header.cpp:96-119, info.c:124-151).       *)
ParsersAgree ==
  /\ pc = "parse" /\ Unpackable(sent.ident)
       => parse_vorbis_identification(sent.ident) = "OK"
  /\ pc = "info" => \/ Unpackable(sent.ident)
                    \/ sent.ident.rate > LongMax

(* Whatever section a header fails in, vorbis_info_clear finds every block *)
(* by the counts, tables and types that are there, and frees each struct   *)
(* by the backend that made it (info.c:65-116).                            *)
HeaderMemoryOwned ==
  /\ pc \in {"refused", "cleared"} => heap = {}
  /\ \A c \in Sections : ci.count[c] > 0 => Tables(c) \subseteq heap
  /\ \A c \in Sections : \A i \in DOMAIN ci.param[c] :
       i \in DOMAIN ci.type[c] /\ ci.type[c][i] \in Backends[c]
=============================================================================
