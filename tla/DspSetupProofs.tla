--------------------------- MODULE DspSetupProofs ---------------------------
(***************************************************************************)
(* For all packets, sample rates and sizes: a header that fails leaves     *)
(* nothing allocated, an accepted one a decoder whose arena is exact and   *)
(* which has every look its modes ask for.                                 *)
(***************************************************************************)
EXTENDS DspSetup, TLAPS, SequenceTheorems, FiniteSetTheorems

Early == {"parse", "init", "info", "books", "book"}
Unpacking == Early \cup {"section", "element", "fields"}
InArena == {"state", "work", "tails", "modes", "looks", "ready"}
Accepted == {"accepted", "measure", "without_dsp"} \cup InArena
Closed == {"refused", "cleared"}

Infos ==
  Nat \cup UNION {h.floor0 \cup h.floor1 \cup h.residue \cup h.mapping \cup h.mode :
                    h \in Sent}
CodecSetups ==
  [books : Nat, book_param : Seq(Nat), count : [Sections -> Nat],
   type : [Sections -> Seq(Nat)], param : [Sections -> Seq(Infos)]]

Types ==
  /\ sent \in Sent /\ pc \in Unpacking \cup Accepted \cup Closed
  /\ section \in Sections
  /\ vi \in [channels : Nat, blocksizes : [{0, 1} -> Nat]]
  /\ ci \in CodecSetups

-----------------------------------------------------------------------------
(* The sections are unpacked in order, and each struct after its type.     *)

Later ==
  [times |-> {"floors", "residues", "maps", "modes"},
   floors |-> {"residues", "maps", "modes"},
   residues |-> {"maps", "modes"}, maps |-> {"modes"}, modes |-> {}]
Before(c) == {d \in Sections : c \in Later[d]}
Empty(c) == ci.count[c] = 0 /\ ci.type[c] = <<>> /\ ci.param[c] = <<>>
Full(c) == Len(ci.param[c]) = ci.count[c]

(* Each list of types is as long as the list of structs, but for the       *)
(* struct that is being unpacked.                                          *)
Lists ==
  \A c \in Sections :
    /\ Len(ci.type[c]) =
         Len(ci.param[c]) + (IF pc = "fields" /\ c = section THEN 1 ELSE 0)
    /\ Len(ci.param[c]) <= ci.count[c]
    /\ \A i \in 1..Len(ci.type[c]) : ci.type[c][i] \in Backends[c]

InOrder ==
  /\ \A c \in Later[section] : Empty(c)
  /\ \A c \in Before(section) : Full(c)
  /\ pc \in Early => section = "times"
  /\ pc \in Early \cup {"section"} => Empty(section)
  /\ pc \in Accepted => section = "modes" /\ Full("modes")
  /\ pc = "fields" => section # "times" /\ ~Full(section)
  /\ pc \in {"init", "info"} => parse_vorbis_identification(sent.ident) = "OK"

(* What the unpackers have checked.                                        *)
Ranges ==
  /\ \A i \in 1..Len(ci.param["floors"]) :
       ci.type["floors"][i] = 0 => ci.param["floors"][i].barkmap \in Nat
  /\ \A i \in 1..Len(ci.param["maps"]) : MappingOK(ci.param["maps"][i])
  /\ \A i \in 1..Len(ci.param["modes"]) : ModeOK(ci.param["modes"][i])

Memory ==
  /\ pc \in {"parse", "init"} \cup Closed => heap = {}
  /\ heap \subseteq PartBlocks \cup ClearedBlocks
                      \cup (IF pc \in InArena THEN {Arena} ELSE {})
  /\ \A c \in Sections : ci.count[c] > 0 => Tables(c) \subseteq heap
  /\ pc = "fields" =>
       part \in Seq(SUBSET InfoFields(section, ci.type[section][Current]))

HInv == Types /\ Lists /\ InOrder /\ Ranges /\ Memory

-----------------------------------------------------------------------------
(* The block sizes are powers of two.                                      *)
Pow(e) == 2 ^ e
LEMMA Values ==
  /\ Pow(0) = 1 /\ Pow(1) = 2 /\ Pow(2) = 4 /\ Pow(3) = 8
  /\ Pow(4) = 16 /\ Pow(5) = 32 /\ Pow(6) = 64 /\ Pow(7) = 128
  /\ Pow(8) = 256 /\ Pow(9) = 512 /\ Pow(10) = 1024 /\ Pow(11) = 2048
  /\ Pow(12) = 4096 /\ Pow(13) = 8192 /\ Pow(14) = 16384 /\ Pow(15) = 32768
BY DEF Pow

LEMMA Powers ==
  ASSUME NEW d \in 0..15, NEW e \in 0..15
  PROVE  /\ Pow(e) \in Nat
         /\ Pow(e) >= 64 <=> e >= 6
         /\ Pow(e) <= 8192 <=> e <= 13
         /\ Pow(d) >= Pow(e) <=> d >= e
<1>1. \A n \in 0..15 :
        \/ n = 0 \/ n = 1 \/ n = 2 \/ n = 3 \/ n = 4 \/ n = 5 \/ n = 6 \/ n = 7
        \/ n = 8 \/ n = 9 \/ n = 10 \/ n = 11 \/ n = 12 \/ n = 13 \/ n = 14
        \/ n = 15
  OBVIOUS
<1>2. Pow(e) >= 64 <=> e >= 6
  BY <1>1, Values
<1>3. Pow(e) <= 8192 <=> e <= 13
  BY <1>1, Values
<1>4. Pow(d) >= Pow(e) <=> d >= e
  BY <1>1, Values, SMTT(60)
<1>5. Pow(e) \in Nat
  BY <1>1, Values
<1> QED BY <1>2, <1>3, <1>4, <1>5

(* The first of the two promises of ParsersAgree, and the second.          *)
LEMMA Agreement ==
  ASSUME NEW h \in Sent
  PROVE  /\ Unpackable(h.ident) => parse_vorbis_identification(h.ident) = "OK"
         /\ parse_vorbis_identification(h.ident) = "OK"
              => Unpackable(h.ident) \/ h.ident.rate > LongMax
<1> DEFINE p == h.ident
<1>1. /\ p.rate \in Nat /\ p.bytes \in Nat /\ p.channels \in Nat
      /\ p.exp0 \in 0..15 /\ p.exp1 \in 0..15 /\ LongMax \in Nat
      /\ p.magic \in BOOLEAN /\ p.framing \in {0, 1}
  BY HeadersAssumption
<1>2. (2 ^ p.exp0 >= 64 /\ 2 ^ p.exp1 >= 2 ^ p.exp0 /\ 2 ^ p.exp1 <= 8192)
        <=> ~(p.exp0 \notin 6..13 \/ p.exp1 \notin 6..13 \/ p.exp0 > p.exp1)
  <2> DEFINE a == p.exp0
             b == p.exp1
  <2>1. a \in 0..15 /\ b \in 0..15
    BY <1>1
  <2> HIDE DEF a, b
  <2>2. /\ Pow(a) >= 64 <=> a >= 6
        /\ Pow(b) <= 8192 <=> b <= 13
        /\ Pow(b) >= Pow(a) <=> b >= a
    BY <2>1, Powers
  <2>3. (a >= 6 /\ b >= a /\ b <= 13)
          <=> ~(a \notin 6..13 \/ b \notin 6..13 \/ a > b)
    BY <2>1
  <2> QED BY <2>2, <2>3 DEF a, b, Pow
<1>3. /\ p.rate = 0 => ~(Signed(p.rate) >= 1)
      /\ p.rate # 0 /\ ~(p.rate > LongMax) => Signed(p.rate) >= 1
  BY <1>1 DEF Signed
<1> HIDE DEF p
<1> QED BY <1>1, <1>2, <1>3 DEF Unpackable, parse_vorbis_identification, p

-----------------------------------------------------------------------------
(* What vorbis_info_clear finds in a codec setup.                          *)

Owned(k, c) ==
  UNION {InfoBlocks(c, i, k.type[c][i]) :
           i \in {j \in 1..k.count[c] : j <= Len(k.param[c])}}
Cleared(k) ==
  {Table("codec_setup"), Table("book_param")}
    \cup {<<"books", i, "book">> : i \in 1..Len(k.book_param)}
    \cup UNION {Tables(c) \cup Owned(k, c) : c \in Sections}

LEMMA ClearedAre ==
  ClearedBlocks = Cleared(ci) /\ ClearedBlocks' = Cleared(ci')
BY DEF ClearedBlocks, Cleared, Owned, StructBlocks, BookBlocks

(* A setup that has more structs has more to be freed.                     *)
LEMMA ClearedGrow ==
  ASSUME NEW k \in CodecSetups, NEW l \in CodecSetups,
         Len(k.book_param) <= Len(l.book_param),
         \A c \in Sections : /\ Len(k.param[c]) <= Len(l.param[c])
                             /\ Len(l.param[c]) <= l.count[c]
                             /\ \A i \in 1..Len(k.param[c]) :
                                  l.type[c][i] = k.type[c][i]
  PROVE  Cleared(k) \subseteq Cleared(l)
<1>1. Len(k.book_param) \in Nat /\ Len(l.book_param) \in Nat
  BY DEF CodecSetups
<1>2. ASSUME NEW c \in Sections PROVE Owned(k, c) \subseteq Owned(l, c)
  <2>1. /\ Len(k.param[c]) \in Nat /\ Len(l.param[c]) \in Nat
        /\ k.count[c] \in Nat /\ l.count[c] \in Nat
    BY DEF CodecSetups
  <2> SUFFICES ASSUME NEW i \in 1..k.count[c], i <= Len(k.param[c])
               PROVE  /\ InfoBlocks(c, i, k.type[c][i]) = InfoBlocks(c, i, l.type[c][i])
                      /\ i \in {j \in 1..l.count[c] : j <= Len(l.param[c])}
    BY DEF Owned
  <2> QED BY <2>1
<1>3. {<<"books", i, "book">> : i \in 1..Len(k.book_param)}
        \subseteq {<<"books", i, "book">> : i \in 1..Len(l.book_param)}
  BY <1>1
<1> QED BY <1>2, <1>3 DEF Cleared

-----------------------------------------------------------------------------
(* One lemma per step of the headers.                                      *)

LEMMA SetupTypes ==
  ASSUME Types
  PROVE  /\ ci.books \in Nat /\ ci.book_param \in Seq(Nat)
         /\ ci.count \in [Sections -> Nat]
         /\ ci.type \in [Sections -> Seq(Nat)]
         /\ ci.param \in [Sections -> Seq(Infos)]
         /\ \A c \in Sections : /\ Len(ci.type[c]) \in Nat
                                /\ Len(ci.param[c]) \in Nat
BY DEF Types, CodecSetups

LEMMA Zeroes ==
  /\ ZeroedSetup \in CodecSetups
  /\ NoInfo \in [channels : Nat, blocksizes : [{0, 1} -> Nat]]
  /\ \A c \in Sections : /\ ZeroedSetup.count[c] = 0
                         /\ ZeroedSetup.type[c] = <<>>
                         /\ ZeroedSetup.param[c] = <<>>
<1>1. /\ ZeroedSetup.books = 0 /\ ZeroedSetup.book_param = <<>>
      /\ ZeroedSetup.count = [c \in Sections |-> 0]
      /\ ZeroedSetup.type = [c \in Sections |-> <<>>]
      /\ ZeroedSetup.param = [c \in Sections |-> <<>>]
  BY DEF ZeroedSetup
<1>2. /\ <<>> \in Seq(Nat) /\ <<>> \in Seq(Infos) /\ 0 \in Nat
  OBVIOUS
<1>3. ZeroedSetup \in CodecSetups
  BY <1>2 DEF ZeroedSetup, CodecSetups
<1>4. NoInfo \in [channels : Nat, blocksizes : [{0, 1} -> Nat]]
  BY DEF NoInfo
<1> QED BY <1>1, <1>3, <1>4

(* Whatever was left in it, an empty setup in order.                       *)
LEMMA EmptySetup ==
  ASSUME HInv, sent' = sent, section' = section, ci' = ZeroedSetup,
         vi' = NoInfo, pc' \in Closed, heap' = {}
  PROVE  HInv'
<1>1. \A c \in Sections :
        /\ ci'.count[c] = 0 /\ ci'.type[c] = <<>> /\ ci'.param[c] = <<>>
        /\ Len(ci'.type[c]) = 0 /\ Len(ci'.param[c]) = 0
  BY Zeroes
<1>2. Types'
  BY Zeroes DEF HInv, Types
<1>3. Lists'
  <2>1. pc' # "fields"
    BY DEF Closed
  <2>2. \A i \in 1..0 : FALSE
    OBVIOUS
  <2> QED BY <1>1, <2>1, <2>2 DEF Lists
<1>4. InOrder'
  <2>1. /\ \A c \in Later[section] : c \in Sections
        /\ \A c \in Before(section) : c \in Sections
    BY DEF HInv, Types, Later, Before, Sections
  <2> QED BY <1>1, <2>1 DEF InOrder, Empty, Full, Closed, Early, Accepted, InArena
<1>5. Ranges'
  BY <1>1 DEF Ranges, Sections
<1>6. Memory'
  BY <1>1 DEF Memory, Closed
<1> QED BY <1>2, <1>3, <1>4, <1>5, <1>6 DEF HInv

LEMMA RefuseStep ==
  ASSUME HInv, pc \in Unpacking,
         NEW got, got \subseteq PartBlocks \cup ClearedBlocks, Refuse(got)
  PROVE  HInv'
<1>1. heap' = {}
  BY DEF HInv, Memory, Refuse, Unpacking, InArena, Early
<1> QED BY <1>1, EmptySetup DEF Refuse, Closed

(* Steps that change where the unpacking stands, and memory, but nothing   *)
(* that was unpacked, outside of a struct.                                 *)
LEMMA SameSetup ==
  ASSUME HInv, ci' = ci, vi' = vi, sent' = sent,
         pc # "fields", pc' # "fields", pc' \in Unpacking \cup Accepted \cup Closed,
         section' \in Sections
  PROVE  /\ Types' /\ Lists' /\ Ranges'
         /\ ClearedBlocks' = ClearedBlocks
         /\ PartBlocks = {} /\ PartBlocks' = {}
<1>1. Types'
  BY DEF HInv, Types
<1>2. Lists'
  BY DEF HInv, Lists
<1>3. Ranges'
  BY DEF HInv, Ranges, MappingOK, ModeOK
<1> QED BY <1>1, <1>2, <1>3, ClearedAre DEF PartBlocks

LEMMA ParseStep ==
  ASSUME HInv, ParseIdentification
  PROVE  HInv'
<1> USE DEF ParseIdentification
<1>1. /\ pc' \in {"init", "refused"} /\ pc = "parse" /\ section = "times"
      /\ pc' = "init" => parse_vorbis_identification(sent.ident) = "OK"
      /\ parse_vorbis_identification(sent'.ident)
           = parse_vorbis_identification(sent.ident)
  BY DEF HInv, InOrder, Early
<1>2. /\ Types' /\ Lists' /\ Ranges' /\ ClearedBlocks' = ClearedBlocks
      /\ PartBlocks = {} /\ PartBlocks' = {}
  <2>1. section' \in Sections
    BY DEF HInv, Types
  <2> QED BY <1>1, <2>1, SameSetup DEF Unpacking, Early, Closed
<1>3. InOrder'
  BY <1>1 DEF HInv, InOrder, Early, Accepted, InArena, Empty, Full
<1>4. Memory'
  BY <1>1, <1>2 DEF HInv, Memory, InArena, Closed
<1> QED BY <1>2, <1>3, <1>4 DEF HInv

LEMMA InfoInitStep ==
  ASSUME HInv, vorbis_info_init
  PROVE  HInv'
<1>1. CASE Refuse({})
  BY <1>1, RefuseStep DEF vorbis_info_init, Unpacking, Early
<1>2. CASE /\ heap' = heap \cup {Table("codec_setup")} /\ pc' = "info"
           /\ UNCHANGED <<sent, vi, section, ci, part>>
  <2>1. pc = "init" /\ section = "times" /\ section' \in Sections
    BY <1>2 DEF vorbis_info_init, HInv, InOrder, Early, Types
  <2>2. /\ Types' /\ Lists' /\ Ranges' /\ ClearedBlocks' = ClearedBlocks
        /\ PartBlocks = {} /\ PartBlocks' = {}
    BY <1>2, <2>1, SameSetup DEF Unpacking, Early
  <2>3. InOrder'
    BY <1>2, <2>1 DEF HInv, InOrder, Early, Accepted, InArena, Empty, Full,
                      parse_vorbis_identification
  <2>4. Table("codec_setup") \in ClearedBlocks
    BY DEF ClearedBlocks
  <2>5. Memory'
    BY <1>2, <2>1, <2>2, <2>4 DEF HInv, Memory, InArena, Closed
  <2> QED BY <2>2, <2>3, <2>5 DEF HInv
<1> QED BY <1>1, <1>2 DEF vorbis_info_init

LEMMA UnpackInfoStep ==
  ASSUME HInv, UnpackInfo
  PROVE  HInv'
<1>1. CASE Refuse({})
  BY <1>1, RefuseStep DEF UnpackInfo, Unpacking, Early
<1>2. CASE ~Refuse({})
  <2>1. /\ pc = "info" /\ pc' = "books" /\ section = "times"
        /\ vi' = [channels |-> sent.ident.channels,
                  blocksizes |-> [f \in {0, 1} |->
                     2 ^ (IF f = 0 THEN sent.ident.exp0 ELSE sent.ident.exp1)]]
        /\ UNCHANGED <<sent, section, ci, part, heap>>
    BY <1>2 DEF UnpackInfo, HInv, InOrder, Early
  <2>2. /\ sent.ident.channels \in Nat
        /\ sent.ident.exp0 \in 0..15 /\ sent.ident.exp1 \in 0..15
    BY HeadersAssumption DEF HInv, Types
  <2>3. vi' \in [channels : Nat, blocksizes : [{0, 1} -> Nat]]
    <3>1. ASSUME NEW e \in 0..15 PROVE 2 ^ e \in Nat
      <4>1. Pow(e) \in Nat
        BY Powers
      <4> QED BY <4>1 DEF Pow
    <3>2. ASSUME NEW f \in {0, 1}
          PROVE  2 ^ (IF f = 0 THEN sent.ident.exp0 ELSE sent.ident.exp1) \in Nat
      <4>1. (IF f = 0 THEN sent.ident.exp0 ELSE sent.ident.exp1) \in 0..15
        BY <2>2
      <4> QED BY <3>1, <4>1
    <3>3. [f \in {0, 1} |->
             2 ^ (IF f = 0 THEN sent.ident.exp0 ELSE sent.ident.exp1)]
            \in [{0, 1} -> Nat]
      BY <3>2
    <3> QED BY <2>1, <2>2, <3>3
  <2>4. Types'
    BY <2>1, <2>3 DEF HInv, Types, Unpacking, Early
  <2>5. \A c \in Sections : Empty(c)
    BY <2>1 DEF HInv, InOrder, Early, Later, Sections
  <2>6. Lists' /\ Ranges'
    BY <2>1, <2>5 DEF HInv, Lists, Ranges, Empty, Sections
  <2>7. InOrder'
    BY <2>1 DEF HInv, InOrder, Early, Accepted, InArena, Empty, Full
  <2>8. Memory'
    BY <2>1, ClearedAre DEF HInv, Memory, InArena, Closed, PartBlocks
  <2> QED BY <2>4, <2>6, <2>7, <2>8 DEF HInv
<1> QED BY <1>1, <1>2

LEMMA StartBooksStep ==
  ASSUME HInv, StartBooks
  PROVE  HInv'
<1>1. CASE Refuse({})
  BY <1>1, RefuseStep DEF StartBooks, Unpacking, Early
<1>2. CASE ~Refuse({})
  <2>1. PICK n \in sent.count["books"] :
          /\ pc = "books" /\ pc' = "book" /\ section = "times"
          /\ ci' = [ci EXCEPT !.books = n]
          /\ heap' = heap \cup {Table("book_param")}
          /\ UNCHANGED <<sent, vi, section, part>>
    BY <1>2 DEF StartBooks, HInv, InOrder, Early
  <2>2. n \in Nat
    BY <2>1, HeadersAssumption DEF HInv, Types
  <2>3. /\ ci' \in CodecSetups
        /\ ci'.book_param = ci.book_param /\ ci'.count = ci.count
        /\ ci'.type = ci.type /\ ci'.param = ci.param
    BY <2>1, <2>2 DEF HInv, Types, CodecSetups
  <2>4. Types'
    BY <2>1, <2>3 DEF HInv, Types, Unpacking, Early
  <2>5. Lists'
    BY <2>1, <2>3 DEF HInv, Lists
  <2>6. Ranges'
    <3>1. \A c \in Sections : ci'.param[c] = <<>>
      BY <2>1, <2>3 DEF HInv, InOrder, Early, Later, Sections, Empty
    <3> QED BY <3>1 DEF Ranges, Sections
  <2>7. InOrder'
    BY <2>1, <2>3 DEF HInv, InOrder, Early, Accepted, InArena, Empty, Full
  <2>8. ClearedBlocks' = ClearedBlocks
    BY <2>3 DEF ClearedBlocks, StructBlocks, BookBlocks
  <2>9. Memory'
    <3>1. Table("book_param") \in ClearedBlocks
      BY DEF ClearedBlocks
    <3> QED BY <2>1, <2>3, <2>8, <3>1
            DEF HInv, Memory, InArena, Closed, PartBlocks
  <2> QED BY <2>4, <2>5, <2>6, <2>7, <2>9 DEF HInv
<1> QED BY <1>1, <1>2

LEMMA UnpackBookStep ==
  ASSUME HInv, UnpackBook
  PROVE  HInv'
<1>1. CASE Refuse({})
  BY <1>1, RefuseStep DEF UnpackBook, Unpacking, Early
<1>2. CASE ~Refuse({})
  <2>1. PICK t \in 0..3 :
          /\ pc = "book" /\ pc' = "book" /\ section = "times"
          /\ ci' = [ci EXCEPT !.book_param = Append(@, t)]
          /\ heap' = heap \cup {<<"books", Len(ci.book_param) + 1, "book">>}
          /\ UNCHANGED <<sent, vi, section, part>>
    BY <1>2 DEF UnpackBook, HInv, InOrder, Early
  <2>2. /\ ci.book_param \in Seq(Nat) /\ t \in Nat
        /\ Append(ci.book_param, t) \in Seq(Nat)
        /\ Len(Append(ci.book_param, t)) = Len(ci.book_param) + 1
    BY SetupTypes DEF HInv
  <2>3. /\ ci' \in CodecSetups
        /\ ci'.book_param = Append(ci.book_param, t) /\ ci'.count = ci.count
        /\ ci'.type = ci.type /\ ci'.param = ci.param
    BY <2>1, <2>2 DEF HInv, Types, CodecSetups
  <2>4. Types'
    BY <2>1, <2>3 DEF HInv, Types, Unpacking, Early
  <2>5. Lists'
    BY <2>1, <2>3 DEF HInv, Lists
  <2>6. Ranges'
    <3>1. \A c \in Sections : ci'.param[c] = <<>>
      BY <2>1, <2>3 DEF HInv, InOrder, Early, Later, Sections, Empty
    <3> QED BY <3>1 DEF Ranges, Sections
  <2>7. InOrder'
    BY <2>1, <2>3 DEF HInv, InOrder, Early, Accepted, InArena, Empty, Full
  <2>8. Memory'
    <3>1. ClearedBlocks \subseteq ClearedBlocks'
      <4>1. ci \in CodecSetups /\ Len(ci.book_param) <= Len(ci'.book_param)
        BY <2>2, <2>3 DEF HInv, Types
      <4>2. \A c \in Sections : Len(ci'.param[c]) <= ci'.count[c]
        BY <2>5 DEF Lists
      <4>3. \A c \in Sections : Len(ci.param[c]) <= Len(ci'.param[c])
        BY <2>3, SetupTypes DEF HInv
      <4> QED BY <2>3, <4>1, <4>2, <4>3, ClearedAre, ClearedGrow
    <3>2. <<"books", Len(ci.book_param) + 1, "book">> \in ClearedBlocks'
      <4>1. Len(ci'.book_param) = Len(ci.book_param) + 1
            /\ Len(ci.book_param) \in Nat
        BY <2>2, <2>3
      <4>2. Len(ci.book_param) + 1 \in 1..Len(ci'.book_param)
        BY <4>1
      <4> QED BY <4>2 DEF ClearedBlocks, BookBlocks
    <3>3. heap' \subseteq ClearedBlocks'
      BY <2>1, <3>1, <3>2 DEF HInv, Memory, PartBlocks, InArena
    <3> QED BY <2>1, <2>3, <3>3 DEF HInv, Memory, InArena, Closed, PartBlocks
  <2> QED BY <2>4, <2>5, <2>6, <2>7, <2>8 DEF HInv
<1> QED BY <1>1, <1>2

LEMMA BooksUnpackedStep ==
  ASSUME HInv, BooksUnpacked
  PROVE  HInv'
<1> USE DEF BooksUnpacked
<1>1. /\ pc = "book" /\ pc' = "section" /\ section = "times" /\ section' = "times"
      /\ section' \in Sections
  BY DEF HInv, InOrder, Early, Sections
<1>2. /\ Types' /\ Lists' /\ Ranges' /\ ClearedBlocks' = ClearedBlocks
      /\ PartBlocks = {} /\ PartBlocks' = {}
  BY <1>1, SameSetup DEF Unpacking
<1>3. InOrder'
  BY <1>1 DEF HInv, InOrder, Early, Accepted, InArena, Empty, Full
<1>4. Memory'
  BY <1>1, <1>2 DEF HInv, Memory, InArena, Closed
<1> QED BY <1>2, <1>3, <1>4 DEF HInv

LEMMA StartSectionStep ==
  ASSUME HInv, StartSection
  PROVE  HInv'
<1>0. Tables(section) \subseteq ClearedBlocks
  BY DEF HInv, Types, ClearedBlocks
<1>1. CASE SomeFail(Tables(section))
  BY <1>0, <1>1, RefuseStep DEF StartSection, SomeFail, Unpacking
<1>2. CASE ~SomeFail(Tables(section))
  <2>1. PICK n \in sent.count[section] :
          /\ pc = "section" /\ pc' = "element"
          /\ ci' = [ci EXCEPT !.count[section] = n]
          /\ heap' = heap \cup Tables(section)
          /\ UNCHANGED <<sent, vi, section, part>>
    BY <1>2 DEF StartSection
  <2>2. n \in Nat \ {0} /\ section \in Sections /\ Empty(section)
    BY <2>1, HeadersAssumption DEF HInv, Types, InOrder
  <2>3. /\ ci' \in CodecSetups /\ ci'.books = ci.books
        /\ ci'.book_param = ci.book_param
        /\ ci'.count = [ci.count EXCEPT ![section] = n]
        /\ ci'.type = ci.type /\ ci'.param = ci.param
    BY <2>1, <2>2 DEF HInv, Types, CodecSetups
  <2>4. /\ ci'.count[section] = n
        /\ \A c \in Sections \ {section} : ci'.count[c] = ci.count[c]
    BY <2>2, <2>3, SetupTypes DEF HInv
  <2>5. Types'
    BY <2>1, <2>3 DEF HInv, Types, Unpacking
  <2>6. Lists'
    BY <2>1, <2>2, <2>3, <2>4 DEF HInv, Lists, Empty
  <2>7. InOrder'
    <3>1. section \notin Later[section] /\ section \notin Before(section)
      BY <2>2 DEF Sections, Later, Before
    <3>2. \A c \in Later[section] \cup Before(section) : c \in Sections \ {section}
      BY <2>2, <3>1 DEF Sections, Later, Before
    <3> QED BY <2>1, <2>3, <2>4, <3>2
            DEF HInv, InOrder, Early, Accepted, InArena, Empty, Full
  <2>8. Ranges'
    <3>1. section \in {"floors", "residues"} => ci.param["maps"] = <<>>
      BY <2>1 DEF HInv, InOrder, Later, Empty
    <3>2. section = "maps" => ci.param["modes"] = <<>>
      BY <2>1 DEF HInv, InOrder, Later, Empty
    <3>3. section = "maps" => ci.param["maps"] = <<>>
      BY <2>2 DEF Empty
    <3>4. \A i \in 1..Len(ci.param["maps"]) : MappingOK(ci.param["maps"][i])'
      <4>1. CASE section \in {"floors", "residues"}
        BY <3>1, <4>1
      <4>2. CASE section \notin {"floors", "residues"}
        BY <2>1, <2>3, <2>4, <4>2 DEF HInv, Ranges, MappingOK, Sections
      <4> QED BY <4>1, <4>2
    <3>5. \A i \in 1..Len(ci.param["modes"]) : ModeOK(ci.param["modes"][i])'
      <4>1. CASE section = "maps"
        BY <3>2, <4>1
      <4>2. CASE section # "maps"
        BY <2>1, <2>3, <2>4, <4>2 DEF HInv, Ranges, ModeOK, Sections
      <4> QED BY <4>1, <4>2
    <3> QED BY <2>3, <3>4, <3>5 DEF HInv, Ranges, MappingOK, ModeOK
  <2>9. Memory'
    <3>1. ClearedBlocks \subseteq ClearedBlocks'
      <4>1. ci \in CodecSetups /\ Len(ci.book_param) <= Len(ci'.book_param)
        BY <2>3 DEF HInv, Types, CodecSetups
      <4>2. \A c \in Sections : Len(ci'.param[c]) <= ci'.count[c]
        BY <2>6 DEF Lists
      <4>3. \A c \in Sections : Len(ci.param[c]) <= Len(ci'.param[c])
        BY <2>3, SetupTypes DEF HInv
      <4> QED BY <2>3, <4>1, <4>2, <4>3, ClearedAre, ClearedGrow
    <3>2. heap' \subseteq ClearedBlocks'
      BY <1>0, <2>1, <3>1 DEF HInv, Memory, PartBlocks, InArena
    <3>3. \A c \in Sections : ci'.count[c] > 0 => Tables(c) \subseteq heap'
      BY <2>1, <2>4 DEF HInv, Memory
    <3> QED BY <2>1, <3>2, <3>3 DEF Memory, InArena, Closed
  <2> QED BY <2>5, <2>6, <2>7, <2>8, <2>9 DEF HInv
<1> QED BY <1>1, <1>2

LEMMA Appended ==
  ASSUME NEW S, NEW s \in Seq(S), NEW x \in S
  PROVE  /\ Append(s, x) \in Seq(S) /\ Len(s) \in Nat
         /\ Len(Append(s, x)) = Len(s) + 1
         /\ \A i \in 1..Len(s) : Append(s, x)[i] = s[i]
         /\ Append(s, x)[Len(s) + 1] = x
OBVIOUS

(* A type, or a struct, or both are added to a section; the rest stays.    *)
LEMMA Extended ==
  ASSUME HInv, ci' \in CodecSetups,
         ci'.book_param = ci.book_param, ci'.count = ci.count,
         \A c \in Sections : /\ Len(ci.param[c]) <= Len(ci'.param[c])
                             /\ \A i \in 1..Len(ci.param[c]) :
                                  ci'.type[c][i] = ci.type[c][i],
         Lists'
  PROVE  ClearedBlocks \subseteq ClearedBlocks'
<1>1. ci \in CodecSetups /\ Len(ci.book_param) <= Len(ci'.book_param)
  BY SetupTypes DEF HInv, Types
<1>2. \A c \in Sections : Len(ci'.param[c]) <= ci'.count[c]
  BY DEF Lists
<1> QED BY <1>1, <1>2, ClearedAre, ClearedGrow

(* The checks of a struct depend on counts and channels alone.             *)
LEMMA SameRanges ==
  ASSUME Ranges, vi' = vi, ci'.count = ci.count,
         ci'.param["floors"] = ci.param["floors"],
         ci'.param["maps"] = ci.param["maps"],
         ci'.param["modes"] = ci.param["modes"],
         \A i \in 1..Len(ci.param["floors"]) :
           ci'.type["floors"][i] = ci.type["floors"][i]
  PROVE  Ranges'
<1>1. (\A i \in 1..Len(ci.param["floors"]) :
         ci.type["floors"][i] = 0 => ci.param["floors"][i].barkmap \in Nat)'
  BY DEF Ranges
<1>2. (\A i \in 1..Len(ci.param["maps"]) : MappingOK(ci.param["maps"][i]))'
  <2>1. ASSUME NEW i \in 1..Len(ci.param["maps"])
        PROVE  MappingOK(ci.param["maps"][i])'
    <3>1. MappingOK(ci.param["maps"][i])
      BY DEF Ranges
    <3> QED BY <3>1 DEF MappingOK
  <2> QED BY <2>1
<1>3. (\A i \in 1..Len(ci.param["modes"]) : ModeOK(ci.param["modes"][i]))'
  <2>1. ASSUME NEW i \in 1..Len(ci.param["modes"])
        PROVE  ModeOK(ci.param["modes"][i])'
    <3>1. ModeOK(ci.param["modes"][i])
      BY DEF Ranges
    <3> QED BY <3>1 DEF ModeOK
  <2> QED BY <2>1
<1> QED BY <1>1, <1>2, <1>3 DEF Ranges

LEMMA ReadTimeStep ==
  ASSUME HInv, ReadTime
  PROVE  HInv'
<1>1. CASE Refuse({})
  BY <1>1, RefuseStep DEF ReadTime, Unpacking
<1>2. CASE ~Refuse({})
  <2>1. PICK t \in sent.type["times"] :
          /\ pc = "element" /\ section = "times" /\ InComplete
          /\ t \in Backends["times"]
          /\ ci' = [ci EXCEPT !.type["times"] = Append(@, t),
                              !.param["times"] = Append(@, t)]
          /\ UNCHANGED <<sent, pc, vi, section, part, heap>>
    BY <1>2 DEF ReadTime
  <2>2. t \in Nat /\ t \in Infos
    <3>1. t \in Nat
      BY <2>1, HeadersAssumption DEF HInv, Types
    <3> QED BY <3>1 DEF Infos
  <2> DEFINE types == Append(ci.type["times"], t)
             params == Append(ci.param["times"], t)
  <2>3. /\ types \in Seq(Nat) /\ params \in Seq(Infos)
        /\ Len(types) = Len(ci.type["times"]) + 1
        /\ Len(params) = Len(ci.param["times"]) + 1
        /\ \A i \in 1..Len(ci.type["times"]) : types[i] = ci.type["times"][i]
        /\ types[Len(ci.type["times"]) + 1] = t
    <3>1. ci.type["times"] \in Seq(Nat) /\ ci.param["times"] \in Seq(Infos)
      BY SetupTypes DEF HInv, Sections
    <3> QED BY <2>2, <3>1, Appended
  <2> HIDE DEF types, params
  <2>4. /\ ci' \in CodecSetups
        /\ ci'.book_param = ci.book_param /\ ci'.count = ci.count
        /\ ci'.type = [ci.type EXCEPT !["times"] = types]
        /\ ci'.param = [ci.param EXCEPT !["times"] = params]
    BY <2>1, <2>3 DEF HInv, Types, CodecSetups, Sections, types, params
  <2>5. /\ ci'.type["times"] = types /\ ci'.param["times"] = params
        /\ \A c \in Sections \ {"times"} : /\ ci'.type[c] = ci.type[c]
                                           /\ ci'.param[c] = ci.param[c]
    BY <2>4, SetupTypes DEF HInv, Sections
  <2>6. Types'
    BY <2>1, <2>4 DEF HInv, Types
  <2>7. /\ "times" \in Sections /\ Len(ci.type["times"]) = Len(ci.param["times"])
        /\ Len(ci.param["times"]) < ci.count["times"]
        /\ Len(ci.param["times"]) \in Nat /\ ci.count["times"] \in Nat
    BY <2>1, SetupTypes DEF HInv, Lists, InComplete, Sections
  <2>8. Lists'
    <3>1. ASSUME NEW c \in Sections \ {"times"}
          PROVE  /\ Len(ci'.type[c]) =
                      Len(ci'.param[c]) + (IF pc' = "fields" /\ c = section' THEN 1 ELSE 0)
                 /\ Len(ci'.param[c]) <= ci'.count[c]
                 /\ \A i \in 1..Len(ci'.type[c]) : ci'.type[c][i] \in Backends[c]
      BY <2>1, <2>4, <2>5, <3>1 DEF HInv, Lists
    <3>2. /\ Len(ci'.type["times"]) = Len(ci'.param["times"]) + 0
          /\ Len(ci'.param["times"]) <= ci'.count["times"]
      BY <2>3, <2>4, <2>5, <2>7
    <3>3. ASSUME NEW i \in 1..Len(ci'.type["times"])
          PROVE  ci'.type["times"][i] \in Backends["times"]
      <4>1. i \in 1..Len(ci.type["times"]) \/ i = Len(ci.type["times"]) + 1
        BY <2>3, <2>5, <2>7
      <4> QED BY <2>1, <2>3, <2>5, <2>7, <4>1 DEF HInv, Lists
    <3> QED BY <2>1, <3>1, <3>2, <3>3 DEF Lists
  <2>9. InOrder'
    <3>1. "times" \notin Later["times"] /\ Before("times") = {}
      BY DEF Later, Before, Sections
    <3>2. \A c \in Later["times"] : c \in Sections \ {"times"}
      BY DEF Later, Sections
    <3> QED BY <2>1, <2>4, <2>5, <3>1, <3>2
            DEF HInv, InOrder, Early, Accepted, InArena, Empty, Full
  <2>10. Ranges'
    BY <2>1, <2>4, <2>5, SameRanges DEF HInv, Sections
  <2>11. Memory'
    <3>1. \A c \in Sections : /\ Len(ci.param[c]) <= Len(ci'.param[c])
                              /\ \A i \in 1..Len(ci.param[c]) :
                                   ci'.type[c][i] = ci.type[c][i]
      <4> TAKE c \in Sections
      <4>1. CASE c = "times"
        BY <2>3, <2>5, <2>7, <4>1
      <4>2. CASE c # "times"
        BY <2>5, <4>2, SetupTypes DEF HInv
      <4> QED BY <4>1, <4>2
    <3>2. ClearedBlocks \subseteq ClearedBlocks'
      BY <2>4, <2>8, <3>1, Extended
    <3> QED BY <2>1, <2>4, <3>2 DEF HInv, Memory, PartBlocks, InArena, Closed
  <2> QED BY <2>6, <2>8, <2>9, <2>10, <2>11 DEF HInv
<1> QED BY <1>1, <1>2

LEMMA ReadTypeStep ==
  ASSUME HInv, ReadType
  PROVE  HInv'
<1>1. CASE Refuse({})
  BY <1>1, RefuseStep DEF ReadType, Unpacking
<1>2. CASE ~Refuse({})
  <2>1. PICK t \in sent.type[section] :
          /\ pc = "element" /\ section # "times" /\ InComplete
          /\ t \in Backends[section]
          /\ ci' = [ci EXCEPT !.type[section] = Append(@, t)]
          /\ part' \in FieldLists(section, t) /\ pc' = "fields"
          /\ UNCHANGED <<sent, vi, section, heap>>
    BY <1>2 DEF ReadType
  <2>2. t \in Nat /\ section \in Sections
    BY <2>1, HeadersAssumption DEF HInv, Types
  <2> DEFINE types == Append(ci.type[section], t)
  <2>3. /\ types \in Seq(Nat) /\ Len(types) = Len(ci.type[section]) + 1
        /\ \A i \in 1..Len(ci.type[section]) : types[i] = ci.type[section][i]
        /\ types[Len(ci.type[section]) + 1] = t
    <3>1. ci.type[section] \in Seq(Nat)
      BY <2>2, SetupTypes DEF HInv
    <3> QED BY <2>2, <3>1, Appended
  <2> HIDE DEF types
  <2>4. /\ ci' \in CodecSetups
        /\ ci'.book_param = ci.book_param /\ ci'.count = ci.count
        /\ ci'.type = [ci.type EXCEPT ![section] = types]
        /\ ci'.param = ci.param
    BY <2>1, <2>2, <2>3 DEF HInv, Types, CodecSetups, types
  <2>5. /\ ci'.type[section] = types
        /\ \A c \in Sections \ {section} : ci'.type[c] = ci.type[c]
    BY <2>2, <2>4, SetupTypes DEF HInv
  <2>6. Types'
    BY <2>1, <2>4 DEF HInv, Types, Unpacking
  <2>7. /\ Len(ci.type[section]) = Len(ci.param[section])
        /\ Len(ci.param[section]) < ci.count[section]
        /\ Len(ci.param[section]) \in Nat /\ ci.count[section] \in Nat
    BY <2>1, <2>2, SetupTypes DEF HInv, Lists, InComplete
  <2>8. Lists'
    <3>1. ASSUME NEW c \in Sections \ {section}
          PROVE  /\ Len(ci'.type[c]) =
                      Len(ci'.param[c]) + (IF pc' = "fields" /\ c = section' THEN 1 ELSE 0)
                 /\ Len(ci'.param[c]) <= ci'.count[c]
                 /\ \A i \in 1..Len(ci'.type[c]) : ci'.type[c][i] \in Backends[c]
      BY <2>1, <2>4, <2>5, <3>1 DEF HInv, Lists
    <3>2. /\ Len(ci'.type[section]) = Len(ci'.param[section]) + 1
          /\ Len(ci'.param[section]) <= ci'.count[section]
      BY <2>3, <2>4, <2>5, <2>7
    <3>3. ASSUME NEW i \in 1..Len(ci'.type[section])
          PROVE  ci'.type[section][i] \in Backends[section]
      <4>1. i \in 1..Len(ci.type[section]) \/ i = Len(ci.type[section]) + 1
        BY <2>3, <2>5, <2>7
      <4> QED BY <2>1, <2>2, <2>3, <2>5, <2>7, <4>1 DEF HInv, Lists
    <3> QED BY <2>1, <3>1, <3>2, <3>3 DEF Lists
  <2>9. InOrder'
    <3>1. \A c \in Later[section] \cup Before(section) : c \in Sections \ {section}
      BY <2>2 DEF Later, Before, Sections
    <3> QED BY <2>1, <2>4, <2>5, <2>7, <3>1
            DEF HInv, InOrder, Early, Accepted, InArena, Empty, Full
  <2>10. Ranges'
    <3>1. \A i \in 1..Len(ci.param["floors"]) :
            ci'.type["floors"][i] = ci.type["floors"][i]
      <4>1. CASE section = "floors"
        BY <2>3, <2>5, <2>7, <4>1
      <4>2. CASE section # "floors"
        BY <2>5, <4>2 DEF Sections
      <4> QED BY <4>1, <4>2
    <3> QED BY <2>1, <2>4, <3>1, SameRanges DEF HInv
  <2>11. Memory'
    <3>1. \A c \in Sections : /\ Len(ci.param[c]) <= Len(ci'.param[c])
                              /\ \A i \in 1..Len(ci.param[c]) :
                                   ci'.type[c][i] = ci.type[c][i]
      <4> TAKE c \in Sections
      <4>1. CASE c = section
        BY <2>3, <2>4, <2>5, <2>7, <4>1
      <4>2. CASE c # section
        BY <2>4, <2>5, <4>2, SetupTypes DEF HInv
      <4> QED BY <4>1, <4>2
    <3>2. ClearedBlocks \subseteq ClearedBlocks'
      BY <2>4, <2>8, <3>1, Extended
    <3>3. ci'.type[section][Len(ci'.type[section])] = t
      BY <2>3, <2>5
    <3>4. FieldLists(section, t) \subseteq Seq(SUBSET InfoFields(section, t))
      <4>1. CASE section = "floors" /\ t = 1
        BY <4>1 DEF FieldLists, InfoFields
      <4>2. CASE section = "residues"
        BY <4>2 DEF FieldLists, InfoFields
      <4>3. CASE section = "maps"
        BY <4>3 DEF FieldLists, InfoFields
      <4>4. CASE ~(section = "floors" /\ t = 1) /\ section \notin {"residues", "maps"}
        <5>1. FieldLists(section, t) = {<<{"info"}>>}
          BY <4>4 DEF FieldLists
        <5>2. InfoFields(section, t) = {"info"}
          BY <4>4 DEF InfoFields
        <5>3. <<{"info"}>> \in Seq(SUBSET {"info"})
          OBVIOUS
        <5> QED BY <5>1, <5>2, <5>3
      <4> QED BY <4>1, <4>2, <4>3, <4>4
    <3> QED BY <2>1, <2>4, <3>2, <3>3, <3>4
            DEF HInv, Memory, PartBlocks, InArena, Closed, Current
  <2> QED BY <2>6, <2>8, <2>9, <2>10, <2>11 DEF HInv
<1> QED BY <1>1, <1>2

LEMMA FieldsAreOwned ==
  ASSUME HInv, pc = "fields", part # <<>>
  PROVE  /\ {<<section, Current, f>> : f \in Head(part)} \subseteq PartBlocks
         /\ Tail(part) \in Seq(SUBSET InfoFields(section, ci.type[section][Current]))
<1> DEFINE F == InfoFields(section, ci.type[section][Current])
<1>1. part \in Seq(SUBSET F)
  BY DEF HInv, Memory
<1> HIDE DEF F
<1>2. Head(part) \subseteq F /\ Tail(part) \in Seq(SUBSET F)
  BY <1>1
<1> QED BY <1>2 DEF PartBlocks, InfoBlocks, Current, F

LEMMA UnpackFieldsStep ==
  ASSUME HInv, UnpackFields
  PROVE  HInv'
<1> DEFINE blocks == {<<section, Current, f>> : f \in Head(part)}
<1>0. /\ blocks \subseteq PartBlocks
      /\ Tail(part) \in Seq(SUBSET InfoFields(section, ci.type[section][Current]))
  BY FieldsAreOwned DEF UnpackFields
<1>1. CASE SomeFail(blocks)
  BY <1>0, <1>1, RefuseStep DEF UnpackFields, SomeFail, Unpacking
<1>2. CASE ~SomeFail(blocks)
  <2>1. /\ pc = "fields" /\ heap' = heap \cup blocks /\ part' = Tail(part)
        /\ UNCHANGED <<sent, pc, vi, section, ci>>
    BY <1>2 DEF UnpackFields
  <2>2. Types' /\ Lists' /\ InOrder'
    BY <2>1 DEF HInv, Types, Lists, InOrder, Empty, Full,
                parse_vorbis_identification, Early, Accepted, InArena
  <2>3. Ranges'
    BY <2>1, SameRanges DEF HInv
  <2>4. Memory'
    <3>1. ClearedBlocks' = ClearedBlocks /\ PartBlocks' = PartBlocks
      BY <2>1, ClearedAre DEF PartBlocks
    <3> HIDE DEF blocks
    <3>2. heap' \subseteq PartBlocks' \cup ClearedBlocks'
      BY <1>0, <2>1, <3>1 DEF HInv, Memory, InArena
    <3>3. \A c \in Sections : ci'.count[c] > 0 => Tables(c) \subseteq heap'
      BY <2>1 DEF HInv, Memory
    <3> QED BY <1>0, <2>1, <3>2, <3>3 DEF Memory, InArena, Closed, Current
  <2> QED BY <2>2, <2>3, <2>4 DEF HInv
<1> QED BY <1>1, <1>2

(* What a struct that is complete was checked for.                         *)
LEMMA CheckedStruct ==
  ASSUME HInv, pc = "fields",
         NEW info \in Structs(section, ci.type[section][Current])
  PROVE  /\ info \in Infos
         /\ section = "floors" /\ ci.type["floors"][Current] = 0
              => info.barkmap \in Nat
         /\ section = "maps" => MappingOK(info)
         /\ section = "modes" => ModeOK(info)
<1>1. /\ sent \in Sent /\ section \in Sections /\ section # "times"
      /\ \A f \in sent.floor0 : f.barkmap \in Nat
  BY HeadersAssumption DEF HInv, Types, InOrder
<1>2. ci.type[section][Current] \in Backends[section]
  <2>1. /\ Len(ci.type[section]) = Len(ci.param[section]) + 1
        /\ Len(ci.param[section]) \in Nat
    BY <1>1, SetupTypes DEF HInv, Lists
  <2>2. Current \in 1..Len(ci.type[section])
    BY <2>1 DEF Current
  <2> QED BY <1>1, <2>2 DEF HInv, Lists
<1>3. sent.floor0 \cup sent.floor1 \cup sent.residue \cup sent.mapping \cup sent.mode
        \subseteq Infos
  BY <1>1 DEF Infos
<1>4. CASE section = "floors"
  <2>1. ci.type["floors"][Current] \in 0..1
    BY <1>2, <1>4 DEF Backends
  <2>2. CASE ci.type["floors"][Current] = 0
    <3>1. info \in sent.floor0
      BY <1>4, <2>2 DEF Structs
    <3> QED BY <1>1, <1>3, <1>4, <3>1
  <2>3. CASE ci.type["floors"][Current] = 1
    <3>1. info \in sent.floor1
      BY <1>4, <2>3 DEF Structs
    <3> QED BY <1>3, <1>4, <2>3, <3>1
  <2> QED BY <2>1, <2>2, <2>3
<1>5. CASE section = "residues"
  <2>1. info \in sent.residue
    BY <1>5 DEF Structs
  <2> QED BY <1>3, <1>5, <2>1
<1>6. CASE section = "maps"
  <2>1. info \in sent.mapping /\ MappingOK(info)
    BY <1>6 DEF Structs
  <2> QED BY <1>3, <1>6, <2>1
<1>7. CASE section = "modes"
  <2>1. info \in sent.mode /\ ModeOK(info)
    BY <1>7 DEF Structs
  <2> QED BY <1>3, <1>7, <2>1
<1> QED BY <1>1, <1>4, <1>5, <1>6, <1>7 DEF Sections

LEMMA CompleteStructStep ==
  ASSUME HInv, CompleteStruct
  PROVE  HInv'
<1>1. CASE Refuse({})
  BY <1>1, RefuseStep DEF CompleteStruct, Unpacking
<1>2. CASE ~Refuse({})
  <2>1. PICK info \in Structs(section, ci.type[section][Current]) :
          /\ pc = "fields" /\ pc' = "element"
          /\ ci' = [ci EXCEPT !.param[section] = Append(@, info)]
          /\ UNCHANGED <<sent, vi, section, part, heap>>
    BY <1>2 DEF CompleteStruct
  <2>2. /\ info \in Infos /\ section \in Sections
        /\ section = "floors" /\ ci.type["floors"][Current] = 0
             => info.barkmap \in Nat
        /\ section = "maps" => MappingOK(info)
        /\ section = "modes" => ModeOK(info)
    BY <2>1, CheckedStruct DEF HInv, Types
  <2> DEFINE params == Append(ci.param[section], info)
             n == Len(ci.param[section])
  <2>3. /\ params \in Seq(Infos) /\ n \in Nat /\ Len(params) = n + 1
        /\ \A i \in 1..n : params[i] = ci.param[section][i]
        /\ params[n + 1] = info
    <3>1. ci.param[section] \in Seq(Infos)
      BY <2>2, SetupTypes DEF HInv
    <3> QED BY <2>2, <3>1, Appended
  <2> HIDE DEF params
  <2>4. /\ ci' \in CodecSetups
        /\ ci'.book_param = ci.book_param /\ ci'.count = ci.count
        /\ ci'.type = ci.type
        /\ ci'.param = [ci.param EXCEPT ![section] = params]
    BY <2>1, <2>2, <2>3 DEF HInv, Types, CodecSetups, params
  <2>5. /\ ci'.param[section] = params
        /\ \A c \in Sections \ {section} : ci'.param[c] = ci.param[c]
    BY <2>2, <2>4, SetupTypes DEF HInv
  <2>6. Types'
    BY <2>1, <2>4 DEF HInv, Types, Unpacking
  <2>7. /\ Len(ci.type[section]) = n + 1 /\ Current = n + 1
        /\ n < ci.count[section] /\ ci.count[section] \in Nat
    <3>1. /\ Len(ci.type[section]) = n + 1 /\ n <= ci.count[section]
          /\ ci.count[section] \in Nat
      BY <2>1, <2>2, SetupTypes DEF HInv, Lists
    <3>2. n # ci.count[section]
      BY <2>1 DEF HInv, InOrder, Full
    <3> QED BY <2>3, <3>1, <3>2 DEF Current
  <2>8. Lists'
    <3>1. ASSUME NEW c \in Sections \ {section}
          PROVE  /\ Len(ci'.type[c]) =
                      Len(ci'.param[c]) + (IF pc' = "fields" /\ c = section' THEN 1 ELSE 0)
                 /\ Len(ci'.param[c]) <= ci'.count[c]
                 /\ \A i \in 1..Len(ci'.type[c]) : ci'.type[c][i] \in Backends[c]
      BY <2>1, <2>4, <2>5, <3>1 DEF HInv, Lists
    <3>2. /\ Len(ci'.type[section]) = Len(ci'.param[section]) + 0
          /\ Len(ci'.param[section]) <= ci'.count[section]
      BY <2>3, <2>4, <2>5, <2>7
    <3>3. \A i \in 1..Len(ci'.type[section]) :
            ci'.type[section][i] \in Backends[section]
      BY <2>2, <2>4 DEF HInv, Lists
    <3> QED BY <2>1, <3>1, <3>2, <3>3 DEF Lists
  <2>9. InOrder'
    <3>1. \A c \in Later[section] \cup Before(section) : c \in Sections \ {section}
      BY <2>2 DEF Later, Before, Sections
    <3> QED BY <2>1, <2>4, <2>5, <3>1
            DEF HInv, InOrder, Early, Accepted, InArena, Empty, Full
  <2>10. Ranges'
    <3>1. \A m : (MappingOK(m)' <=> MappingOK(m)) /\ (ModeOK(m)' <=> ModeOK(m))
      BY <2>1, <2>4 DEF MappingOK, ModeOK
    <3>2. ASSUME NEW c \in Sections, NEW i \in 1..Len(ci'.param[c])
          PROVE  \/ i \in 1..Len(ci.param[c]) /\ ci'.param[c][i] = ci.param[c][i]
                 \/ i = Current /\ c = section /\ ci'.param[c][i] = info
      <4>1. CASE c = section
        BY <2>3, <2>5, <2>7, <4>1
      <4>2. CASE c # section
        BY <2>5, <4>2
      <4> QED BY <4>1, <4>2
    <3>3. \A i \in 1..Len(ci'.param["floors"]) :
            ci'.type["floors"][i] = 0 => ci'.param["floors"][i].barkmap \in Nat
      BY <2>2, <2>4, <3>2 DEF HInv, Ranges, Sections
    <3>4. \A i \in 1..Len(ci'.param["maps"]) : MappingOK(ci'.param["maps"][i])
      BY <2>2, <3>2 DEF HInv, Ranges, Sections
    <3>5. \A i \in 1..Len(ci'.param["modes"]) : ModeOK(ci'.param["modes"][i])
      BY <2>2, <3>2 DEF HInv, Ranges, Sections
    <3> QED BY <2>1, <2>4, <3>3, <3>4, <3>5 DEF Ranges, MappingOK, ModeOK
  <2>11. Memory'
    <3>1. \A c \in Sections : /\ Len(ci.param[c]) <= Len(ci'.param[c])
                              /\ \A i \in 1..Len(ci.param[c]) :
                                   ci'.type[c][i] = ci.type[c][i]
      <4> TAKE c \in Sections
      <4>1. CASE c = section
        BY <2>3, <2>4, <2>5, <4>1
      <4>2. CASE c # section
        BY <2>4, <2>5, <4>2, SetupTypes DEF HInv
      <4> QED BY <4>1, <4>2
    <3>2. ClearedBlocks \subseteq ClearedBlocks'
      BY <2>4, <2>8, <3>1, Extended
    <3>3. PartBlocks \subseteq ClearedBlocks'
      <4>1. PartBlocks = InfoBlocks(section, n + 1, ci'.type[section][n + 1])
        BY <2>1, <2>4, <2>7 DEF PartBlocks
      <4>2. n + 1 \in {j \in 1..ci'.count[section] : j <= Len(ci'.param[section])}
        BY <2>3, <2>4, <2>5, <2>7
      <4>3. PartBlocks \subseteq Owned(ci', section)
        BY <4>1, <4>2 DEF Owned
      <4> QED BY <2>2, <4>3, ClearedAre DEF Cleared
    <3> QED BY <2>1, <2>4, <3>2, <3>3 DEF HInv, Memory, InArena, Closed
  <2> QED BY <2>6, <2>8, <2>9, <2>10, <2>11 DEF HInv
<1> QED BY <1>1, <1>2

LEMMA EndSectionStep ==
  ASSUME HInv, EndSection
  PROVE  HInv'
<1>1. CASE Refuse({})
  BY <1>1, RefuseStep DEF EndSection, Unpacking
<1>2. CASE ~Refuse({})
  <2>1. /\ pc = "element" /\ ~InComplete /\ UNCHANGED <<sent, vi, ci, part, heap>>
        /\ \/ section = "modes" /\ pc' = "accepted" /\ section' = section
           \/ /\ section # "modes" /\ pc' = "section"
              /\ section' = NextSection[section]
    BY <1>2 DEF EndSection
  <2>2. section \in Sections /\ section' \in Sections
    BY <2>1 DEF HInv, Types, Sections, NextSection
  <2>3. /\ Types' /\ Lists' /\ Ranges' /\ ClearedBlocks' = ClearedBlocks
        /\ PartBlocks = {} /\ PartBlocks' = {}
    BY <2>1, <2>2, SameSetup DEF Unpacking, Accepted
  <2>4. Full(section)
    <3>1. /\ Len(ci.param[section]) <= ci.count[section]
          /\ ~(Len(ci.param[section]) < ci.count[section])
      BY <2>1, <2>2 DEF HInv, Lists, InComplete
    <3>2. Len(ci.param[section]) \in Nat /\ ci.count[section] \in Nat
      BY <2>2, SetupTypes DEF HInv
    <3> QED BY <3>1, <3>2 DEF Full
  <2>5. InOrder'
    <3>1. CASE section = "modes"
      BY <2>1, <2>4, <3>1 DEF HInv, InOrder, Early, Accepted, InArena, Empty, Full
    <3>2. CASE section # "modes"
      <4>1. /\ section' \in Later[section]
            /\ Later[section'] \subseteq Later[section]
            /\ Before(section') \subseteq Before(section) \cup {section}
        BY <2>1, <2>2, <3>2 DEF Sections, NextSection, Later, Before
      <4> QED BY <2>1, <2>4, <3>2, <4>1
              DEF HInv, InOrder, Early, Accepted, InArena, Empty, Full
    <3> QED BY <3>1, <3>2
  <2>6. Memory'
    BY <2>1, <2>3 DEF HInv, Memory, InArena, Closed
  <2> QED BY <2>3, <2>5, <2>6 DEF HInv
<1> QED BY <1>1, <1>2

LEMMA HeadersStep ==
  ASSUME HInv, HeadersNext
  PROVE  HInv'
BY ParseStep, InfoInitStep, UnpackInfoStep, StartBooksStep, UnpackBookStep,
   BooksUnpackedStep, StartSectionStep, ReadTimeStep, ReadTypeStep,
   UnpackFieldsStep, CompleteStructStep, EndSectionStep DEF HeadersNext

-----------------------------------------------------------------------------
(* The steps of the set-up leave the headers as they are.                  *)

LEMMA BuiltStep ==
  ASSUME HInv, pc \in Accepted, pc' \in Accepted,
         UNCHANGED <<sent, vi, section, ci, part>>,
         heap' \subseteq heap \cup {Arena}, heap \ {Arena} \subseteq heap',
         \/ pc' \in InArena
         \/ pc \notin InArena /\ heap' = heap
         \/ Arena \notin heap'
  PROVE  HInv'
<1>1. /\ Types' /\ Lists' /\ Ranges' /\ ClearedBlocks' = ClearedBlocks
      /\ PartBlocks = {} /\ PartBlocks' = {}
  <2>1. pc # "fields" /\ pc' # "fields" /\ section' \in Sections
    BY DEF Accepted, InArena, HInv, Types
  <2> QED BY <2>1, SameSetup
<1>2. InOrder'
  BY DEF HInv, InOrder, Early, Accepted, InArena, Empty, Full
<1>3. Memory'
  <2>1. heap' \subseteq ClearedBlocks \cup (IF pc' \in InArena THEN {Arena} ELSE {})
    BY <1>1 DEF HInv, Memory
  <2>2. \A c \in Sections : Arena \notin Tables(c)
    BY DEF Arena, Tables, Table
  <2>3. \A c \in Sections : ci.count[c] > 0 => Tables(c) \subseteq heap'
    BY <2>2 DEF HInv, Memory
  <2> QED BY <1>1, <2>1, <2>3 DEF Memory, Accepted, InArena, Closed
<1> QED BY <1>1, <1>2, <1>3 DEF HInv

LEMMA InfoClearStep ==
  ASSUME HInv, vorbis_info_clear
  PROVE  HInv'
<1>1. heap' = {}
  BY DEF HInv, Memory, vorbis_info_clear, PartBlocks, InArena
<1> QED BY <1>1, EmptySetup DEF vorbis_info_clear, Closed

LEMMA HeadersInductive ==
  ASSUME HInv, [SetupNext]_allVars
  PROVE  HInv'
<1>1. CASE HeadersNext
  BY <1>1, HeadersStep
<1>2. CASE \/ StartSetup \/ MeasureSubmap \/ AllocState \/ AllocWork \/ AllocTails
           \/ AllocModes \/ BuildLook \/ LooksBuilt
  <2>1. /\ pc \in Accepted /\ pc' \in Accepted
        /\ UNCHANGED <<sent, vi, section, ci, part, heap>>
        /\ pc' \in InArena \/ pc \notin InArena
    BY <1>2 DEF StartSetup, MeasureSubmap, AllocState, AllocWork, AllocTails,
                AllocModes, BuildLook, LooksBuilt, Accepted, InArena, headerVars
  <2> QED BY <2>1, BuiltStep
<1>3. CASE AllocArena
  BY <1>3, BuiltStep DEF AllocArena, Accepted, InArena
<1>4. CASE vorbis_dsp_clear
  BY <1>4, BuiltStep DEF vorbis_dsp_clear, Accepted, InArena
<1>5. CASE vorbis_info_clear
  BY <1>5, InfoClearStep
<1>6. CASE UNCHANGED allVars
  <2>1. UNCHANGED <<sent, pc, vi, section, ci, part, heap>>
    BY <1>6 DEF allVars, headerVars
  <2>2. Ranges'
    BY <2>1, SameRanges DEF HInv
  <2>3. ClearedBlocks' = ClearedBlocks
    BY <2>1, ClearedAre
  <2>4. Memory'
    BY <2>1, <2>3 DEF HInv, Memory, PartBlocks, Current
  <2> QED BY <2>1, <2>2, <2>4
          DEF HInv, Types, Lists, InOrder, Empty, Full, parse_vorbis_identification
<1> QED BY <1>1, <1>2, <1>3, <1>4, <1>5, <1>6 DEF SetupNext

LEMMA HeadersStart ==
  ASSUME SetupInit
  PROVE  HInv
<1> USE DEF SetupInit, HeadersInit
<1>1. Types
  BY Zeroes DEF Types, Unpacking, Early, Sections
<1>2. Lists
  <2>1. \A c \in Sections : Len(ci.type[c]) = 0 /\ Len(ci.param[c]) = 0
    BY Zeroes
  <2>2. \A i \in 1..0 : FALSE
    OBVIOUS
  <2> QED BY <2>1, <2>2, Zeroes DEF Lists
<1>3. InOrder
  <2>1. Before("times") = {} /\ Later["times"] \subseteq Sections
    BY DEF Before, Later, Sections
  <2> QED BY <2>1, Zeroes DEF InOrder, Empty, Accepted, InArena, Early, Sections
<1>4. Ranges
  BY Zeroes DEF Ranges, Sections
<1>5. Memory
  BY Zeroes DEF Memory
<1> QED BY <1>1, <1>2, <1>3, <1>4, <1>5 DEF HInv

(* Whatever section, struct or allocation a header fails at, and whenever  *)
(* the decoder is reset, vorbis_info_clear frees every block, and the      *)
(* tables and types it goes by are there.                                  *)
THEOREM HeadersAreOwned == SetupSpec => []HeaderMemoryOwned
<1>1. HInv => HeaderMemoryOwned
  <2> SUFFICES ASSUME HInv PROVE HeaderMemoryOwned
    OBVIOUS
  <2>1. ASSUME NEW c \in Sections, NEW i \in DOMAIN ci.param[c]
        PROVE  i \in DOMAIN ci.type[c] /\ ci.type[c][i] \in Backends[c]
    <3>1. /\ ci.param[c] \in Seq(Infos) /\ ci.type[c] \in Seq(Nat)
          /\ Len(ci.param[c]) \in Nat /\ Len(ci.type[c]) \in Nat
      BY SetupTypes DEF HInv
    <3>2. i \in 1..Len(ci.type[c]) /\ DOMAIN ci.type[c] = 1..Len(ci.type[c])
      <4>1. \/ Len(ci.type[c]) = Len(ci.param[c]) + 0
            \/ Len(ci.type[c]) = Len(ci.param[c]) + 1
        BY DEF HInv, Lists
      <4> QED BY <3>1, <4>1
    <3> QED BY <3>2 DEF HInv, Lists
  <2> QED BY <2>1 DEF HInv, Memory, HeaderMemoryOwned, Closed
<1> QED BY <1>1, HeadersStart, HeadersInductive, PTL DEF SetupSpec

-----------------------------------------------------------------------------
(* The arena.                                                              *)

LEMMA Products ==
  ASSUME NEW a \in Nat, NEW b \in Nat, NEW w \in Nat
  PROVE  /\ a * w \in Nat /\ (a + 1) * w = a * w + w
         /\ a <= b => a * w <= b * w
<1>1. a * w \in Nat /\ (a + 1) * w = a * w + w
  OBVIOUS
<1>2. ASSUME a <= b PROVE a * w <= b * w
  <2>1. PICK d \in Nat : b = a + d
    BY <1>2
  <2>2. b * w = a * w + d * w /\ d * w >= 0 /\ a * w \in Nat /\ d * w \in Nat
    BY <2>1
  <2> QED BY <2>2
<1> QED BY <1>1, <1>2

LEMMA Rounded ==
  ASSUME NEW b \in Nat
  PROVE  Round(b) \in Nat
BY DEF Round, ARENA_ALIGN

(* The sizes are functions of what was unpacked.                           *)
LEMMA SameSizes ==
  ASSUME vi' = vi, ci' = ci
  PROVE  /\ Modes' = Modes /\ Channels' = Channels /\ StateSize' = StateSize
         /\ WorkBytes' = WorkBytes /\ TailBytes' = TailBytes
         /\ ModeBytes' = ModeBytes
         /\ \A k : FixedSize(k)' = FixedSize(k)
         /\ \A m : ModeAt(m)' = ModeAt(m) /\ MapOf(m)' = MapOf(m)
         /\ \A m, n : FloorAt(m, n)' = FloorAt(m, n)
         /\ \A f : Half(f)' = Half(f)
         /\ \A q : After(q)' = After(q) /\ SubmapSize(q)' = SubmapSize(q)
BY DEF Modes, Channels, StateSize, KeepBytes, WorkBytes, TailBytes, ModeBytes,
       FixedSize, ModeAt, MapOf, FloorAt, Half, After, SubmapSize

LEMMA SizesAreNat ==
  ASSUME HInv
  PROVE  /\ StateSize \in Nat /\ WorkBytes \in Nat /\ TailBytes \in Nat
         /\ ModeBytes \in Nat /\ Modes \in Nat /\ vi.channels \in Nat
         /\ \A f \in {0, 1} : Half(f) \in Nat
<1>1. /\ vi.channels \in Nat /\ vi.blocksizes[0] \in Nat
      /\ vi.blocksizes[1] \in Nat /\ Modes \in Nat
  BY SetupTypes DEF HInv, Types, Modes, Sections
<1>2. /\ vi.blocksizes[1] \div 2 \in Nat /\ vi.blocksizes[1] \div 4 \in Nat
      /\ vi.blocksizes[0] \div 2 \in Nat /\ KeepBytes \in Nat
  BY <1>1 DEF KeepBytes
<1>3. WorkBytes \in Nat /\ TailBytes \in Nat
  BY <1>2, Rounded DEF WorkBytes, TailBytes, IntBytes
<1>4. vi.channels * PtrBytes \in Nat /\ Modes * PtrBytes \in Nat
  BY <1>1, SetupAssumption
<1>5. ModeBytes \in Nat
  BY <1>4, Rounded DEF ModeBytes
<1>6. StateSize \in Nat
  <2>1. /\ Round(StateBytes) \in Nat /\ Round(vi.channels * PtrBytes) \in Nat
        /\ Round(KeepBytes) \in Nat
    BY <1>2, <1>4, Rounded, SetupAssumption
  <2> QED BY <2>1 DEF StateSize
<1> QED BY <1>1, <1>2, <1>3, <1>5, <1>6 DEF Half

(* In a setup that was accepted every submap of every mode has a map, a    *)
(* floor and a residue.                                                    *)
LEMMA SubmapsExist ==
  ASSUME HInv, pc \in Accepted, NEW m \in 0..(Modes - 1)
  PROVE  /\ ModeAt(m).blockflag \in {0, 1} /\ MappingOK(MapOf(m))
         /\ MapOf(m).submaps \in 1..16
         /\ \A n \in 0..(MapOf(m).submaps - 1) :
              /\ FloorAt(m, n) \in 0..(ci.count["floors"] - 1)
              /\ SubmapSize(<<m, n>>) \in Nat
              /\ ci.type["floors"][FloorAt(m, n) + 1] = 0
                   => ci.param["floors"][FloorAt(m, n) + 1].barkmap \in Nat
<1>1. /\ section = "modes" /\ Full("modes") /\ Full("maps") /\ Full("floors")
      /\ ci.count["modes"] \in Nat /\ ci.count["maps"] \in Nat
      /\ ci.count["floors"] \in Nat
  <2>1. section = "modes" /\ "maps" \in Before("modes") /\ "floors" \in Before("modes")
    BY DEF HInv, InOrder, Before, Later, Sections
  <2> QED BY <2>1, SetupTypes DEF HInv, InOrder, Sections
<1>2. m + 1 \in 1..Len(ci.param["modes"])
  BY <1>1 DEF Modes, Full
<1>3. ModeOK(ModeAt(m))
  BY <1>2 DEF HInv, Ranges, ModeAt
<1>4. ModeAt(m).mapping + 1 \in 1..Len(ci.param["maps"])
  BY <1>1, <1>3 DEF ModeOK, Full
<1>5. MappingOK(MapOf(m))
  BY <1>4 DEF HInv, Ranges, MapOf
<1>6. ASSUME NEW n \in 0..(MapOf(m).submaps - 1)
      PROVE  /\ FloorAt(m, n) \in 0..(ci.count["floors"] - 1)
             /\ SubmapSize(<<m, n>>) \in Nat
             /\ ci.type["floors"][FloorAt(m, n) + 1] = 0
                  => ci.param["floors"][FloorAt(m, n) + 1].barkmap \in Nat
  <2>1. FloorAt(m, n) \in 0..(ci.count["floors"] - 1)
    BY <1>5, <1>6 DEF MappingOK, FloorAt
  <2>2. FloorAt(m, n) + 1 \in 1..Len(ci.param["floors"])
    BY <1>1, <2>1 DEF Full
  <2> DEFINE f == FloorAt(m, n)
  <2>3. ci.type["floors"][f + 1] = 0 => ci.param["floors"][f + 1].barkmap \in Nat
    BY <2>2 DEF HInv, Ranges
  <2>4. SubmapSize(<<m, n>>) \in Nat
    <3>1. CASE ci.type["floors"][f + 1] = 0
      <4> DEFINE h == Half(ModeAt(m).blockflag)
                 b == ci.param["floors"][f + 1].barkmap
      <4>1. h \in Nat /\ b \in Nat /\ LookBytes \in Nat
        BY <1>3, <2>3, <3>1, SizesAreNat, SetupAssumption DEF ModeOK
      <4> HIDE DEF h, b
      <4>2. /\ Round(LookBytes) \in Nat /\ Round((h + 1) * IntBytes) \in Nat
            /\ Round(b * IntBytes) \in Nat
        BY <4>1, Rounded DEF IntBytes
      <4>3. SubmapSize(<<m, n>>) =
              Round(LookBytes) + Round((h + 1) * IntBytes) + Round(b * IntBytes)
        BY <3>1 DEF SubmapSize, floor0_arena_size, h, b
      <4> QED BY <4>2, <4>3
    <3>2. CASE ci.type["floors"][f + 1] # 0
      BY <3>2 DEF SubmapSize
    <3> QED BY <3>1, <3>2
  <2> QED BY <2>1, <2>3, <2>4
<1> QED BY <1>3, <1>5, <1>6 DEF ModeOK, MappingOK

(* A submap of a mode is never passed without being counted: inside the    *)
(* modes at names a submap that exists.                                    *)
InMode(p) == p[1] < Modes => p[2] < MapOf(p[1]).submaps

Sizes ==
  /\ size \in Nat /\ capacity \in Nat /\ used \in Nat /\ ch \in Nat
  /\ at \in Nat \X Nat /\ null = FALSE
  /\ pc \in Unpacking \cup {"accepted", "measure", "state"} => used = 0

(* The submaps as they were measured, from the fixed part of the arena on  *)
(* to its size.                                                            *)
Measured ==
  /\ keep \subseteq Channels
  /\ trail \in Seq([at : Nat \X Nat, size : Nat]) /\ Len(trail) >= 1
  /\ trail[1].at = <<0, 0>> /\ trail[1].size = FixedSize(keep)
  /\ \A n \in 1..(Len(trail) - 1), p \in Nat \X Nat :
       trail[n].at = p => /\ p[1] < Modes /\ trail[n + 1].at = After(p)
                          /\ trail[n + 1].size = trail[n].size + SubmapSize(p)
  /\ \A n \in 1..Len(trail) : trail[n].size <= size
  /\ \A n \in 1..Len(trail), p \in Nat \X Nat : trail[n].at = p => InMode(p)
  /\ trail[Len(trail)].size = size
  /\ look_cache \in [(0..(ci.count["floors"] - 1)) \X {0, 1} -> Nat]

(* What is used of the arena is what was measured for the same place.      *)
Filled ==
  /\ trail[Len(trail)].at[1] >= Modes /\ capacity = size + DSP_ARENA_SAFETY
  /\ pc = "work" => /\ ch <= vi.channels
                    /\ used = StateSize + ch * WorkBytes
  /\ pc = "tails" => used = StateSize + vi.channels * WorkBytes
                              + Cardinality(keep \cap 0..(ch - 1)) * TailBytes
  /\ pc = "tails" => ch <= vi.channels
  /\ pc = "modes" => used + ModeBytes = FixedSize(keep)
  /\ pc = "looks" => \E n \in 1..Len(trail) :
                       trail[n].at = at /\ trail[n].size = used
  /\ pc = "ready" => used = size /\ at[1] >= Modes

Passed(m, n) == m < at[1] \/ (m = at[1] /\ n < at[2])

(* Every submap passed that has a floor of type 0 has its look.            *)
Looked ==
  \A m \in 0..(Modes - 1) : \A n \in 0..(MapOf(m).submaps - 1) :
    Passed(m, n) /\ ci.type["floors"][FloorAt(m, n) + 1] = 0
      => look_cache[<<FloorAt(m, n), ModeAt(m).blockflag>>]
           = Half(ModeAt(m).blockflag)

SInv ==
  /\ Sizes
  /\ pc \in {"measure"} \cup InArena => Measured
  /\ pc = "measure" => trail[Len(trail)].at = at
  /\ pc \in InArena => Filled
  /\ pc \in {"looks", "ready"} => Looked

LEMMA SubmapIsNat ==
  ASSUME HInv, pc \in Accepted, NEW p \in Nat \X Nat, p[1] < Modes, InMode(p)
  PROVE  /\ SubmapSize(p) \in Nat /\ After(p) \in Nat \X Nat
         /\ p[1] \in 0..(Modes - 1) /\ p[2] \in 0..(MapOf(p[1]).submaps - 1)
         /\ InMode(After(p)) /\ p = <<p[1], p[2]>>
<1>1. /\ p[1] \in 0..(Modes - 1) /\ p = <<p[1], p[2]>> /\ p[2] \in Nat
      /\ p[1] \in Nat
  BY SizesAreNat
<1>2. MapOf(p[1]).submaps \in 1..16
  BY <1>1, SubmapsExist
<1>3. p[2] \in 0..(MapOf(p[1]).submaps - 1)
  BY <1>1, <1>2 DEF InMode
<1>4. SubmapSize(p) \in Nat
  BY <1>1, <1>3, SubmapsExist
<1>5. After(p) \in Nat \X Nat
  BY <1>1 DEF After
<1>6. InMode(After(p))
  <2>1. CASE p[2] + 1 < MapOf(p[1]).submaps
    BY <1>1, <2>1 DEF After, InMode
  <2>2. CASE ~(p[2] + 1 < MapOf(p[1]).submaps)
    <3>1. After(p) = <<p[1] + 1, 0>>
      BY <2>2 DEF After
    <3>2. ASSUME p[1] + 1 < Modes PROVE 0 < MapOf(p[1] + 1).submaps
      <4>1. p[1] + 1 \in 0..(Modes - 1)
        BY <1>1, <3>2, SizesAreNat
      <4>2. MapOf(p[1] + 1).submaps \in 1..16
        BY <4>1, SubmapsExist
      <4> QED BY <4>2
    <3> QED BY <3>1, <3>2 DEF InMode
  <2> QED BY <2>1, <2>2
<1> QED BY <1>1, <1>3, <1>4, <1>5, <1>6

LEMMA FixedIsNat ==
  ASSUME HInv, NEW kept, kept \subseteq Channels
  PROVE  /\ IsFiniteSet(kept) /\ Cardinality(kept) \in Nat
         /\ FixedSize(kept) \in Nat
         /\ FixedSize(kept) = StateSize + vi.channels * WorkBytes
                                + Cardinality(kept) * TailBytes + ModeBytes
<1>1. IsFiniteSet(Channels)
  <2>1. 0 \in Int /\ vi.channels - 1 \in Int
    BY SizesAreNat
  <2> QED BY <2>1, FS_Interval DEF Channels
<1>2. IsFiniteSet(kept) /\ Cardinality(kept) \in Nat
  BY <1>1, FS_Subset, FS_CardinalityType
<1>3. vi.channels * WorkBytes \in Nat /\ Cardinality(kept) * TailBytes \in Nat
  BY <1>2, SizesAreNat, Products
<1> QED BY <1>2, <1>3, SizesAreNat DEF FixedSize

-----------------------------------------------------------------------------
(* The steps of the set-up.                                                *)

(* Where the measuring is unchanged, and what was unpacked.                *)
LEMMA MeasuredStays ==
  ASSUME Measured, vi' = vi, ci' = ci,
         UNCHANGED <<keep, size, trail, look_cache>>
  PROVE  Measured'
<1>1. \A p : InMode(p)' <=> InMode(p)
  BY SameSizes DEF InMode
<1> QED BY <1>1, SameSizes DEF Measured

(* An allocation that fits is made.                                        *)
LEMMA Fits ==
  ASSUME SInv, HInv, pc \in InArena, NEW bytes \in Nat, used + bytes <= size,
         Allocate(bytes)
  PROVE  used' = used + bytes /\ null' = FALSE /\ used' \in Nat
<1>1. used + bytes <= capacity /\ used + bytes \in Nat
  BY SetupAssumption DEF SInv, Sizes, Filled
<1> QED BY <1>1 DEF Allocate, SInv, Sizes

LEMMA TrailTypes ==
  ASSUME Measured
  PROVE  /\ Len(trail) \in Nat /\ DOMAIN trail = 1..Len(trail)
         /\ \A k \in 1..Len(trail) :
              /\ trail[k] \in [at : Nat \X Nat, size : Nat]
              /\ trail[k].at \in Nat \X Nat /\ trail[k].size \in Nat
<1>1. /\ trail \in Seq([at : Nat \X Nat, size : Nat]) /\ Len(trail) \in Nat
      /\ DOMAIN trail = 1..Len(trail)
  BY DEF Measured
<1>2. \A k \in 1..Len(trail) : trail[k] \in [at : Nat \X Nat, size : Nat]
  BY <1>1, ElementOfSeq
<1> QED BY <1>1, <1>2

LEMMA StartSetupStep ==
  ASSUME SInv, HInv, StartSetup
  PROVE  SInv'
<1> USE DEF StartSetup
<1>1. /\ keep' \subseteq Channels /\ vi' = vi /\ ci' = ci /\ pc' = "measure"
      /\ size' = FixedSize(keep') /\ at' = <<0, 0>>
      /\ trail' = <<[at |-> at', size |-> size']>>
      /\ look_cache' = [x \in (0..(ci.count["floors"] - 1)) \X {0, 1} |-> Unbuilt]
      /\ UNCHANGED <<capacity, used, null, ch>> /\ pc = "accepted"
  OBVIOUS
<1>2. size' \in Nat
  BY <1>1, FixedIsNat
<1>3. Sizes'
  BY <1>1, <1>2 DEF SInv, Sizes
<1>4. /\ Len(trail') = 1 /\ trail'[1].at = <<0, 0>> /\ trail'[1].size = size'
      /\ trail' \in Seq([at : Nat \X Nat, size : Nat])
  BY <1>1, <1>2
<1>5. InMode(<<0, 0>>)
  <2>1. ASSUME 0 < Modes PROVE 0 < MapOf(0).submaps
    <3>1. 0 \in 0..(Modes - 1)
      BY <2>1, SizesAreNat
    <3>2. MapOf(0).submaps \in 1..16
      BY <1>1, <3>1, SubmapsExist DEF Accepted
    <3> QED BY <3>2
  <2> QED BY <2>1 DEF InMode
<1>6. Measured'
  <2>1. InMode(<<0, 0>>)' /\ Channels' = Channels
    BY <1>1, <1>5, SameSizes DEF InMode
  <2>2. FixedSize(keep)' = size'
    BY <1>1, SameSizes DEF FixedSize
  <2>3. look_cache' \in [(0..(ci'.count["floors"] - 1)) \X {0, 1} -> Nat]
    BY <1>1 DEF Unbuilt
  <2>4. /\ \A n \in 1..(Len(trail') - 1) : FALSE
        /\ \A n \in 1..Len(trail') : n = 1
        /\ size' <= size'
    BY <1>2, <1>4
  <2>5. \A n \in 1..Len(trail'), p \in Nat \X Nat : trail'[n].at = p => InMode(p)'
    BY <1>4, <2>1, <2>4
  <2> QED BY <1>1, <1>4, <2>1, <2>2, <2>3, <2>4, <2>5 DEF Measured
<1> QED BY <1>1, <1>3, <1>4, <1>6 DEF SInv, InArena

LEMMA MeasureStep ==
  ASSUME SInv, HInv, MeasureSubmap
  PROVE  SInv'
<1> DEFINE n == Len(trail)
           e == [at |-> at', size |-> size']
<1>1. /\ pc = "measure" /\ pc' = "measure" /\ vi' = vi /\ ci' = ci
      /\ at[1] < Modes /\ size' = size + SubmapSize(at) /\ at' = After(at)
      /\ trail' = Append(trail, e)
      /\ UNCHANGED <<keep, capacity, used, null, ch, look_cache>>
  BY DEF MeasureSubmap, headerVars
<1>2. /\ Measured /\ Sizes /\ trail[n].at = at /\ trail[n].size = size
      /\ InMode(at) /\ n \in Nat /\ n >= 1 /\ size \in Nat
  <2>1. Measured /\ Sizes /\ trail[n].at = at
    BY <1>1 DEF SInv
  <2>2. n \in Nat /\ n >= 1 /\ n \in 1..n
    BY <2>1 DEF Measured
  <2> QED BY <2>1, <2>2 DEF Measured, Sizes
<1>3. /\ SubmapSize(at) \in Nat /\ at' \in Nat \X Nat /\ InMode(at')
  BY <1>1, <1>2, SubmapIsNat DEF Accepted, Sizes
<1>4. size' \in Nat /\ size <= size' /\ e \in [at : Nat \X Nat, size : Nat]
  BY <1>1, <1>2, <1>3
<1>5. /\ trail' \in Seq([at : Nat \X Nat, size : Nat]) /\ Len(trail') = n + 1
      /\ trail'[n + 1].at = at' /\ trail'[n + 1].size = size'
      /\ \A k \in 1..n : trail'[k] = trail[k]
  BY <1>1, <1>2, <1>4 DEF Measured
<1>9. Len(trail') = n + 1 /\ Len(trail') - 1 = n
  BY <1>2, <1>5
<1> HIDE DEF n, e
<1>6. Sizes'
  BY <1>1, <1>2, <1>3, <1>4 DEF Sizes
<1>7. \A p : InMode(p)' <=> InMode(p)
  BY <1>1, SameSizes DEF InMode
<1>8. Measured'
  <2>1. /\ keep' \subseteq Channels' /\ FixedSize(keep)' = FixedSize(keep)
        /\ trail'[1].at = <<0, 0>> /\ trail'[1].size = FixedSize(keep)
    <3>1. FixedSize(keep)' = FixedSize(keep)
      BY <1>1, SameSizes DEF FixedSize
    <3>2. 1 \in 1..n
      BY <1>2
    <3> QED BY <1>1, <1>2, <1>5, <3>1, <3>2, SameSizes DEF Measured
  <2>2. ASSUME NEW k \in 1..(Len(trail') - 1), NEW p \in Nat \X Nat, trail'[k].at = p
        PROVE  /\ p[1] < Modes' /\ trail'[k + 1].at = After(p)'
               /\ trail'[k + 1].size = trail'[k].size + SubmapSize(p)'
    <3>1. After(p)' = After(p) /\ SubmapSize(p)' = SubmapSize(p) /\ Modes' = Modes
      BY <1>1, SameSizes
    <3>2. CASE k = n
      <4>1. trail'[k] = trail[n] /\ p = at
        BY <1>2, <1>5, <2>2, <3>2
      <4> QED BY <1>1, <1>2, <1>5, <3>1, <3>2, <4>1
    <3>3. CASE k # n
      <4>1. k \in 1..(n - 1) /\ k \in 1..n /\ k + 1 \in 1..n
        BY <1>2, <1>9, <3>3
      <4>2. trail'[k] = trail[k] /\ trail'[k + 1] = trail[k + 1]
        BY <1>5, <4>1
      <4> QED BY <1>2, <2>2, <3>1, <4>1, <4>2 DEF Measured, n
    <3> QED BY <3>2, <3>3
  <2>3. ASSUME NEW k \in 1..Len(trail'), NEW p \in Nat \X Nat, trail'[k].at = p
        PROVE  InMode(p)
    <3>1. CASE k = n + 1
      BY <1>3, <1>5, <2>3, <3>1
    <3>2. CASE k # n + 1
      <4>0. k \in 1..n
        BY <1>2, <1>9, <3>2
      <4>1. k \in 1..n /\ trail'[k] = trail[k]
        BY <1>5, <4>0
      <4> QED BY <1>2, <2>3, <4>1 DEF Measured, n
    <3> QED BY <3>1, <3>2
  <2>4. ASSUME NEW k \in 1..Len(trail')
        PROVE  trail'[k].size <= size'
    <3>1. CASE k = n + 1
      BY <1>4, <1>5, <3>1
    <3>2. CASE k # n + 1
      <4>0. k \in 1..n
        BY <1>2, <1>9, <3>2
      <4>1. k \in 1..n /\ trail'[k] = trail[k]
        BY <1>5, <4>0
      <4>2. trail[k].size <= size /\ trail[k].size \in Nat
        BY <1>2, <4>1, TrailTypes DEF Measured, n
      <4> QED BY <1>2, <1>4, <4>1, <4>2
    <3> QED BY <3>1, <3>2
  <2>5. Len(trail') >= 1 /\ trail'[Len(trail')].size = size'
    BY <1>2, <1>5
  <2>6. look_cache' \in [(0..(ci'.count["floors"] - 1)) \X {0, 1} -> Nat]
    BY <1>1, <1>2 DEF Measured
  <2> QED BY <1>5, <1>7, <2>1, <2>2, <2>3, <2>4, <2>5, <2>6 DEF Measured
<1> QED BY <1>1, <1>2, <1>5, <1>6, <1>8 DEF SInv, InArena

LEMMA AllocArenaStep ==
  ASSUME SInv, HInv, AllocArena
  PROVE  SInv'
<1>1. CASE pc' = "without_dsp"
  <2>1. UNCHANGED dspVars
    BY <1>1 DEF AllocArena
  <2> QED BY <1>1, <2>1
          DEF dspVars, SInv, Sizes, InArena, Unpacking, Early
<1>2. CASE pc' # "without_dsp"
  <2>1. /\ pc = "measure" /\ pc' = "state" /\ at[1] >= Modes
        /\ capacity' = size + DSP_ARENA_SAFETY
        /\ vi' = vi /\ ci' = ci
        /\ UNCHANGED <<keep, size, used, null, ch, at, look_cache, trail>>
    BY <1>2 DEF AllocArena
  <2>2. Measured /\ Sizes /\ trail[Len(trail)].at = at /\ used = 0
    BY <2>1 DEF SInv, Sizes
  <2>3. Measured'
    BY <2>1, <2>2, MeasuredStays
  <2>4. Sizes'
    <3>1. capacity' \in Nat
      BY <2>1, <2>2, SetupAssumption DEF Sizes
    <3> QED BY <2>1, <2>2, <3>1 DEF Sizes
  <2>5. Filled'
    BY <2>1, <2>2, SameSizes DEF Filled
  <2> QED BY <2>1, <2>3, <2>4, <2>5 DEF SInv
<1> QED BY <1>1, <1>2

(* The fixed part of the arena, without the last of its pieces.            *)
LEMMA FixedParts ==
  ASSUME SInv, HInv, pc \in InArena
  PROVE  /\ keep \subseteq Channels /\ FixedSize(keep) <= size
         /\ FixedSize(keep) \in Nat /\ size \in Nat /\ used \in Nat
         /\ ch \in Nat
<1>1. Measured /\ Sizes
  BY DEF SInv
<1>2. Len(trail) \in Nat /\ 1 \in 1..Len(trail)
  BY <1>1, TrailTypes DEF Measured
<1>3. FixedSize(keep) <= size
  BY <1>1, <1>2 DEF Measured
<1> QED BY <1>1, <1>3, FixedIsNat DEF Measured, Sizes

LEMMA AllocStateStep ==
  ASSUME SInv, HInv, AllocState
  PROVE  SInv'
<1>1. /\ pc = "state" /\ pc' = "work" /\ ch' = 0 /\ Allocate(StateSize)
      /\ vi' = vi /\ ci' = ci
      /\ UNCHANGED <<keep, size, capacity, at, look_cache, trail>>
  BY DEF AllocState
<1>2. Measured /\ Sizes /\ Filled /\ used = 0
  BY <1>1 DEF SInv, Sizes, InArena
<1>3. /\ vi.channels * WorkBytes \in Nat /\ Cardinality(keep) * TailBytes \in Nat
      /\ StateSize \in Nat /\ ModeBytes \in Nat
  BY <1>2, SizesAreNat, FixedIsNat, Products DEF Measured
<1>4. StateSize <= size
  <2>1. /\ FixedSize(keep) <= size /\ FixedSize(keep) \in Nat /\ size \in Nat
        /\ FixedSize(keep) = StateSize + vi.channels * WorkBytes
                               + Cardinality(keep) * TailBytes + ModeBytes
    BY <1>1, FixedParts, FixedIsNat DEF InArena
  <2> QED BY <1>3, <2>1
<1>5. used + StateSize = StateSize
  BY <1>2, <1>3
<1>6. used' = StateSize /\ null' = FALSE
  BY <1>1, <1>3, <1>4, <1>5, Fits DEF InArena
<1>7. Sizes'
  BY <1>1, <1>2, <1>3, <1>6 DEF Sizes, Unpacking, Early
<1>8. Filled'
  <2>1. used' = StateSize + 0 * WorkBytes
    BY <1>3, <1>6, SizesAreNat
  <2>2. 0 <= vi.channels
    BY SizesAreNat
  <2> QED BY <1>1, <1>2, <2>1, <2>2, SameSizes DEF Filled
<1>9. Measured'
  BY <1>1, <1>2, MeasuredStays
<1> QED BY <1>1, <1>7, <1>8, <1>9 DEF SInv

LEMMA AllocWorkStep ==
  ASSUME SInv, HInv, AllocWork
  PROVE  SInv'
<1>1. /\ pc = "work" /\ vi' = vi /\ ci' = ci
      /\ UNCHANGED <<keep, size, capacity, at, look_cache, trail>>
  BY DEF AllocWork
<1>2. /\ Measured /\ Sizes /\ Filled
      /\ ch <= vi.channels /\ used = StateSize + ch * WorkBytes
  BY <1>1 DEF SInv, InArena, Filled
<1>3. /\ StateSize \in Nat /\ ModeBytes \in Nat /\ WorkBytes \in Nat
      /\ vi.channels \in Nat /\ ch \in Nat /\ TailBytes \in Nat
      /\ Cardinality(keep) \in Nat
  BY <1>2, SizesAreNat, FixedIsNat DEF Measured, Sizes
<1>4. Measured'
  BY <1>1, <1>2, MeasuredStays
<1>5. CASE ch < vi.channels
  <2>1. Allocate(WorkBytes) /\ ch' = ch + 1 /\ pc' = pc
    BY <1>5 DEF AllocWork
  <2>2. /\ (ch + 1) * WorkBytes = ch * WorkBytes + WorkBytes
        /\ ch * WorkBytes \in Nat
    BY <1>3, Products
  <2>3. (ch + 1) * WorkBytes <= vi.channels * WorkBytes
    <3>1. ch + 1 \in Nat /\ ch + 1 <= vi.channels
      BY <1>3, <1>5
    <3> QED BY <1>3, <3>1, Products
  <2>4. /\ vi.channels * WorkBytes \in Nat /\ Cardinality(keep) * TailBytes \in Nat
    BY <1>3, Products
  <2>5. used + WorkBytes = StateSize + (ch + 1) * WorkBytes
    BY <1>2, <1>3, <2>2
  <2>6. used + WorkBytes <= size
    <3>1. /\ FixedSize(keep) <= size /\ FixedSize(keep) \in Nat /\ size \in Nat
          /\ FixedSize(keep) = StateSize + vi.channels * WorkBytes
                                 + Cardinality(keep) * TailBytes + ModeBytes
      BY <1>1, FixedParts, FixedIsNat DEF InArena
    <3>2. (ch + 1) * WorkBytes \in Nat
      BY <1>3, <2>2
    <3> QED BY <1>3, <2>3, <2>4, <2>5, <3>1, <3>2
  <2>7. used' = StateSize + ch' * WorkBytes /\ null' = FALSE /\ used' \in Nat
    BY <1>1, <1>3, <2>1, <2>5, <2>6, Fits DEF InArena
  <2>8. ch' \in Nat /\ ch' <= vi.channels
    BY <1>3, <1>5, <2>1
  <2>9. Sizes'
    BY <1>1, <1>2, <2>1, <2>7, <2>8 DEF Sizes, Unpacking, Early
  <2>10. Filled'
    BY <1>1, <1>2, <2>1, <2>7, <2>8, SameSizes DEF Filled
  <2> QED BY <1>1, <1>4, <2>1, <2>9, <2>10 DEF SInv
<1>6. CASE ~(ch < vi.channels)
  <2>1. pc' = "tails" /\ ch' = 0 /\ UNCHANGED <<used, null>>
    BY <1>6 DEF AllocWork
  <2>2. ch = vi.channels
    BY <1>2, <1>3, <1>6
  <2>3. Cardinality(keep \cap 0..(0 - 1)) = 0
    <3>1. keep \cap 0..(0 - 1) = {}
      OBVIOUS
    <3> QED BY <3>1, FS_EmptySet
  <2>4. used = StateSize + vi.channels * WorkBytes + 0 * TailBytes
    <3>1. vi.channels * WorkBytes \in Nat /\ 0 * TailBytes = 0
      BY <1>3, Products
    <3> QED BY <1>2, <1>3, <2>2, <3>1
  <2>5. Sizes'
    BY <1>1, <1>2, <2>1 DEF Sizes, Unpacking, Early
  <2>6. Filled'
    <3>1. 0 <= vi.channels
      BY <1>3
    <3> QED BY <1>1, <1>2, <2>1, <2>3, <2>4, <3>1, SameSizes DEF Filled
  <2> QED BY <1>4, <2>1, <2>5, <2>6 DEF SInv
<1> QED BY <1>5, <1>6

(* One more channel, kept or not.                                          *)
LEMMA KeptSoFar ==
  ASSUME NEW kept, IsFiniteSet(kept), NEW n \in Nat
  PROVE  /\ Cardinality(kept \cap 0..(n - 1)) \in Nat
         /\ Cardinality(kept \cap 0..(n - 1)) <= Cardinality(kept)
         /\ n \notin kept => kept \cap 0..((n + 1) - 1) = kept \cap 0..(n - 1)
         /\ n \in kept =>
              /\ Cardinality(kept \cap 0..((n + 1) - 1))
                   = Cardinality(kept \cap 0..(n - 1)) + 1
              /\ Cardinality(kept \cap 0..((n + 1) - 1)) <= Cardinality(kept)
<1> DEFINE low == kept \cap 0..(n - 1)
           more == kept \cap 0..((n + 1) - 1)
<1>1. /\ IsFiniteSet(low) /\ Cardinality(low) <= Cardinality(kept)
      /\ Cardinality(more) <= Cardinality(kept)
  <2>1. low \in SUBSET kept /\ more \in SUBSET kept
    OBVIOUS
  <2> QED BY <2>1, FS_Subset
<1>2. Cardinality(low) \in Nat
  BY <1>1, FS_CardinalityType
<1>3. n \notin low
  OBVIOUS
<1>4. n \notin kept => more = low
  <2>1. \A k : k \in 0..((n + 1) - 1) <=> k \in 0..(n - 1) \/ k = n
    OBVIOUS
  <2> QED BY <2>1
<1>5. n \in kept => more = low \cup {n}
  <2>1. \A k : k \in 0..((n + 1) - 1) <=> k \in 0..(n - 1) \/ k = n
    OBVIOUS
  <2> QED BY <2>1
<1>6. Cardinality(low \cup {n}) = Cardinality(low) + 1
  BY <1>1, <1>3, FS_AddElement
<1> QED BY <1>1, <1>2, <1>4, <1>5, <1>6

LEMMA AllocTailsStep ==
  ASSUME SInv, HInv, AllocTails
  PROVE  SInv'
<1> DEFINE kept(n) == Cardinality(keep \cap 0..(n - 1))
           base == StateSize + vi.channels * WorkBytes
<1>1. /\ pc = "tails" /\ vi' = vi /\ ci' = ci
      /\ UNCHANGED <<keep, size, capacity, at, look_cache, trail>>
  BY DEF AllocTails
<1>2. /\ Measured /\ Sizes /\ Filled
      /\ ch <= vi.channels /\ used = base + kept(ch) * TailBytes
  BY <1>1 DEF SInv, InArena, Filled
<1>3. /\ StateSize \in Nat /\ ModeBytes \in Nat /\ WorkBytes \in Nat
      /\ vi.channels \in Nat /\ ch \in Nat /\ TailBytes \in Nat
      /\ Cardinality(keep) \in Nat /\ IsFiniteSet(keep) /\ used \in Nat
      /\ FixedSize(keep) = base + Cardinality(keep) * TailBytes + ModeBytes
      /\ FixedSize(keep) <= size /\ size \in Nat
  BY <1>1, <1>2, SizesAreNat, FixedIsNat, FixedParts DEF Measured, Sizes, InArena
<1>4. Measured'
  BY <1>1, <1>2, MeasuredStays
<1>5. base \in Nat
  BY <1>3, Products
<1>6. base' = base
  BY <1>1, SameSizes
<1>7. kept(ch) \in Nat /\ kept(ch) <= Cardinality(keep)
  BY <1>3, KeptSoFar
<1>8. CASE ch < vi.channels /\ ch \in keep
  <2>1. Allocate(TailBytes) /\ ch' = ch + 1 /\ pc' = pc
    BY <1>8 DEF AllocTails
  <2>2. kept(ch + 1) = kept(ch) + 1 /\ kept(ch + 1) <= Cardinality(keep)
    BY <1>3, <1>8, KeptSoFar
  <2> HIDE DEF kept, base
  <2>3. /\ kept(ch + 1) * TailBytes = kept(ch) * TailBytes + TailBytes
        /\ kept(ch) * TailBytes \in Nat /\ kept(ch + 1) \in Nat
    BY <1>3, <1>7, <2>2, Products
  <2>4. /\ kept(ch + 1) * TailBytes <= Cardinality(keep) * TailBytes
        /\ Cardinality(keep) * TailBytes \in Nat
        /\ kept(ch + 1) * TailBytes \in Nat
    BY <1>3, <2>2, <2>3, Products
  <2>5. used + TailBytes = base + kept(ch + 1) * TailBytes
    BY <1>2, <1>3, <1>5, <2>3
  <2>6. used + TailBytes <= size
    BY <1>3, <1>5, <2>4, <2>5
  <2>7. used' = base + kept(ch + 1) * TailBytes /\ null' = FALSE /\ used' \in Nat
    BY <1>1, <1>3, <2>1, <2>5, <2>6, Fits DEF InArena
  <2>8. ch' \in Nat /\ ch' <= vi.channels
    BY <1>3, <1>8, <2>1
  <2>9. Sizes'
    BY <1>1, <1>2, <2>1, <2>7, <2>8 DEF Sizes, Unpacking, Early
  <2>10. Filled'
    BY <1>1, <1>2, <1>6, <2>1, <2>7, <2>8, SameSizes DEF Filled, kept, base
  <2> QED BY <1>1, <1>4, <2>1, <2>9, <2>10 DEF SInv
<1>9. CASE ch < vi.channels /\ ch \notin keep
  <2>1. UNCHANGED <<used, null>> /\ ch' = ch + 1 /\ pc' = pc
    BY <1>9 DEF AllocTails
  <2>2. keep \cap 0..((ch + 1) - 1) = keep \cap 0..(ch - 1)
    BY <1>3, <1>9, KeptSoFar
  <2>3. kept(ch + 1) = kept(ch)
    BY <2>2
  <2>4. ch' \in Nat /\ ch' <= vi.channels
    BY <1>3, <1>9, <2>1
  <2> HIDE DEF kept, base
  <2>5. used' = base + kept(ch + 1) * TailBytes
    BY <1>2, <2>1, <2>3
  <2>6. Sizes'
    BY <1>1, <1>2, <2>1, <2>4 DEF Sizes, Unpacking, Early
  <2>7. Filled'
    BY <1>1, <1>2, <1>6, <2>1, <2>4, <2>5, SameSizes DEF Filled, kept, base
  <2> QED BY <1>1, <1>4, <2>1, <2>6, <2>7 DEF SInv
<1>10. CASE ~(ch < vi.channels)
  <2>1. pc' = "modes" /\ UNCHANGED <<used, null, ch>>
    BY <1>10 DEF AllocTails
  <2>2. keep \cap 0..(ch - 1) = keep
    <3> HIDE DEF kept, base
    <3>0. keep \subseteq Channels
      BY <1>2 DEF Measured
    <3>1. ch = vi.channels /\ keep \subseteq Channels
      BY <1>2, <1>3, <1>10, <3>0
    <3> QED BY <3>1 DEF Channels
  <2>3. used + ModeBytes = FixedSize(keep)
    <3>1. kept(ch) = Cardinality(keep)
      BY <2>2
    <3> HIDE DEF kept, base
    <3> QED BY <1>2, <1>3, <3>1
  <2>4. Sizes'
    BY <1>1, <1>2, <2>1 DEF Sizes, Unpacking, Early
  <2>5. FixedSize(keep)' = FixedSize(keep)
    BY <1>1, SameSizes DEF FixedSize
  <2>6. Filled'
    BY <1>1, <1>2, <2>1, <2>3, <2>5, SameSizes DEF Filled
  <2> QED BY <1>4, <2>1, <2>4, <2>6 DEF SInv
<1> QED BY <1>8, <1>9, <1>10

LEMMA AllocModesStep ==
  ASSUME SInv, HInv, AllocModes
  PROVE  SInv'
<1>1. /\ pc = "modes" /\ pc' = "looks" /\ at' = <<0, 0>> /\ Allocate(ModeBytes)
      /\ vi' = vi /\ ci' = ci
      /\ UNCHANGED <<keep, size, capacity, ch, look_cache, trail>>
  BY DEF AllocModes
<1>2. Measured /\ Sizes /\ Filled /\ used + ModeBytes = FixedSize(keep)
  BY <1>1 DEF SInv, InArena, Filled
<1>3. used' = FixedSize(keep) /\ null' = FALSE /\ used' \in Nat
  <2>1. FixedSize(keep) <= size /\ ModeBytes \in Nat
    BY <1>1, FixedParts, SizesAreNat DEF InArena
  <2> QED BY <1>1, <1>2, <2>1, Fits DEF InArena
<1>4. Measured'
  BY <1>1, <1>2, MeasuredStays
<1>5. Sizes'
  BY <1>1, <1>2, <1>3 DEF Sizes, Unpacking, Early
<1>6. Filled'
  <2>1. 1 \in 1..Len(trail) /\ trail[1].at = at' /\ trail[1].size = used'
    BY <1>1, <1>2, <1>3, TrailTypes DEF Measured
  <2> QED BY <1>1, <1>2, <2>1, SameSizes DEF Filled
<1>7. Looked'
  <2>1. \A m \in Nat, n \in Nat : ~(Passed(m, n)')
    BY <1>1 DEF Passed
  <2>2. \A m \in 0..(Modes - 1) : m \in Nat
    OBVIOUS
  <2>3. \A m, n : n \in 0..(MapOf(m).submaps - 1) => n \in Nat
    OBVIOUS
  <2>4. \A m : MapOf(m)' = MapOf(m) /\ Modes' = Modes
    BY <1>1, SameSizes
  <2> QED BY <2>1, <2>2, <2>3, <2>4 DEF Looked
<1> QED BY <1>1, <1>4, <1>5, <1>6, <1>7 DEF SInv

(* What is passed by the next place is what was passed, and the last one.  *)
LEMMA NextPlace ==
  ASSUME NEW a \in Nat, NEW b \in Nat, NEW m \in Nat, NEW k \in Nat,
         NEW z \in Nat, m = a => k < z,
         \/ m < a \/ (m = a /\ k < b + 1)
         \/ ~(b + 1 < z) /\ (m < a + 1 \/ (m = a + 1 /\ k < 0))
  PROVE  m < a \/ (m = a /\ k < b) \/ (m = a /\ k = b)
OBVIOUS

LEMMA BuildLookStep ==
  ASSUME SInv, HInv, BuildLook
  PROVE  SInv'
<1> DEFINE f == FloorAt(at[1], at[2])
           flag == ModeAt(at[1]).blockflag
           zero == ci.type["floors"][f + 1] = 0
<1>1. /\ pc = "looks" /\ pc' = "looks" /\ at[1] < Modes /\ at' = After(at)
      /\ vi' = vi /\ ci' = ci /\ UNCHANGED <<keep, size, capacity, ch, trail>>
  BY DEF BuildLook, headerVars
<1>2. Measured /\ Sizes /\ Filled /\ Looked
  BY <1>1 DEF SInv, InArena
<1>3. PICK n \in 1..Len(trail) : trail[n].at = at /\ trail[n].size = used
  BY <1>1, <1>2 DEF Filled
<1>4. n \in 1..(Len(trail) - 1) /\ n + 1 \in 1..Len(trail)
  <2>1. n # Len(trail)
    <3>1. /\ trail[Len(trail)].at[1] >= Modes /\ Modes \in Nat
          /\ at[1] \in Nat /\ at[1] < Modes
      BY <1>1, <1>2, SizesAreNat DEF Filled, Sizes
    <3> QED BY <1>3, <3>1
  <2>2. Len(trail) \in Nat
    BY <1>2, TrailTypes
  <2> QED BY <2>1, <2>2
<1>5. /\ trail[n + 1].at = After(at) /\ trail[n + 1].size = used + SubmapSize(at)
      /\ trail[n + 1].size <= size /\ InMode(at)
  BY <1>2, <1>3, <1>4 DEF Measured, Sizes
<1>6. /\ SubmapSize(at) \in Nat /\ at' \in Nat \X Nat
      /\ at[1] \in 0..(Modes - 1) /\ at[2] \in 0..(MapOf(at[1]).submaps - 1)
      /\ at = <<at[1], at[2]>>
  BY <1>1, <1>2, <1>5, SubmapIsNat DEF Accepted, InArena, Sizes
<1>7. f \in 0..(ci.count["floors"] - 1) /\ flag \in {0, 1}
  BY <1>1, <1>6, SubmapsExist DEF Accepted, InArena
<1>8. Half(flag) \in Nat
  BY <1>7, SizesAreNat
<1>9. \/ /\ zero /\ Allocate(SubmapSize(at))
         /\ look_cache' = [look_cache EXCEPT ![<<f, flag>>] = Half(flag)]
      \/ /\ ~zero /\ SubmapSize(at) = 0
         /\ UNCHANGED <<used, null, look_cache>>
  <2>1. zero => SubmapSize(at) = LookAllocs(Half(flag), ci.param["floors"][f + 1])
    BY DEF SubmapSize, floor0_arena_size, LookAllocs
  <2> QED BY <2>1 DEF BuildLook, SubmapSize
<1> HIDE DEF f, flag, zero
<1>10. used' = used + SubmapSize(at) /\ null' = FALSE /\ used' \in Nat
  <2>1. used + SubmapSize(at) <= size /\ used \in Nat /\ null = FALSE
    BY <1>2, <1>5 DEF Sizes
  <2>2. CASE zero
    BY <1>1, <1>6, <1>9, <2>1, <2>2, Fits DEF InArena
  <2>3. CASE ~zero
    BY <1>9, <2>1, <2>3
  <2> QED BY <2>2, <2>3
<1>11. look_cache' \in [(0..(ci.count["floors"] - 1)) \X {0, 1} -> Nat]
  BY <1>2, <1>8, <1>9 DEF Measured
<1>12. Sizes'
  BY <1>1, <1>2, <1>6, <1>10 DEF Sizes, Unpacking, Early
<1>13. Measured'
  <2>1. \A p : /\ InMode(p)' <=> InMode(p)
               /\ After(p)' = After(p) /\ SubmapSize(p)' = SubmapSize(p)
    BY <1>1, SameSizes DEF InMode
  <2>2. FixedSize(keep)' = FixedSize(keep)
    BY <1>1, SameSizes DEF FixedSize
  <2> QED BY <1>1, <1>2, <1>11, <2>1, <2>2, SameSizes DEF Measured
<1>14. Filled'
  BY <1>1, <1>2, <1>4, <1>5, <1>10, SameSizes DEF Filled
<1>15. Looked'
  <2> SUFFICES ASSUME NEW m \in 0..(Modes - 1), NEW k \in 0..(MapOf(m).submaps - 1),
                      Passed(m, k)', ci.type["floors"][FloorAt(m, k) + 1] = 0
               PROVE  look_cache'[<<FloorAt(m, k), ModeAt(m).blockflag>>]
                        = Half(ModeAt(m).blockflag)
    <3>1. \A m, k : /\ MapOf(m)' = MapOf(m) /\ ModeAt(m)' = ModeAt(m)
                    /\ FloorAt(m, k)' = FloorAt(m, k)
                    /\ Half(ModeAt(m).blockflag)' = Half(ModeAt(m).blockflag)
      BY <1>1, SameSizes DEF Half
    <3> QED BY <1>1, <3>1, SameSizes DEF Looked
  <2>1. Passed(m, k) \/ (m = at[1] /\ k = at[2])
    <3>1. /\ m \in Nat /\ k \in Nat /\ at[1] \in Nat /\ at[2] \in Nat
          /\ m < at'[1] \/ (m = at'[1] /\ k < at'[2])
      BY <1>2, <1>6 DEF Sizes, Passed
    <3>2. MapOf(at[1]).submaps \in Nat /\ (m = at[1] => k < MapOf(at[1]).submaps)
      <4>1. MapOf(at[1]).submaps \in 1..16 /\ MapOf(m).submaps \in 1..16
        BY <1>1, <1>6, SubmapsExist DEF Accepted, InArena
      <4>2. k < MapOf(m).submaps
        <5> DEFINE z == MapOf(m).submaps
        <5>1. z \in 1..16 /\ k \in 0..(z - 1)
          BY <4>1
        <5> HIDE DEF z
        <5>2. k < z
          BY <5>1
        <5> QED BY <5>2 DEF z
      <4>3. MapOf(at[1]).submaps \in Nat
        <5> DEFINE z == MapOf(at[1]).submaps
        <5>1. z \in 1..16
          BY <4>1
        <5> HIDE DEF z
        <5>2. z \in Nat
          BY <5>1
        <5> QED BY <5>2 DEF z
      <4>4. m = at[1] => k < MapOf(at[1]).submaps
        BY <4>2, Zenon
      <4> QED BY <4>3, <4>4
    <3>3. \/ m < at[1] \/ (m = at[1] /\ k < at[2] + 1)
          \/ /\ ~(at[2] + 1 < MapOf(at[1]).submaps)
             /\ m < at[1] + 1 \/ (m = at[1] + 1 /\ k < 0)
      BY <1>1, <3>1 DEF After
    <3> HIDE DEF Passed
    <3>4. m < at[1] \/ (m = at[1] /\ k < at[2]) \/ (m = at[1] /\ k = at[2])
      BY <3>1, <3>2, <3>3, NextPlace
    <3> QED BY <3>4 DEF Passed
  <2>2. CASE m = at[1] /\ k = at[2]
    <3>1. zero /\ FloorAt(m, k) = f /\ ModeAt(m).blockflag = flag
      BY <2>2 DEF zero, f, flag
    <3> QED BY <1>2, <1>7, <1>9, <3>1 DEF Measured
  <2>3. CASE Passed(m, k)
    <3> DEFINE g == FloorAt(m, k)
               side == ModeAt(m).blockflag
    <3>1. look_cache[<<g, side>>] = Half(side)
      BY <1>2, <2>3 DEF Looked
    <3>2. <<g, side>> \in (0..(ci.count["floors"] - 1)) \X {0, 1}
      BY <1>1, SubmapsExist DEF Accepted, InArena
    <3> HIDE DEF g, side
    <3>3. CASE <<g, side>> = <<f, flag>>
      <4>1. side = flag /\ (zero => look_cache'[<<f, flag>>] = Half(flag))
        BY <1>2, <1>7, <1>9, <3>3 DEF Measured
      <4> QED BY <1>9, <3>1, <3>3, <4>1 DEF g, side
    <3>4. CASE <<g, side>> # <<f, flag>>
      <4>1. look_cache'[<<g, side>>] = look_cache[<<g, side>>]
        BY <1>2, <1>9, <3>2, <3>4 DEF Measured
      <4> QED BY <3>1, <4>1 DEF g, side
    <3> QED BY <3>3, <3>4
  <2> QED BY <2>1, <2>2, <2>3
<1> QED BY <1>1, <1>12, <1>13, <1>14, <1>15 DEF SInv

LEMMA LooksBuiltStep ==
  ASSUME SInv, HInv, LooksBuilt
  PROVE  SInv'
<1>1. /\ pc = "looks" /\ at[1] >= Modes /\ pc' = "ready" /\ UNCHANGED dspVars
      /\ vi' = vi /\ ci' = ci
      /\ UNCHANGED <<keep, size, capacity, used, null, ch, at, look_cache, trail>>
  BY DEF LooksBuilt, dspVars
<1>2. Measured /\ Sizes /\ Filled /\ Looked
  BY <1>1 DEF SInv, InArena
<1>3. used = size
  <2>1. PICK n \in 1..Len(trail) : trail[n].at = at /\ trail[n].size = used
    BY <1>1, <1>2 DEF Filled
  <2>2. n = Len(trail)
    <3>1. ASSUME n # Len(trail) PROVE FALSE
      <4>0. Len(trail) \in Nat /\ at \in Nat \X Nat
        BY <1>2, TrailTypes DEF Sizes
      <4>1. n \in 1..(Len(trail) - 1) /\ at \in Nat \X Nat
        BY <3>1, <4>0
      <4>2. at[1] < Modes /\ at[1] \in Nat /\ Modes \in Nat
        BY <1>2, <2>1, <4>1, SizesAreNat DEF Measured
      <4> QED BY <1>1, <4>2
    <3> QED BY <3>1
  <2> QED BY <1>2, <2>1, <2>2 DEF Measured
<1>4. Measured'
  BY <1>1, <1>2, MeasuredStays
<1>5. Filled'
  BY <1>1, <1>2, <1>3, SameSizes DEF Filled
<1>6. Looked'
  <2>1. \A m, k : /\ MapOf(m)' = MapOf(m) /\ ModeAt(m)' = ModeAt(m)
                  /\ FloorAt(m, k)' = FloorAt(m, k)
                  /\ Half(ModeAt(m).blockflag)' = Half(ModeAt(m).blockflag)
                  /\ Passed(m, k)' = Passed(m, k)
    BY <1>1, SameSizes DEF Half, Passed
  <2> QED BY <1>1, <1>2, <2>1, SameSizes DEF Looked
<1> QED BY <1>1, <1>2, <1>4, <1>5, <1>6 DEF SInv, Sizes, InArena, Unpacking, Early

-----------------------------------------------------------------------------
(* The set-up as a whole.                                                  *)

(* Away from the set-up only the sizes matter.                             *)
LEMMA Idle ==
  ASSUME Sizes, UNCHANGED <<size, capacity, used, null, ch, at>>,
         pc' \notin {"measure", "state"} \cup InArena,
         pc' \in Unpacking \cup {"accepted"} => used = 0
  PROVE  SInv'
BY DEF SInv, Sizes, InArena

LEMMA SetupInductive ==
  ASSUME HInv, SInv, [SetupNext]_allVars
  PROVE  SInv'
<1>1. CASE HeadersNext /\ UNCHANGED dspVars
  <2>1. /\ pc \in Unpacking
        /\ pc' \in Unpacking \cup {"accepted", "refused"}
    BY <1>1 DEF HeadersNext, ParseIdentification, vorbis_info_init, UnpackInfo,
         StartBooks, UnpackBook, BooksUnpacked, StartSection, ReadTime, ReadType,
         UnpackFields, CompleteStruct, EndSection, SomeFail, Refuse, Unpacking,
         Early
  <2>2. UNCHANGED <<size, capacity, used, null, ch, at>>
    BY <1>1 DEF dspVars
  <2>3. Sizes /\ used = 0
    BY <2>1 DEF SInv, Sizes
  <2> QED BY <2>1, <2>2, <2>3, Idle DEF Unpacking, Early, InArena
<1>2. CASE vorbis_dsp_clear \/ vorbis_info_clear
  <2>1. /\ pc' \in {"without_dsp", "cleared"}
        /\ UNCHANGED <<size, capacity, used, null, ch, at>>
    BY <1>2 DEF vorbis_dsp_clear, vorbis_info_clear, dspVars
  <2> QED BY <2>1, Idle DEF SInv, Unpacking, Early, InArena
<1>3. CASE UNCHANGED allVars
  <2>1. /\ vi' = vi /\ ci' = ci /\ pc' = pc
        /\ UNCHANGED <<keep, size, capacity, used, null, ch, at, look_cache, trail>>
    BY <1>3 DEF allVars, headerVars, dspVars
  <2>2. Measured => Measured'
    BY <2>1, MeasuredStays
  <2>3. FixedSize(keep)' = FixedSize(keep)
    BY <2>1, SameSizes DEF FixedSize
  <2>4. Filled => Filled'
    BY <2>1, <2>3, SameSizes DEF Filled
  <2>5. Looked => Looked'
    <3>1. \A m, k : /\ MapOf(m)' = MapOf(m) /\ ModeAt(m)' = ModeAt(m)
                    /\ FloorAt(m, k)' = FloorAt(m, k)
                    /\ Half(ModeAt(m).blockflag)' = Half(ModeAt(m).blockflag)
                    /\ Passed(m, k)' = Passed(m, k)
      BY <2>1, SameSizes DEF Half, Passed
    <3> QED BY <2>1, <3>1, SameSizes DEF Looked
  <2> QED BY <2>1, <2>2, <2>4, <2>5 DEF SInv, Sizes
<1> QED BY <1>1, <1>2, <1>3, StartSetupStep, MeasureStep, AllocArenaStep,
           AllocStateStep, AllocWorkStep, AllocTailsStep, AllocModesStep,
           BuildLookStep, LooksBuiltStep DEF SetupNext

(* Both invariants, together.                                              *)
THEOREM SetupIsInductive == SetupSpec => [](HInv /\ SInv)
<1>1. SetupInit => SInv
  BY DEF SetupInit, HeadersInit, SInv, Sizes, InArena
<1> QED BY <1>1, HeadersStart, HeadersInductive, SetupInductive, PTL DEF SetupSpec

(* _vorbis_dsp_arena_compute_size adds up just what _vds_init and          *)
(* mapping0_look take, whatever the stream, the sizes of the structs and   *)
(* the channels kept: no allocation returns NULL and none is left over.    *)
THEOREM ArenaIsExactly == SetupSpec => []ArenaIsExact
<1>1. SInv => ArenaIsExact
  BY DEF SInv, Sizes, Filled, InArena, ArenaIsExact
<1> QED BY <1>1, SetupIsInductive, PTL

(* The two parsers agree, and a decoder that is set up has for every mode  *)
(* and channel the submap, floor, residue and look a packet asks for.      *)
THEOREM HeadersSound == SetupSpec => []HeadersAreSound
<1>1. HInv => ParsersAgree
  BY Agreement DEF HInv, Types, InOrder, ParsersAgree
<1>2. ASSUME HInv, SInv, pc = "ready",
             NEW m \in 0..(Modes - 1), NEW c \in Channels
      PROVE  Decodable(m, c)
  <2> DEFINE map == MapOf(m)
             n == map.chmuxlist[c]
  <2>1. /\ ModeAt(m).blockflag \in {0, 1} /\ MappingOK(map)
        /\ map.submaps \in 1..16
    BY <1>2, SubmapsExist DEF Accepted, InArena
  <2>2. n \in 0..(map.submaps - 1)
    BY <2>1 DEF MappingOK, Channels
  <2>3. /\ FloorAt(m, n) = map.floorsubmap[n]
        /\ FloorAt(m, n) \in 0..(ci.count["floors"] - 1)
        /\ map.residuesubmap[n] \in 0..(ci.count["residues"] - 1)
    BY <2>1, <2>2 DEF MappingOK, FloorAt
  <2>4. Passed(m, n)
    <3>1. at[1] >= Modes /\ at[1] \in Nat /\ Modes \in Nat
      BY <1>2, SizesAreNat DEF SInv, Sizes, Filled, InArena
    <3> QED BY <3>1 DEF Passed
  <2>5. Looked
    BY <1>2 DEF SInv
  <2> HIDE DEF n
  <2>6. ci.type["floors"][FloorAt(m, n) + 1] = 0
          => look_cache[<<FloorAt(m, n), ModeAt(m).blockflag>>]
               = Half(ModeAt(m).blockflag)
    BY <2>2, <2>4, <2>5 DEF Looked
  <2>7. ci.type["floors"][map.floorsubmap[n] + 1] = 0
          => look_cache[map.floorsubmap[n], ModeAt(m).blockflag]
               = Half(ModeAt(m).blockflag)
    BY <2>3, <2>6, Zenon
  <2>8. map.floorsubmap[n] \in 0..(ci.count["floors"] - 1)
    BY <2>3, Zenon
  <2> QED BY <2>2, <2>3, <2>7, <2>8, Zenon DEF Decodable, n
<1>3. HInv /\ SInv => HeadersAreSound
  BY <1>1, <1>2 DEF HeadersAreSound
<1> QED BY <1>3, SetupIsInductive, PTL
=============================================================================
