-------------------------- MODULE SynthesisProofs --------------------------
(***************************************************************************)
(* What comes out of Tremor's synthesis state, and where it stands.        *)
(*                                                                         *)
(* blockin counts as the encoder does, for every pair of block sizes, cut  *)
(* of the start, length of the stream and pattern of losses: the           *)
(* properties of GranulePosition follow from one inductive invariant,      *)
(* Counting.                                                               *)
(*                                                                         *)
(* What mdct_unroll_lap puts out is the lap of the two blocks, for every   *)
(* pair of block sizes and every part of the frame, and it reads inside    *)
(* its arrays.  From there the loop over the strips: every frame comes out *)
(* whole and in order, whatever the length of a strip.                     *)
(***************************************************************************)
EXTENDS GranulePosition, StripReadout, TremorDspProofs

Quarter(w) == BlockSizes[w] \div 4

Typed ==
  /\ skip \in Nat /\ flag \in {-1, 0, 1} /\ made \in Nat
  /\ marked \in Int /\ marked >= -1
  /\ packetno \in Nat /\ packetno >= 3 /\ lost \in Nat /\ ended \in BOOLEAN
  /\ vd \in DspType /\ played \in Nat

(* The number of the block decoded last is behind that of the next packet, *)
(* and right behind when nothing was lost; the window opens with the first *)
(* block, and nothing in it is unread.                                     *)
Numbered ==
  /\ flag = -1 <=> packetno = 3
  /\ flag = -1 => made = 0 /\ marked = -1
  /\ vd.sequence = -1 \/ vd.sequence \in 3..(packetno - 1)
  /\ vd.sequence = -1 <=> vd.out_begin = -1
  /\ vd.sequence = -1 => vd.granulepos = -1 /\ played = 0
  /\ lost = 0 /\ packetno > 3 => vd.sequence = packetno - 1
  /\ ~Unread(vd)

(* When the block decoded last is the encoder's last, it has its flag, and *)
(* its position if Tremor has any.                                         *)
InStep ==
  vd.sequence = packetno - 1 =>
    /\ flag = vd.W
    /\ vd.granulepos # -1 =>
         vd.granulepos = IF ended THEN marked ELSE made - skip

(* Without a loss Tremor knows a position from the first page on; it has   *)
(* played all the samples before that, and those of the position after.    *)
Lossless ==
  lost = 0 =>
    /\ vd.granulepos = -1 <=> marked = -1
    /\ vd.granulepos = -1 => played = made
    /\ vd.granulepos # -1 => played = vd.granulepos
    /\ packetno > 3 => vd.sample_count = made

(* A block after a gap laps with one before it that may be longer than the *)
(* ones lost; what it may play more is less than what these had to give.   *)
Behind ==
  /\ played <= made
  /\ vd.sequence # -1 => played + Quarter(vd.W) <= made + Quarter(flag)

Counting == Typed /\ Numbered /\ InStep /\ Lossless /\ Behind

-----------------------------------------------------------------------------
(* What vorbis_synthesis_blockin does to the counts and the window.        *)

Gap(v, n) == v.sequence = -1 \/ v.sequence + 1 # n
Known(v, n) == IF Gap(v, n) THEN -1 ELSE v.granulepos
Lap(v, Wn) == Quarter(v.W) + Quarter(Wn)
CountOf(v, Wn, n) ==
  IF Gap(v, n) \/ v.sample_count = -1 THEN 0 ELSE v.sample_count + Lap(v, Wn)
Readies(v, Wn) == IF v.out_begin = -1 THEN 0 ELSE Lap(v, Wn)

(* The samples beyond the position g of the packet, of those ready: past   *)
(* the end of the stream once a position is known.                         *)
BeyondEnd(reached, g, eos) == IF eos /\ reached > g THEN reached - g ELSE 0
Beyond(v, Wn, g, eos, n) ==
  IF g = -1 THEN 0
  ELSE IF Known(v, n) = -1
    THEN IF CountOf(v, Wn, n) > g THEN CountOf(v, Wn, n) - g ELSE 0
  ELSE BeyondEnd(Known(v, n) + Lap(v, Wn), g, eos)

LEMMA QuarterIsNat == \A w \in Flags : Quarter(w) \in Nat
<1>1. \A w \in Flags : BlockSizes[w] \in Nat
  BY EncoderAssumption DEF BlockSizesOK
<1>2. \A n \in Nat : n \div 4 \in Nat
  OBVIOUS
<1> QED BY <1>1, <1>2 DEF Quarter

LEMMA LapIsNat ==
  ASSUME NEW v \in DspType, NEW Wn \in Flags
  PROVE  Lap(v, Wn) \in Nat
BY QuarterIsNat DEF Lap, DspType

LEMMA BeyondIsNat ==
  ASSUME NEW v \in DspType, NEW Wn \in Flags, NEW g \in Int,
         NEW eos \in BOOLEAN, NEW n \in Nat
  PROVE  Beyond(v, Wn, g, eos, n) \in Nat
<1>1. /\ Known(v, n) \in Int /\ Lap(v, Wn) \in Nat
      /\ CountOf(v, Wn, n) \in Int
  BY LapIsNat DEF Known, CountOf, DspType
<1> QED BY <1>1 DEF Beyond, BeyondEnd

(* Both ends of the window give the same samples up.                       *)
LEMMA TrimTakes ==
  ASSUME NEW v \in DspType, 0 <= v.out_begin, v.out_begin = 0,
         v.out_end \in Nat, NEW extra \in Nat
  PROVE  /\ PcmAvail(TrimEnd(v, extra)) = v.out_end - Lesser(extra, v.out_end)
         /\ PcmAvail(TrimBegin(v, extra)) = v.out_end - Lesser(extra, v.out_end)
         /\ TrimEnd(v, extra).out_begin >= 0
         /\ TrimBegin(v, extra).out_begin >= 0
<1>1. /\ TrimEnd(v, extra).out_begin = v.out_begin
      /\ TrimEnd(v, extra).out_end = v.out_end - Lesser(extra, v.out_end - 0)
      /\ TrimBegin(v, extra).out_begin = Lesser(0 + extra, v.out_end)
      /\ TrimBegin(v, extra).out_end = v.out_end
  BY DEF TrimEnd, TrimBegin, DspType
<1> QED BY <1>1 DEF PcmAvail, Unread, Lesser

LEMMA BlockinTells ==
  ASSUME NEW v \in DspType, NEW p \in PacketType, NEW n \in Nat, p.decodable,
         p.granulepos >= -1
  PROVE  LET b == Blockin(BlockSizes, Synthesis(v, p, n), p, n)
         IN  /\ b \in DspType /\ b.out_begin >= 0
             /\ b.sequence = n /\ b.W = p.W
             /\ b.sample_count = CountOf(v, p.W, n)
             /\ b.granulepos =
                  IF p.granulepos # -1 THEN p.granulepos
                  ELSE IF Known(v, n) = -1 THEN -1
                  ELSE Known(v, n) + Lap(v, p.W)
             /\ PcmAvail(b) = Readies(v, p.W)
                                - Lesser(Beyond(v, p.W, p.granulepos, p.eos, n),
                                         Readies(v, p.W))
<1> DEFINE y == Synthesis(v, p, n)
           t == Turn(y, p, n)
           o == OpenWindow(BlockSizes, t)
           c == CountSamples(BlockSizes, o)
           g == TrackGranule(BlockSizes, c, p)
           b == Blockin(BlockSizes, y, p, n)
<1>1. /\ y \in DspType /\ y.out_begin = v.out_begin /\ y.W = v.W
      /\ y.sequence = v.sequence /\ y.granulepos = v.granulepos
      /\ y.sample_count = v.sample_count
  <2>1. y.granulepos = v.granulepos /\ y.sample_count = v.sample_count
    BY DEF Synthesis, DspType
  <2> QED BY <2>1, SynthesisKeeps
<1> HIDE DEF y
<1>2. /\ t \in DspType /\ t.out_begin = v.out_begin
      /\ t.lW = v.W /\ t.W = p.W /\ t.sequence = n
      /\ t.granulepos = Known(v, n)
      /\ t.sample_count = IF Gap(v, n) THEN -1 ELSE v.sample_count
  <2>1. /\ t.granulepos = Known(v, n)
        /\ t.sample_count = IF Gap(v, n) THEN -1 ELSE v.sample_count
    BY <1>1 DEF Turn, DspType, Known, Gap
  <2> QED BY <1>1, <2>1, TurnType
<1> HIDE DEF t
<1>3. Span(BlockSizes, t) = Lap(v, p.W) /\ Lap(v, p.W) \in Nat
  BY <1>2, LapIsNat DEF Span, Lap, Quarter, PacketType
<1>4. /\ o \in DspType /\ SameBlocks(o, t) /\ o.out_begin = 0
      /\ o.out_end = Readies(v, p.W)
      /\ o.granulepos = t.granulepos /\ o.sample_count = t.sample_count
  <2>1. /\ o.out_begin = 0 /\ o.granulepos = t.granulepos
        /\ o.sample_count = t.sample_count
        /\ o.out_end = Readies(v, p.W)
    BY <1>2, <1>3 DEF OpenWindow, DspType, Readies
  <2> QED BY <1>2, <2>1, OpenWindowReadable, EncoderAssumption
<1> HIDE DEF o
<1>5. Span(BlockSizes, o) = Lap(v, p.W)
  BY <1>3, <1>4 DEF Span, SameBlocks
<1>6. Readies(v, p.W) \in Nat
  BY <1>3 DEF Readies
<1>7. /\ c \in DspType /\ SameBlocks(c, t) /\ c.out_begin = 0
      /\ c.out_end = Readies(v, p.W) /\ c.granulepos = Known(v, n)
      /\ c.sample_count = CountOf(v, p.W, n)
  <2>1. /\ c.out_begin = 0 /\ c.out_end = Readies(v, p.W)
        /\ c.granulepos = Known(v, n)
        /\ c.sample_count = CountOf(v, p.W, n)
    BY <1>2, <1>4, <1>5 DEF CountSamples, DspType, CountOf
  <2>2. Readable(o, Readies(v, p.W))
    BY <1>4, <1>6 DEF Readable
  <2>3. c \in DspType /\ SameBlocks(c, o)
    BY <1>4, <1>6, <2>2, CountSamplesReadable, EncoderAssumption
  <2> QED BY <1>4, <2>1, <2>3, SameBlocksTransitive
<1>8. Span(BlockSizes, c) = Lap(v, p.W)
  BY <1>3, <1>7 DEF Span, SameBlocks
<1> HIDE DEF c
<1>9. /\ p.granulepos \in Int /\ p.eos \in BOOLEAN
      /\ p.granulepos # -1 => \A x : Excess(x, p.granulepos) = x - p.granulepos
  BY DEF PacketType, Excess
<1> DEFINE E == Beyond(v, p.W, p.granulepos, p.eos, n)
           top == Readies(v, p.W)
<1>10. ASSUME NEW x \in Int,
              g \in {h \in {[c EXCEPT !.granulepos = x]} : E = 0}
                \cup {TrimEnd([c EXCEPT !.granulepos = x], E),
                      TrimBegin([c EXCEPT !.granulepos = x], E)}
       PROVE  /\ g \in DspType /\ SameBlocks(g, c) /\ g.out_begin >= 0
              /\ g.sample_count = c.sample_count /\ g.granulepos = x
              /\ PcmAvail(g) = top - Lesser(E, top)
  <2> DEFINE h == [c EXCEPT !.granulepos = x]
  <2>1. /\ h \in DspType /\ SameBlocks(h, c) /\ Readable(h, top)
        /\ h.granulepos = x /\ h.sample_count = c.sample_count
        /\ h.out_begin = 0 /\ h.out_end = top
    <3>1. Readable(c, top) /\ top \in Int
      BY <1>6, <1>7 DEF Readable
    <3>2. /\ h.granulepos = x /\ h.sample_count = c.sample_count
          /\ h.out_begin = c.out_begin /\ h.out_end = c.out_end
      BY <1>7 DEF DspType
    <3> HIDE DEF top
    <3>3. h \in DspType /\ SameBlocks(h, c) /\ Readable(h, top)
      BY <1>7, <3>1, PositionReadable
    <3> QED BY <1>7, <3>2, <3>3 DEF top
  <2>2. E \in Nat
    BY BeyondIsNat DEF PacketType
  <2> HIDE DEF h, E, top
  <2>3. CASE g = h /\ E = 0
    <3>1. top \in Nat
      BY <1>6 DEF top
    <3> QED BY <2>1, <2>3, <3>1 DEF PcmAvail, Unread, Lesser
  <2>4. CASE g = TrimEnd(h, E) \/ g = TrimBegin(h, E)
    <3>1. top \in Nat
      BY <1>6 DEF top
    <3>2. /\ g \in DspType /\ SameBlocks(g, h)
          /\ g.out_begin >= 0 /\ PcmAvail(g) = top - Lesser(E, top)
      BY <2>1, <2>2, <2>4, <3>1, TrimReadable, TrimTakes
    <3>3. g.sample_count = h.sample_count /\ g.granulepos = h.granulepos
      BY <2>1, <2>4 DEF TrimEnd, TrimBegin, DspType
    <3> QED BY <2>1, <3>2, <3>3, SameBlocksTransitive
  <2> QED BY <1>10, <2>3, <2>4 DEF h
<1>11. /\ g \in DspType /\ SameBlocks(g, c) /\ g.out_begin >= 0
       /\ g.sample_count = c.sample_count
       /\ g.granulepos = IF p.granulepos # -1 THEN p.granulepos
                         ELSE IF Known(v, n) = -1 THEN -1
                         ELSE Known(v, n) + Lap(v, p.W)
       /\ PcmAvail(g) = top - Lesser(E, top)
  <2>1. Known(v, n) \in Int /\ CountOf(v, p.W, n) \in Int
    BY <1>3 DEF Known, CountOf, DspType
  <2>2. CASE Known(v, n) = -1
    <3>1. g = TrackFirstGranule(c, p)
      BY <1>7, <2>2 DEF g, TrackGranule
    <3>2. CASE p.granulepos = -1
      <4>1. g = [c EXCEPT !.granulepos = -1]
        BY <1>7, <2>2, <3>1, <3>2 DEF TrackFirstGranule, DspType
      <4>2. E = 0
        BY <3>2 DEF Beyond
      <4> HIDE DEF E, top
      <4> QED BY <2>2, <3>2, <4>1, <4>2, <1>10
    <3>3. CASE p.granulepos # -1
      <4>1. g \in {h \in {[c EXCEPT !.granulepos = p.granulepos]} : E = 0}
                \cup {TrimEnd([c EXCEPT !.granulepos = p.granulepos], E),
                      TrimBegin([c EXCEPT !.granulepos = p.granulepos], E)}
        BY <1>7, <1>9, <2>1, <2>2, <3>1, <3>3 DEF TrackFirstGranule, Beyond
      <4> HIDE DEF E, top
      <4> QED BY <1>9, <3>3, <4>1, <1>10
    <3> QED BY <3>2, <3>3
  <2>3. CASE Known(v, n) # -1
    <3> DEFINE reached == Known(v, n) + Lap(v, p.W)
               x == IF p.granulepos = -1 THEN reached ELSE p.granulepos
    <3>1. g = TrackNextGranule(BlockSizes, c, p)
      BY <1>7, <2>3 DEF g, TrackGranule
    <3>2. reached \in Int /\ x \in Int
      BY <1>3, <1>9, <2>1
    <3>3. g \in {h \in {[c EXCEPT !.granulepos = x]} : E = 0}
                \cup {TrimEnd([c EXCEPT !.granulepos = x], E),
                      TrimBegin([c EXCEPT !.granulepos = x], E)}
      <4> DEFINE past == p.granulepos # -1 /\ reached > p.granulepos /\ p.eos
                 h == [c EXCEPT !.granulepos = x]
      <4>1. c.granulepos + Span(BlockSizes, c) = reached
        BY <1>7, <1>8
      <4>2. g = IF past THEN TrimEnd(h, Excess(reached, p.granulepos)) ELSE h
        BY <3>1, <4>1 DEF TrackNextGranule
      <4>3. CASE past
        <5>1. E = reached - p.granulepos
          <6>1. E = BeyondEnd(reached, p.granulepos, p.eos)
            BY <2>3, <4>3, Zenon DEF Beyond
          <6> HIDE DEF E, reached, g, h
          <6> QED BY <1>9, <3>2, <4>3, <6>1 DEF BeyondEnd
        <5>2. Excess(reached, p.granulepos) = reached - p.granulepos
          BY <1>9, <4>3
        <5> QED BY <4>2, <4>3, <5>1, <5>2
      <4>4. CASE ~past
        <5>1. E = 0
          BY <2>3, <4>4 DEF Beyond, BeyondEnd
        <5> QED BY <4>2, <4>4, <5>1
      <4> QED BY <4>3, <4>4
    <3> HIDE DEF E, top
    <3>4. /\ g \in DspType /\ SameBlocks(g, c) /\ g.out_begin >= 0
          /\ g.sample_count = c.sample_count /\ g.granulepos = x
          /\ PcmAvail(g) = top - Lesser(E, top)
      <4> HIDE DEF x
      <4> QED BY <3>2, <3>3, <1>10
    <3> QED BY <2>3, <3>4
  <2> QED BY <2>2, <2>3
<1> HIDE DEF g, E, top
<1>12. /\ b \in DspType /\ SameBlocks(b, g) /\ b.out_begin = g.out_begin
       /\ b.out_end = g.out_end /\ b.granulepos = g.granulepos
       /\ b.sample_count = g.sample_count
  <2> DEFINE flagged == g.eofflag \/ p.eos
  <2>1. b = [g EXCEPT !.eofflag = flagged]
    BY DEF Blockin, g, c, o, t
  <2>2. flagged \in BOOLEAN
    OBVIOUS
  <2> HIDE DEF b, flagged
  <2> QED BY <1>11, <2>1, <2>2 DEF DspType, SameBlocks
<1> HIDE DEF b
<1>13. PcmAvail(b) = PcmAvail(g)
  BY <1>12 DEF PcmAvail, Unread
<1>14. b.sequence = n /\ b.W = p.W
  BY <1>2, <1>7, <1>11, <1>12 DEF SameBlocks
<1>15. b.sample_count = CountOf(v, p.W, n)
  BY <1>7, <1>11, <1>12
<1> QED
  BY <1>11, <1>12, <1>13, <1>14, <1>15 DEF b, y, top, E

-----------------------------------------------------------------------------
(* The encoder.                                                            *)

LEMMA MakesIsNat ==
  ASSUME Typed, NEW Wn \in Flags
  PROVE  /\ Makes(Wn) \in Nat
         /\ flag = -1 => Makes(Wn) = 0
         /\ flag # -1 => Makes(Wn) = Quarter(flag) + Quarter(Wn)
<1>1. flag # -1 => flag \in Flags
  BY DEF Typed, Flags
<1> QED BY <1>1, QuarterIsNat DEF Makes, Quarter

LEMMA MarkOf ==
  ASSUME Typed, NEW Wn \in Flags, NEW eos \in BOOLEAN, NEW g \in Marks(Wn, eos)
  PROVE  /\ g \in Int /\ g >= -1
         /\ eos => /\ g >= 0 /\ g <= made + Makes(Wn) - skip
                   /\ g >= made - skip /\ (marked = -1 => skip = 0)
         /\ ~eos /\ g # -1 => /\ g = made + Makes(Wn) - skip /\ g >= 0
                              /\ (marked = -1 => skip <= Makes(Wn))
<1>1. made \in Nat /\ skip \in Nat /\ Makes(Wn) \in Nat
  BY MakesIsNat DEF Typed
<1> QED BY <1>1 DEF Marks

(* A lost packet.                                                          *)
LEMMA LoseStep ==
  ASSUME Counting, NEW Wn \in Flags, NEW g, Lose(Wn, g)
  PROVE  Counting'
<1>1. /\ g \in Int /\ g >= -1 /\ Makes(Wn) \in Nat
      /\ flag = -1 => Makes(Wn) = 0
      /\ flag # -1 => Makes(Wn) = Quarter(flag) + Quarter(Wn)
  BY MarkOf, MakesIsNat DEF Counting, Lose
<1>2. vd' = vd
  BY DEF Lose, Synthesis
<1>3. Wn \in {0, 1}
  BY DEF Flags
<1>4. Typed'
  BY <1>1, <1>2, <1>3 DEF Counting, Typed, Lose
<1>5. Numbered'
  BY <1>2, <1>3 DEF Counting, Typed, Numbered, Lose
<1>6. InStep' /\ Lossless'
  <2>1. vd.sequence < packetno
    BY DEF Counting, Typed, Numbered
  <2> QED BY <1>2, <2>1 DEF Counting, Typed, InStep, Lossless, Lose
<1>7. Behind'
  <2>1. vd.sequence # -1 => flag # -1
    BY DEF Counting, Typed, Numbered
  <2>2. /\ flag # -1 => Quarter(flag) \in Nat
        /\ Quarter(Wn) \in Nat
        /\ vd.W \in Flags /\ Quarter(vd.W) \in Nat
    BY QuarterIsNat DEF Counting, Typed, Flags, DspType
  <2> QED BY <1>1, <1>2, <2>1, <2>2 DEF Counting, Typed, Behind, Lose
<1> QED BY <1>4, <1>5, <1>6, <1>7 DEF Counting

LEMMA DrainTells ==
  ASSUME NEW v \in DspType, v.out_begin >= 0
  PROVE  LET d == Drain(v)
         IN  /\ d \in DspType /\ ~Unread(d) /\ d.out_begin # -1
             /\ d.sequence = v.sequence /\ d.W = v.W
             /\ d.granulepos = v.granulepos
             /\ d.sample_count = v.sample_count
<1>1. v.out_begin \in Int /\ v.out_end \in Int
  BY DEF DspType
<1>2. /\ Drain(v).granulepos = v.granulepos
      /\ Drain(v).sample_count = v.sample_count
  BY DEF Drain, DspType
<1>3. /\ Drain(v) \in DspType /\ SameBlocks(Drain(v), v)
      /\ Drain(v).out_end = v.out_end
      /\ Drain(v).out_begin = IF Unread(v) THEN v.out_end ELSE v.out_begin
  BY DrainEmpties
<1>4. /\ Drain(v).sequence = v.sequence /\ Drain(v).W = v.W
  BY <1>3 DEF SameBlocks
<1>5. ~Unread(Drain(v)) /\ Drain(v).out_begin # -1
  BY <1>1, <1>3 DEF Unread
<1> QED BY <1>2, <1>3, <1>4, <1>5

(* A packet that arrives is decoded, counted and read out.                 *)
LEMMA SendStep ==
  ASSUME Counting, NEW Wn \in Flags, NEW g, NEW eos \in BOOLEAN,
         Send(Wn, g, eos)
  PROVE  Counting'
<1> DEFINE p == [decodable |-> TRUE, W |-> Wn, granulepos |-> g, eos |-> eos]
           b == Blockin(BlockSizes, Synthesis(vd, p, packetno), p, packetno)
           taken == PcmAvail(b)
           beyond == Beyond(vd, Wn, g, eos, packetno)
           ready == Readies(vd, Wn)
<1>1. /\ g \in Int /\ g >= -1
      /\ eos => /\ g >= 0 /\ g <= made + Makes(Wn) - skip
                /\ g >= made - skip /\ (marked = -1 => skip = 0)
      /\ ~eos /\ g # -1 => /\ g = made + Makes(Wn) - skip /\ g >= 0
                           /\ (marked = -1 => skip <= Makes(Wn))
  BY MarkOf DEF Counting, Send
<1>2. /\ Makes(Wn) \in Nat /\ Quarter(Wn) \in Nat
      /\ flag = -1 => Makes(Wn) = 0
      /\ flag # -1 => /\ Makes(Wn) = Quarter(flag) + Quarter(Wn)
                      /\ Quarter(flag) \in Nat
  BY MakesIsNat, QuarterIsNat DEF Counting, Typed, Flags
<1>3. p \in PacketType /\ p.decodable /\ p.W = Wn /\ p.granulepos = g
      /\ p.granulepos >= -1 /\ p.eos = eos
  BY <1>1 DEF PacketType
<1>4. /\ vd \in DspType /\ packetno \in Nat /\ packetno >= 3
      /\ vd.W \in Flags /\ Quarter(vd.W) \in Nat
      /\ vd.sequence \in Int /\ vd.granulepos \in Int
      /\ vd.sample_count \in Int
  BY QuarterIsNat DEF Counting, Typed, DspType
<1>5. vd' = Drain(b) /\ played' = played + taken
  BY DEF Send, Play
<1>6. /\ b \in DspType /\ b.out_begin >= 0
      /\ b.sequence = packetno /\ b.W = Wn
      /\ b.sample_count = CountOf(vd, Wn, packetno)
      /\ b.granulepos =
           IF g # -1 THEN g
           ELSE IF Known(vd, packetno) = -1 THEN -1
           ELSE Known(vd, packetno) + Lap(vd, Wn)
      /\ taken = ready - Lesser(beyond, ready)
  <2>1. Beyond(vd, p.W, p.granulepos, p.eos, packetno) = beyond
    OBVIOUS
  <2> HIDE DEF p, beyond
  <2> QED BY <1>3, <1>4, <2>1, BlockinTells
<1>7. beyond \in Nat
  BY <1>1, <1>4, BeyondIsNat
<1>8. beyond =
        IF g = -1 THEN 0
        ELSE IF Known(vd, packetno) = -1
          THEN IF CountOf(vd, Wn, packetno) > g
               THEN CountOf(vd, Wn, packetno) - g ELSE 0
        ELSE BeyondEnd(Known(vd, packetno) + Lap(vd, Wn), g, eos)
  BY DEF Beyond
<1> HIDE DEF p, b, taken, beyond, ready
<1>9. /\ vd' \in DspType /\ ~Unread(vd)' /\ vd'.out_begin # -1
      /\ vd'.sequence = packetno /\ vd'.W = Wn
      /\ vd'.sample_count = b.sample_count
      /\ vd'.granulepos = b.granulepos
  BY <1>5, <1>6, DrainTells
<1>10. /\ Lap(vd, Wn) = Quarter(vd.W) + Quarter(Wn)
       /\ ready = IF vd.sequence = -1 THEN 0 ELSE Lap(vd, Wn)
       /\ ready \in Nat /\ taken \in Nat /\ taken <= ready
  <2>1. /\ Lap(vd, Wn) = Quarter(vd.W) + Quarter(Wn) /\ Lap(vd, Wn) \in Nat
        /\ ready = IF vd.sequence = -1 THEN 0 ELSE Lap(vd, Wn)
    BY <1>2, <1>4 DEF Lap, ready, Readies, Counting, Numbered
  <2>2. ready \in Nat
    BY <2>1
  <2> QED BY <1>6, <1>7, <2>1, <2>2 DEF Lesser
<1>11. Typed'
  BY <1>1, <1>2, <1>4, <1>5, <1>9, <1>10 DEF Counting, Typed, Send, Flags
<1>12. Numbered'
  <2>1. /\ flag' = Wn /\ packetno' = packetno + 1 /\ Wn # -1
    BY DEF Send, Flags
  <2> QED BY <1>4, <1>9, <2>1 DEF Numbered
<1>13. /\ lost' = lost /\ skip' = skip /\ flag' = Wn /\ ended' = eos /\ ~ended
       /\ packetno' = packetno + 1 /\ made' = made + Makes(Wn)
       /\ marked' = IF g = -1 THEN marked ELSE g
       /\ played' = played + taken
  BY <1>5 DEF Send
<1>14. ASSUME Gap(vd, packetno)
       PROVE  InStep' /\ Lossless'
  <2>1. Known(vd, packetno) = -1 /\ CountOf(vd, Wn, packetno) = 0
    BY <1>14 DEF Known, CountOf
  <2>2. InStep'
    <3>1. made \in Nat /\ skip \in Nat
      BY DEF Counting, Typed
    <3> QED BY <1>1, <1>2, <1>4, <1>6, <1>9, <1>13, <2>1, <3>1 DEF InStep
  <2>3. Lossless'
    <3> SUFFICES ASSUME lost = 0 PROVE Lossless'
      BY <1>13 DEF Lossless
    <3>1. packetno = 3
      BY <1>4, <1>14 DEF Counting, Numbered, Gap
    <3>2. /\ flag = -1 /\ made = 0 /\ marked = -1 /\ vd.sequence = -1
          /\ played = 0
      BY <3>1, <1>4 DEF Counting, Numbered
    <3>3. taken = 0 /\ Makes(Wn) = 0
      BY <1>2, <1>10, <3>2
    <3>4. g # -1 => g = 0
      BY <1>1, <3>2, <3>3 DEF Counting, Typed
    <3> QED BY <1>1, <1>6, <1>9, <1>13, <2>1, <3>2, <3>3, <3>4 DEF Lossless
  <2> QED BY <2>2, <2>3
<1>15. ASSUME ~Gap(vd, packetno)
       PROVE  InStep' /\ Lossless'
  <2>1. vd.sequence = packetno - 1 /\ vd.sequence # -1 /\ packetno > 3
    BY <1>4, <1>15 DEF Gap, Counting, Numbered
  <2>2. /\ flag = vd.W /\ flag # -1 /\ Lap(vd, Wn) = Makes(Wn)
        /\ ready = Makes(Wn)
    <3>1. flag = vd.W
      BY <2>1 DEF Counting, InStep
    <3> QED BY <1>2, <1>4, <1>10, <2>1, <3>1 DEF Flags
  <2>3. /\ Known(vd, packetno) = vd.granulepos
        /\ vd.granulepos # -1 => vd.granulepos = made - skip
    BY <1>13, <1>15, <2>1 DEF Known, Counting, InStep
  <2>4. InStep'
    <3>1. made \in Nat /\ skip \in Nat
      BY DEF Counting, Typed
    <3> QED BY <1>1, <1>2, <1>4, <1>6, <1>9, <1>13, <2>2, <2>3, <3>1 DEF InStep
  <2>5. Lossless'
    <3> SUFFICES ASSUME lost = 0 PROVE Lossless'
      BY <1>13 DEF Lossless
    <3>1. /\ vd.granulepos = -1 <=> marked = -1
          /\ vd.granulepos = -1 => played = made
          /\ vd.granulepos # -1 => played = vd.granulepos
          /\ vd.sample_count = made /\ made \in Nat /\ skip \in Nat
          /\ played \in Nat
      BY <2>1 DEF Counting, Typed, Lossless
    <3>2. CountOf(vd, Wn, packetno) = made + Makes(Wn)
      BY <1>15, <2>2, <3>1 DEF CountOf
    <3>3. vd'.sample_count = made'
      BY <1>6, <1>9, <1>13, <3>2
    <3>4. vd'.granulepos = -1 <=> marked' = -1
      BY <1>1, <1>2, <1>6, <1>9, <1>13, <2>2, <2>3, <3>1
    <3>5. CASE g = -1
      <4>1. taken = Makes(Wn)
        BY <1>2, <1>6, <1>8, <2>2, <3>5 DEF Lesser
      <4> QED BY <1>2, <1>6, <1>9, <1>13, <2>2, <2>3, <3>1, <3>3, <3>4, <3>5,
                 <4>1 DEF Lossless
    <3>6. CASE g # -1 /\ vd.granulepos = -1
      <4>1. beyond = made + Makes(Wn) - g /\ beyond >= 0 /\ beyond <= Makes(Wn)
        BY <1>1, <1>2, <1>8, <2>3, <3>1, <3>2, <3>6
      <4>2. taken = Makes(Wn) - beyond
        BY <1>2, <1>6, <2>2, <4>1 DEF Lesser
      <4>3. played + taken = g
        BY <1>1, <1>2, <3>1, <3>6, <4>1, <4>2
      <4> QED BY <1>1, <1>6, <1>9, <1>13, <3>3, <3>4, <3>6, <4>3 DEF Lossless
    <3>7. CASE g # -1 /\ vd.granulepos # -1
      <4>1. /\ eos => beyond = made - skip + Makes(Wn) - g
            /\ ~eos => beyond = 0
            /\ beyond >= 0 /\ beyond <= Makes(Wn)
        BY <1>1, <1>2, <1>8, <2>2, <2>3, <3>1, <3>7 DEF BeyondEnd
      <4>2. taken = Makes(Wn) - beyond
        BY <1>2, <1>6, <2>2, <4>1 DEF Lesser
      <4>3. played + taken = g
        BY <1>1, <1>2, <2>3, <3>1, <3>7, <4>1, <4>2
      <4> QED BY <1>1, <1>6, <1>9, <1>13, <3>3, <3>4, <3>7, <4>3 DEF Lossless
    <3> QED BY <3>5, <3>6, <3>7
  <2> QED BY <2>4, <2>5
<1>16. Behind'
  <2>1. /\ made \in Nat /\ played \in Nat /\ played <= made
        /\ vd.sequence # -1 => played + Quarter(vd.W) <= made + Quarter(flag)
        /\ vd.sequence = -1 => played = 0
        /\ vd.sequence # -1 => flag # -1
    BY <1>4 DEF Counting, Typed, Numbered, Behind
  <2>2. taken <= IF vd.sequence = -1 THEN 0 ELSE Quarter(vd.W) + Quarter(Wn)
    BY <1>10
  <2>3. vd'.W = Wn /\ flag' = Wn /\ Quarter(Wn)' = Quarter(Wn)
    BY <1>9, <1>13 DEF Quarter
  <2>4. played + taken <= made + Makes(Wn)
    BY <1>2, <1>4, <1>10, <2>1, <2>2
  <2> QED BY <1>2, <1>13, <2>3, <2>4, <1>10 DEF Behind
<1> QED BY <1>11, <1>12, <1>14, <1>15, <1>16 DEF Counting

-----------------------------------------------------------------------------

LEMMA InitCounts == Init => Counting
<1> SUFFICES ASSUME Init PROVE Counting
  OBVIOUS
<1> DEFINE v == StartedDsp({0})
<1>1. /\ v \in DspType /\ v.out_begin = -1 /\ v.sequence = -1
      /\ v.granulepos = -1 /\ v.W = 0 /\ ~Unread(v)
  BY DEF StartedDsp, DspType, KeepType, NoBlock, NoTail, BlockType, TailType,
         Flags, Unread
<1>2. vd = v
  BY DEF Init
<1> HIDE DEF v
<1>3. Typed
  <2>1. skip \in Nat
    BY EncoderAssumption DEF Init
  <2>2. vd \in DspType
    BY <1>1, <1>2
  <2>3. flag \in {-1, 0, 1} /\ marked \in Int /\ marked >= -1
    BY DEF Init
  <2>4. ended \in BOOLEAN
    BY DEF Init
  <2>5. /\ made \in Nat /\ packetno \in Nat /\ packetno >= 3 /\ lost \in Nat
        /\ played \in Nat
    BY DEF Init
  <2> QED BY <2>1, <2>2, <2>3, <2>4, <2>5 DEF Typed
<1>4. Numbered /\ InStep /\ Lossless /\ Behind
  BY <1>1, <1>2 DEF Init, Numbered, InStep, Lossless, Behind
<1> QED BY <1>3, <1>4 DEF Counting

LEMMA StepCounts == Counting /\ [Next]_vars => Counting'
<1> SUFFICES ASSUME Counting, [Next]_vars PROVE Counting'
  OBVIOUS
<1>1. CASE UNCHANGED vars
  BY <1>1 DEF vars, Counting, Typed, Numbered, InStep, Lossless, Behind,
              Unread, Quarter
<1>2. ASSUME NEW Wn \in Flags, NEW g \in Positions, NEW eos \in BOOLEAN,
             Send(Wn, g, eos)
      PROVE  Counting'
  BY <1>2, SendStep
<1>3. ASSUME NEW Wn \in Flags, NEW g \in Positions, Lose(Wn, g)
      PROVE  Counting'
  BY <1>3, LoseStep
<1> QED BY <1>1, <1>2, <1>3 DEF Next

LEMMA AlwaysCounts == Spec => []Counting
BY InitCounts, StepCounts, PTL DEF Spec

(* The samples read out are, without a loss, those the pages count, for    *)
(* every stream and however its blocks fall into pages.                    *)
THEOREM PlaysAsMarked == Spec => []PlayedAsMarked
<1>1. Counting => PlayedAsMarked
  BY DEF Counting, Lossless, PlayedAsMarked
<1> QED BY AlwaysCounts, <1>1, PTL

(* A position Tremor believes in is the encoder's, whatever was lost.      *)
THEOREM PositionsAreTrue == Spec => []PositionIsTrue
<1>1. Counting => PositionIsTrue
  BY DEF Counting, InStep, PositionIsTrue
<1> QED BY AlwaysCounts, <1>1, PTL

(* Whatever was lost, no more samples are read out than were made.         *)
THEOREM PlaysNoMore == Spec => []NeverPlaysMore
<1>1. Counting => NeverPlaysMore
  BY DEF Counting, Behind, NeverPlaysMore
<1> QED BY AlwaysCounts, <1>1, PTL

-----------------------------------------------------------------------------
(* The laps, and the strips they are read in.                              *)

(* What a region takes of start .. end - 1 and what it leaves.             *)
LEMMA RegionSplits ==
  ASSUME NEW s \in Nat, NEW e \in Nat, s <= e, NEW len \in Nat
  PROVE  LET g == Region(s, e, len)
         IN  /\ g.off \in Nat /\ g.n \in Nat /\ g.off <= g.n /\ g.n <= len
             /\ g.start \in Nat /\ g.end \in Nat /\ g.start <= g.end
             /\ g.off + g.start = s /\ g.n + g.end = e
             /\ g.start > 0 => g.off = len
             /\ g.end > 0 => g.n = len
BY DEF Region, Lesser

(* A quarter of a block is whole.                                          *)
LEMMA Quarters ==
  ASSUME NEW sz, BlockSizesOK(sz), NEW w \in Flags
  PROVE  /\ sz[w] \in Nat /\ sz[w] \div 4 \in Nat /\ sz[w] \div 4 > 0
         /\ sz[w] = 4 * (sz[w] \div 4) /\ sz[w] \div 2 = 2 * (sz[w] \div 4)
<1>1. sz[w] \in Nat /\ sz[w] > 0 /\ sz[w] % 4 = 0
  BY DEF BlockSizesOK
<1>2. \A n \in Nat : n > 0 /\ n % 4 = 0
        => /\ n \div 4 \in Nat /\ n \div 4 > 0
           /\ n = 4 * (n \div 4) /\ n \div 2 = 2 * (n \div 4)
  OBVIOUS
<1> QED
  BY <1>1, <1>2

(* The regions: a before the cross-over, h on either side of its middle, p *)
(* behind it, of which a or p is empty.                                    *)
LEMMA Lengths ==
  ASSUME NEW sz, BlockSizesOK(sz), NEW last \in Flags, NEW this \in Flags
  PROVE  LET a == PreLap(sz, last, this)
             h == HalfLap(sz, last, this)
             p == PostLap(sz, last, this)
         IN  /\ a \in Nat /\ h \in Nat /\ p \in Nat
             /\ sz[last] \div 4 = a + h /\ sz[this] \div 4 = h + p
             /\ LapSize(sz, last, this) \div 2 = 2 * h
             /\ Lesser(sz[last], sz[this]) \div 4 = h
<1> DEFINE q(w) == sz[w] \div 4
<1>1. 0 \in Flags /\ 1 \in Flags /\ last \in {0, 1} /\ this \in {0, 1}
  BY DEF Flags
<1>2. \A w \in Flags : /\ sz[w] \in Nat /\ q(w) \in Nat
                       /\ sz[w] = 4 * q(w) /\ sz[w] \div 2 = 2 * q(w)
  BY Quarters
<1>3. sz[0] <= sz[1] /\ q(0) <= q(1)
  BY <1>1, <1>2 DEF BlockSizesOK
<1>4. Lesser(sz[last], sz[this]) = LapSize(sz, last, this)
  BY <1>1, <1>2, <1>3 DEF Lesser, LapSize
<1> HIDE DEF q
<1>5. /\ HalfLap(sz, last, this) = IF last = 1 /\ this = 1 THEN q(1) ELSE q(0)
      /\ PreLap(sz, last, this) = IF last = 1 /\ this = 0 THEN q(1) - q(0) ELSE 0
      /\ PostLap(sz, last, this) = IF last = 0 /\ this = 1 THEN q(1) - q(0) ELSE 0
      /\ LapSize(sz, last, this) \div 2 = 2 * HalfLap(sz, last, this)
  BY <1>1, <1>2 DEF HalfLap, PreLap, PostLap, LapSize, q
<1>6. sz[last] \div 4 = q(last) /\ sz[this] \div 4 = q(this)
  BY DEF q
<1>7. Lesser(sz[last], sz[this]) \div 4 = HalfLap(sz, last, this)
  BY <1>4 DEF HalfLap
<1> QED
  BY <1>1, <1>2, <1>3, <1>5, <1>6, <1>7

(* One sample of the reference, by the stretch it lies in, all in quarters. *)
LEMMA LappedCases ==
  ASSUME NEW sz, BlockSizesOK(sz), NEW last \in Flags, NEW this \in Flags,
         NEW k \in Nat
  PROVE  LET a == PreLap(sz, last, this)
             h == HalfLap(sz, last, this)
         IN
         /\ k < a => Lapped(sz, last, this, k)
                        = Sample(a + h - 1 - k, None, None, FALSE, None)
         /\ a <= k /\ k < a + h =>
              Lapped(sz, last, this, k)
                = Sample(a + h - 1 - k, 2 * h - 1 - (k - a),
                         2 * (h - 1 - (k - a)), FALSE, k - a)
         /\ a + h <= k /\ k < a + 2 * h =>
              Lapped(sz, last, this, k)
                = Sample(k - a - h, 2 * h - 1 - (k - a),
                         2 * (k - a - h), TRUE, k - a)
         /\ a + 2 * h <= k =>
              Lapped(sz, last, this, k)
                = Sample(None, None, 2 * (k - a - h), TRUE, None)
<1> DEFINE a == PreLap(sz, last, this)
           h == HalfLap(sz, last, this)
           p == PostLap(sz, last, this)
<1>0. a \in Nat /\ h \in Nat /\ p \in Nat
  BY Lengths
<1>1. /\ sz[last] \div 4 = a + h /\ sz[this] \div 4 = h + p
      /\ Lesser(sz[last], sz[this]) \div 4 = h
  BY Lengths
<1>2. a = 0 \/ p = 0
  BY DEF PreLap, PostLap
<1> HIDE DEF a, h, p
<1> DEFINE pos == k - (a + h) + (h + p)
<1>3. Lapped(sz, last, this, k) =
        IF k < (a + h) - h
          THEN Sample(TailAt(sz[last], k), None, None, FALSE, None)
        ELSE IF k < (a + h) + h
          THEN Sample(TailAt(sz[last], k), 2 * h - 1 - (k - ((a + h) - h)),
                      HeadAt(sz[this], pos), pos >= h + p, k - ((a + h) - h))
        ELSE Sample(None, None, HeadAt(sz[this], pos), pos >= h + p, None)
  BY <1>1, Zenon DEF Lapped
<1>4. /\ TailAt(sz[last], k) = IF k < a + h THEN a + h - 1 - k ELSE k - (a + h)
      /\ HeadAt(sz[this], pos) = IF pos < h + p THEN 2 * (h + p - 1 - pos)
                              ELSE 2 * (pos - (h + p))
  BY <1>0, <1>1 DEF TailAt, HeadAt
<1>5. /\ pos = k - a + p /\ (pos >= h + p <=> k >= a + h)
      /\ (a + h) - h = a /\ (a + h) + h = a + 2 * h
      /\ pos < h + p => h + p - 1 - pos = h - 1 - (k - a)
      /\ pos - (h + p) = k - a - h /\ k - (a + h) = k - a - h
  BY <1>0
<1>6. (pos >= h + p) = (k >= a + h)
  BY <1>0, <1>5
<1>7. (k >= a + h) \in BOOLEAN /\ (k < a + h => (k >= a + h) = FALSE)
      /\ (a + h <= k => (k >= a + h) = TRUE)
  BY <1>0
<1> HIDE DEF pos
<1>8. ASSUME k < a
      PROVE  Lapped(sz, last, this, k) = Sample(a + h - 1 - k, None, None, FALSE, None)
  <2>1. k < (a + h) - h /\ k < a + h
    BY <1>0, <1>8
  <2> QED
    BY <1>0, <1>3, <1>4, <2>1
<1>9. ASSUME a <= k, k < a + h
      PROVE  Lapped(sz, last, this, k)
               = Sample(a + h - 1 - k, 2 * h - 1 - (k - a),
                        2 * (h - 1 - (k - a)), FALSE, k - a)
  <2>1. ~(k < (a + h) - h) /\ k < (a + h) + h /\ k < a + h /\ pos < h + p
    BY <1>0, <1>5, <1>9
  <2> QED
    BY <1>0, <1>3, <1>4, <1>5, <1>6, <1>7, <1>9, <2>1
<1>10. ASSUME a + h <= k, k < a + 2 * h
       PROVE  Lapped(sz, last, this, k)
                = Sample(k - a - h, 2 * h - 1 - (k - a),
                         2 * (k - a - h), TRUE, k - a)
  <2>1. /\ ~(k < (a + h) - h) /\ k < (a + h) + h /\ ~(k < a + h)
        /\ ~(pos < h + p)
    BY <1>0, <1>5, <1>10
  <2> QED
    BY <1>0, <1>3, <1>4, <1>5, <1>6, <1>7, <1>10, <2>1
<1>11. ASSUME a + 2 * h <= k
       PROVE  Lapped(sz, last, this, k) = Sample(None, None, 2 * (k - a - h), TRUE, None)
  <2>1. /\ ~(k < (a + h) - h) /\ ~(k < (a + h) + h) /\ a + h <= k
        /\ ~(pos < h + p)
    BY <1>0, <1>5, <1>11
  <2> QED
    BY <1>0, <1>3, <1>4, <1>5, <1>6, <1>7, <1>11, <2>1
<1> QED
  BY <1>8, <1>9, <1>10, <1>11 DEF a, h

(* The loops together put out end - start samples, each where it belongs.  *)
(* Numbers only: o and n are off and n of the four regions, s and e what   *)
(* each leaves for the next.                                               *)
LEMMA Places ==
  ASSUME NEW a \in Nat, NEW h \in Nat, NEW p \in Nat,
         NEW start \in Nat, NEW end \in Nat, end <= a + 2 * h + p,
         NEW o1 \in Nat, NEW n1 \in Nat, NEW s1 \in Nat, NEW e1 \in Nat,
         NEW o2 \in Nat, NEW n2 \in Nat, NEW s2 \in Nat, NEW e2 \in Nat,
         NEW o3 \in Nat, NEW n3 \in Nat, NEW s3 \in Nat, NEW e3 \in Nat,
         NEW o4 \in Nat, NEW n4 \in Nat, NEW s4 \in Nat, NEW e4 \in Nat,
         /\ o1 <= n1 /\ n1 <= a /\ o2 <= n2 /\ n2 <= h
         /\ o3 <= n3 /\ n3 <= h /\ o4 <= n4 /\ n4 <= p,
         /\ o1 + s1 = start /\ o2 + s2 = s1 /\ o3 + s3 = s2 /\ o4 + s4 = s3
         /\ n1 + e1 = end /\ n2 + e2 = e1 /\ n3 + e3 = e2 /\ n4 + e4 = e3,
         /\ s1 > 0 => o1 = a
         /\ s2 > 0 => o2 = h
         /\ s3 > 0 => o3 = h,
         /\ e1 > 0 => n1 = a
         /\ e2 > 0 => n2 = h
         /\ e3 > 0 => n3 = h
         /\ e4 > 0 => n4 = p,
         s4 <= e4
  PROVE  /\ (n1 - o1) + (n2 - o2) + (n3 - o3) + (n4 - o4) = end - start
         /\ \A i \in Nat : i < n1 - o1 => start = o1 /\ o1 + i < a
         /\ \A i \in Nat : i < n2 - o2 =>
              n1 = a /\ start + (n1 - o1) = a + o2 /\ o2 + i < h
         /\ \A i \in Nat : i < n3 - o3 =>
              /\ n1 = a /\ n2 = h /\ o3 + i < h
              /\ start + (n1 - o1) + (n2 - o2) = a + h + o3
         /\ \A i \in Nat : i < n4 - o4 =>
              /\ n1 = a /\ n2 = h /\ n3 = h
              /\ start + (n1 - o1) + (n2 - o2) + (n3 - o3) = a + 2 * h + o4
<1>1. e4 = 0 /\ s4 = 0
  OBVIOUS
<1>2. (n1 - o1) + (n2 - o2) + (n3 - o3) + (n4 - o4) = end - start
  BY <1>1
<1>3. ASSUME NEW i \in Nat, i < n1 - o1
      PROVE  start = o1 /\ o1 + i < a
  BY <1>3
<1>4. ASSUME NEW i \in Nat, i < n2 - o2
      PROVE  n1 = a /\ start + (n1 - o1) = a + o2 /\ o2 + i < h
  BY <1>4
<1>5. ASSUME NEW i \in Nat, i < n3 - o3
      PROVE  /\ n1 = a /\ n2 = h /\ o3 + i < h
             /\ start + (n1 - o1) + (n2 - o2) = a + h + o3
  BY <1>5
<1>6. ASSUME NEW i \in Nat, i < n4 - o4
      PROVE  /\ n1 = a /\ n2 = h /\ n3 = h
             /\ start + (n1 - o1) + (n2 - o2) + (n3 - o3) = a + 2 * h + o4
  BY <1>1, <1>6
<1> QED
  BY <1>2, <1>3, <1>4, <1>5, <1>6

(* For every pair of block sizes and every part of the frame the four      *)
(* loops of mdct_unroll_lap put out the lap of the two blocks, sample by   *)
(* sample: no pointer is off after a region that was skipped, read in part *)
(* or read whole.                                                          *)
THEOREM UnrollIsLap ==
  ASSUME NEW sz, BlockSizesOK(sz), NEW last \in Flags, NEW this \in Flags,
         NEW start \in Nat, NEW end \in Nat, start <= end,
         end <= sz[last] \div 4 + sz[this] \div 4
  PROVE  UnrollLap(sz, last, this, start, end)
           = [k \in Upto(end - start) |-> Lapped(sz, last, this, start + k)]
<1> DEFINE a == PreLap(sz, last, this)
           h == HalfLap(sz, last, this)
           p == PostLap(sz, last, this)
           pre == Region(start, end, a)
           o1 == pre.off    n1 == pre.n    s1 == pre.start    e1 == pre.end
           fore == Region(s1, e1, h)
           o2 == fore.off   n2 == fore.n   s2 == fore.start   e2 == fore.end
           aft == Region(s2, e2, h)
           o3 == aft.off    n3 == aft.n    s3 == aft.start    e3 == aft.end
           post == Region(s3, e3, p)
           o4 == post.off   n4 == post.n   s4 == post.start   e4 == post.end
           c1 == n1 - o1
           c2 == c1 + n2 - o2
           c3 == c2 + n3 - o3
           c4 == c3 + n4 - o4
           lap == LapSize(sz, last, this)
           r == sz[last] \div 4
           l == lap \div 2
           Before(i)  == Sample(r - o1 - 1 - i, None, None, FALSE, None)
           Falling(i) == Sample((r - n1) - o2 - 1 - i,
                                l - o2 - 1 - i,
                                l - 2 * o2 - 2 - 2 * i, FALSE,
                                o2 + i)
           Rising(i)  == Sample((r - n1 - n2) + o3 + i,
                                (l - n2) - o3 - 1 - i,
                                (l - 2 * n2) + 2 * o3 + 2 * i, TRUE,
                                n2 + o3 + i)
           After(i)   == Sample(None, None,
                                (l - 2 * n2 + 2 * n3) + 2 * o4 + 2 * i,
                                TRUE, None)
           Put(k) == IF k < c1 THEN Before(k)
                     ELSE IF k < c2 THEN Falling(k - c1)
                     ELSE IF k < c3 THEN Rising(k - c2)
                     ELSE After(k - c3)
<1>1. UnrollLap(sz, last, this, start, end) = [k \in Upto(c4) |-> Put(k)]
  BY Zenon DEF UnrollLap
<1>2. /\ a \in Nat /\ h \in Nat /\ p \in Nat
      /\ r = a + h /\ sz[this] \div 4 = h + p /\ l = 2 * h
  BY Lengths
<1> HIDE DEF a, h, p, r, l
<1>3. /\ o1 \in Nat /\ n1 \in Nat /\ o1 <= n1 /\ n1 <= a
      /\ s1 \in Nat /\ e1 \in Nat /\ s1 <= e1
      /\ o1 + s1 = start /\ n1 + e1 = end
      /\ s1 > 0 => o1 = a
      /\ e1 > 0 => n1 = a
  BY <1>2, RegionSplits
<1> HIDE DEF o1, n1, s1, e1
<1>4. /\ o2 \in Nat /\ n2 \in Nat /\ o2 <= n2 /\ n2 <= h
      /\ s2 \in Nat /\ e2 \in Nat /\ s2 <= e2
      /\ o2 + s2 = s1 /\ n2 + e2 = e1
      /\ s2 > 0 => o2 = h
      /\ e2 > 0 => n2 = h
  BY <1>2, <1>3, RegionSplits
<1> HIDE DEF o2, n2, s2, e2
<1>5. /\ o3 \in Nat /\ n3 \in Nat /\ o3 <= n3 /\ n3 <= h
      /\ s3 \in Nat /\ e3 \in Nat /\ s3 <= e3
      /\ o3 + s3 = s2 /\ n3 + e3 = e2
      /\ s3 > 0 => o3 = h
      /\ e3 > 0 => n3 = h
  BY <1>2, <1>4, RegionSplits
<1> HIDE DEF o3, n3, s3, e3
<1>6. /\ o4 \in Nat /\ n4 \in Nat /\ o4 <= n4 /\ n4 <= p
      /\ s4 \in Nat /\ e4 \in Nat /\ s4 <= e4
      /\ o4 + s4 = s3 /\ n4 + e4 = e3
      /\ e4 > 0 => n4 = p
  <2>1. p \in Nat /\ s3 \in Nat /\ e3 \in Nat /\ s3 <= e3
    BY <1>2, <1>5
  <2> QED
    BY <2>1, RegionSplits
<1> HIDE DEF o4, n4, s4, e4
<1>7. end <= a + 2 * h + p
  BY <1>2 DEF r
<1>8. /\ (n1 - o1) + (n2 - o2) + (n3 - o3) + (n4 - o4) = end - start
      /\ \A i \in Nat : i < n1 - o1 => start = o1 /\ o1 + i < a
      /\ \A i \in Nat : i < n2 - o2 =>
           /\ n1 = a /\ start + (n1 - o1) = a + o2
           /\ o2 + i < h
      /\ \A i \in Nat : i < n3 - o3 =>
           /\ n1 = a /\ n2 = h /\ o3 + i < h
           /\ start + (n1 - o1) + (n2 - o2) = a + h + o3
      /\ \A i \in Nat : i < n4 - o4 =>
           /\ n1 = a /\ n2 = h /\ n3 = h
           /\ start + (n1 - o1) + (n2 - o2) + (n3 - o3)
                = a + 2 * h + o4
  BY <1>2, <1>3, <1>4, <1>5, <1>6, <1>7, Places
<1>9. /\ c1 \in Nat /\ c2 \in Nat /\ c3 \in Nat /\ c4 \in Nat
      /\ c1 <= c2 /\ c2 <= c3 /\ c3 <= c4 /\ c4 = end - start
      /\ \A i \in Nat : i < c1 => start = o1 /\ o1 + i < a
      /\ \A i \in Nat : i < c2 - c1 =>
           n1 = a /\ start + c1 = a + o2 /\ o2 + i < h
      /\ \A i \in Nat : i < c3 - c2 =>
           n1 = a /\ n2 = h /\ start + c2 = a + h + o3 /\ o3 + i < h
      /\ \A i \in Nat : i < c4 - c3 =>
           n1 = a /\ n2 = h /\ n3 = h /\ start + c3 = a + 2 * h + o4
  <2>1. /\ c1 = n1 - o1 /\ c2 = (n1 - o1) + (n2 - o2)
        /\ c3 = (n1 - o1) + (n2 - o2) + (n3 - o3)
        /\ c4 = (n1 - o1) + (n2 - o2) + (n3 - o3) + (n4 - o4)
    BY <1>3, <1>4, <1>5, <1>6
  <2> HIDE DEF c1, c2, c3, c4
  <2>2. /\ c1 \in Nat /\ c2 \in Nat /\ c3 \in Nat /\ c4 \in Nat
        /\ c1 <= c2 /\ c2 <= c3 /\ c3 <= c4
        /\ c2 - c1 = n2 - o2 /\ c3 - c2 = n3 - o3 /\ c4 - c3 = n4 - o4
        /\ start + c2 = start + (n1 - o1) + (n2 - o2)
        /\ start + c3 = start + (n1 - o1) + (n2 - o2) + (n3 - o3)
    BY <1>3, <1>4, <1>5, <1>6, <2>1
  <2> QED
    BY <1>8, <2>1, <2>2
<1> HIDE DEF c1, c2, c3, c4
<1>10. ASSUME NEW k \in Upto(c4)
       PROVE  Put(k) = Lapped(sz, last, this, start + k)
  <2>1. k \in Nat /\ k < c4 /\ start + k \in Nat
    BY <1>9, <1>10 DEF Upto
  <2> DEFINE m == start + k
  <2>2. /\ m < a => Lapped(sz, last, this, m)
                       = Sample(a + h - 1 - m, None, None, FALSE, None)
        /\ a <= m /\ m < a + h =>
             Lapped(sz, last, this, m)
               = Sample(a + h - 1 - m, 2 * h - 1 - (m - a),
                        2 * (h - 1 - (m - a)), FALSE, m - a)
        /\ a + h <= m /\ m < a + 2 * h =>
             Lapped(sz, last, this, m)
               = Sample(m - a - h, 2 * h - 1 - (m - a),
                        2 * (m - a - h), TRUE, m - a)
        /\ a + 2 * h <= m =>
             Lapped(sz, last, this, m)
               = Sample(None, None, 2 * (m - a - h), TRUE, None)
    BY <2>1, LappedCases DEF a, h
  <2>3. CASE k < c1
    <3>1. start = o1 /\ m < a
      BY <1>9, <2>1, <2>3
    <3>2. r - o1 - 1 - k = a + h - 1 - m
      BY <1>2, <1>3, <1>9, <2>1, <3>1
    <3> QED
      BY <2>2, <2>3, <3>1, <3>2
  <2>4. CASE c1 <= k /\ k < c2
    <3> DEFINE i == k - c1
    <3>1. i \in Nat /\ i < c2 - c1
      BY <1>9, <2>1, <2>4
    <3>2. n1 = a /\ start + c1 = a + o2 /\ o2 + i < h
      BY <1>9, <3>1, Zenon
    <3>3. m = a + o2 + i /\ a <= m /\ m < a + h
      BY <1>2, <1>4, <1>9, <2>1, <3>1, <3>2
    <3>4. /\ (r - n1) - o2 - 1 - i = a + h - 1 - m
          /\ l - o2 - 1 - i = 2 * h - 1 - (m - a)
          /\ l - 2 * o2 - 2 - 2 * i = 2 * (h - 1 - (m - a))
          /\ o2 + i = m - a
      BY <1>2, <1>4, <3>1, <3>2, <3>3
    <3>5. Put(k) = Falling(i)
      <4>1. ~(k < c1) /\ k < c2
        BY <1>9, <2>1, <2>4
      <4> HIDE DEF Before, Falling, Rising, After
      <4> QED
        BY <4>1
    <3> QED
      BY <2>2, <3>3, <3>4, <3>5
  <2>5. CASE c2 <= k /\ k < c3
    <3> DEFINE i == k - c2
    <3>1. i \in Nat /\ i < c3 - c2
      BY <1>9, <2>1, <2>5
    <3>2. /\ n1 = a /\ n2 = h /\ o3 + i < h
          /\ start + c2 = a + h + o3
      BY <1>9, <3>1, Zenon
    <3>3. m = a + h + o3 + i /\ a + h <= m /\ m < a + 2 * h
      BY <1>2, <1>5, <1>9, <2>1, <3>1, <3>2
    <3>4. /\ (r - n1 - n2) + o3 + i = m - a - h
          /\ (l - n2) - o3 - 1 - i = 2 * h - 1 - (m - a)
          /\ (l - 2 * n2) + 2 * o3 + 2 * i = 2 * (m - a - h)
          /\ n2 + o3 + i = m - a
      BY <1>2, <1>5, <3>1, <3>2, <3>3
    <3>5. Put(k) = Rising(i)
      <4>1. ~(k < c1) /\ ~(k < c2) /\ k < c3
        BY <1>9, <2>1, <2>5
      <4> HIDE DEF Before, Falling, Rising, After
      <4> QED
        BY <4>1
    <3> QED
      BY <2>2, <3>3, <3>4, <3>5
  <2>6. CASE c3 <= k
    <3> DEFINE i == k - c3
    <3>1. i \in Nat /\ i < c4 - c3
      BY <1>9, <2>1, <2>6
    <3>2. /\ n1 = a /\ n2 = h /\ n3 = h
          /\ start + c3 = a + 2 * h + o4
      BY <1>9, <3>1, Zenon
    <3>3. m = a + 2 * h + o4 + i /\ a + 2 * h <= m
      BY <1>2, <1>6, <1>9, <2>1, <3>1, <3>2
    <3>4. (l - 2 * n2 + 2 * n3) + 2 * o4 + 2 * i = 2 * (m - a - h)
      BY <1>2, <1>6, <3>1, <3>2, <3>3
    <3>5. Put(k) = After(i)
      <4>1. ~(k < c1) /\ ~(k < c2) /\ ~(k < c3)
        BY <1>9, <2>1, <2>6
      <4> HIDE DEF Before, Falling, Rising, After
      <4> QED
        BY <4>1
    <3> QED
      BY <2>2, <3>3, <3>4, <3>5
  <2> HIDE DEF Put
  <2> QED
    BY <1>9, <2>1, <2>3, <2>4, <2>5, <2>6
<1> HIDE DEF Put
<1> QED
  BY <1>1, <1>9, <1>10
-----------------------------------------------------------------------------
(* The frame stays what it was opened as, and the rest shrinks from the    *)
(* front.                                                                  *)
FrameOK ==
  /\ bs \in BlockPairs /\ lW \in Flags /\ W \in Flags
  /\ out_end \in Nat /\ out_end <= bs[lW] \div 4 + bs[W] \div 4
  /\ first \in Nat /\ out_begin \in Nat
  /\ first <= out_begin /\ out_begin <= out_end

LEMMA SizesOK == ASSUME FrameOK PROVE BlockSizesOK(bs)
BY StripAssumption DEF FrameOK

(* Whatever LAPOUT_CHUNK is, however the frame was trimmed, and for every  *)
(* pair of block sizes: the strips put together are the lap, sample by     *)
(* sample.                                                                 *)
THEOREM StripsMakeTheLap == StripSpec => [](FrameOK /\ PcmIsLapped)
<1>1. StripInit => FrameOK /\ PcmIsLapped
  <2> SUFFICES ASSUME StripInit PROVE FrameOK /\ PcmIsLapped
    OBVIOUS
  <2>1. BlockSizesOK(bs) /\ lW \in Flags /\ W \in Flags
    BY StripAssumption DEF StripInit
  <2>2. bs[lW] \div 4 \in Nat /\ bs[W] \div 4 \in Nat
    BY <2>1, Quarters
  <2>3. FrameOK
    BY <2>2 DEF StripInit, FrameOK
  <2>4. Upto(out_begin - first) = {} /\ Upto(0) = {}
    BY <2>3 DEF StripInit, FrameOK, Upto
  <2>5. pcm = [k \in Upto(out_begin - first) |-> Lapped(bs, lW, W, first + k)]
    BY <2>4 DEF StripInit
  <2> QED
    BY <2>3, <2>5 DEF PcmIsLapped, FrameOK
<1>2. FrameOK /\ PcmIsLapped /\ [Strip]_stripVars => FrameOK' /\ PcmIsLapped'
  <2> SUFFICES ASSUME FrameOK, PcmIsLapped, [Strip]_stripVars
               PROVE  FrameOK' /\ PcmIsLapped'
    OBVIOUS
  <2>1. CASE UNCHANGED stripVars
    BY <2>1 DEF stripVars, FrameOK, PcmIsLapped
  <2>2. CASE Strip
    <3> DEFINE end == out_begin + Chunk
               done == out_begin - first
               strip == UnrollLap(bs, lW, W, out_begin, end)
    <3>1. /\ Chunk \in Nat /\ end \in Nat /\ out_begin <= end /\ end <= out_end
          /\ done \in Nat /\ end - first = done + Chunk /\ end - out_begin = Chunk
      BY <2>2, StripAssumption DEF Strip, FrameOK, Chunk, Lesser
    <3>2. out_begin' = end /\ UNCHANGED <<bs, lW, W, first, out_end>>
      BY <2>2 DEF Strip
    <3>3. FrameOK'
      BY <3>1, <3>2 DEF FrameOK
    <3>4. strip = [k \in Upto(Chunk) |-> Lapped(bs, lW, W, out_begin + k)]
      <4>1. end <= bs[lW] \div 4 + bs[W] \div 4
        <5>1. bs[lW] \div 4 \in Nat /\ bs[W] \div 4 \in Nat
          BY SizesOK, Quarters DEF FrameOK
        <5> QED
          BY <3>1, <5>1 DEF FrameOK
      <4>2. BlockSizesOK(bs) /\ lW \in Flags /\ W \in Flags /\ out_begin \in Nat
        BY SizesOK DEF FrameOK
      <4> QED
        BY <3>1, <4>1, <4>2, UnrollIsLap
    <3>5. pcm = [k \in Upto(done) |-> Lapped(bs, lW, W, first + k)]
      BY DEF PcmIsLapped
    <3>6. pcm' = [k \in Upto(done + Chunk) |->
                    IF k < done THEN pcm[k] ELSE strip[k - done]]
      BY <2>2 DEF Strip
    <3> HIDE DEF strip
    <3>7. ASSUME NEW k \in Upto(done + Chunk)
          PROVE  (IF k < done THEN pcm[k] ELSE strip[k - done])
                   = Lapped(bs, lW, W, first + k)
      <4>1. k \in Nat /\ k < done + Chunk
        BY <3>1 DEF Upto
      <4>2. CASE k < done
        <5>1. k \in Upto(done)
          BY <3>1, <4>1, <4>2 DEF Upto
        <5> QED
          BY <3>5, <4>2, <5>1
      <4>3. CASE ~(k < done)
        <5>1. k - done \in Upto(Chunk) /\ out_begin + (k - done) = first + k
          BY <3>1, <4>1, <4>3 DEF Upto, FrameOK
        <5> QED
          BY <3>4, <4>3, <5>1
      <4> QED
        BY <4>2, <4>3
    <3>8. pcm' = [k \in Upto(done + Chunk) |-> Lapped(bs, lW, W, first + k)]
      BY <3>6, <3>7
    <3> QED
      BY <3>1, <3>2, <3>3, <3>8 DEF PcmIsLapped
  <2> QED
    BY <2>1, <2>2
<1> QED
  BY <1>1, <1>2, PTL DEF StripSpec

(* Every sample of the frame is the lap at its place, once and in order.   *)
THEOREM PcmIsTheLap == StripSpec => []PcmIsLapped
BY StripsMakeTheLap, PTL

(* The lap reads inside the tail, the half transform and the window.       *)
LEMMA LapReadsInside ==
  ASSUME NEW b, BlockSizesOK(b), NEW l \in Flags, NEW w \in Flags,
         NEW k \in Nat, k < b[l] \div 4 + b[w] \div 4
  PROVE  ReadsInside(b, l, w, Lapped(b, l, w, k))
<1> DEFINE a == PreLap(b, l, w)
           h == HalfLap(b, l, w)
           p == PostLap(b, l, w)
           s == Lapped(b, l, w, k)
<1>1. /\ a \in Nat /\ h \in Nat /\ p \in Nat
      /\ b[l] \div 4 = a + h /\ b[w] \div 4 = h + p
      /\ LapSize(b, l, w) \div 2 = 2 * h
  BY Lengths
<1>2. b[w] \div 2 = 2 * (h + p)
  BY <1>1, Quarters
<1>3. /\ k < a => s = Sample(a + h - 1 - k, None, None, FALSE, None)
      /\ a <= k /\ k < a + h =>
           s = Sample(a + h - 1 - k, 2 * h - 1 - (k - a),
                      2 * (h - 1 - (k - a)), FALSE, k - a)
      /\ a + h <= k /\ k < a + 2 * h =>
           s = Sample(k - a - h, 2 * h - 1 - (k - a),
                      2 * (k - a - h), TRUE, k - a)
      /\ a + 2 * h <= k => s = Sample(None, None, 2 * (k - a - h), TRUE, None)
  BY LappedCases
<1>4. k < a + h + (h + p)
  BY <1>1
<1> HIDE DEF a, h, p, s
<1>5. SUFFICES /\ s.right # None => s.right \in Upto(a + h)
               /\ s.left # None => s.left \in Upto(2 * (h + p))
               /\ s.wR # None => s.wR \in Upto(2 * h)
               /\ s.wL # None => s.wL \in Upto(2 * h)
  BY <1>1, <1>2 DEF ReadsInside, s
<1>6. CASE k < a
  BY <1>1, <1>3, <1>6 DEF Sample, Upto
<1>7. CASE a <= k /\ k < a + h
  BY <1>1, <1>3, <1>7 DEF Sample, Upto
<1>8. CASE a + h <= k /\ k < a + 2 * h
  BY <1>1, <1>3, <1>8 DEF Sample, Upto
<1>9. CASE a + 2 * h <= k
  BY <1>1, <1>3, <1>4, <1>9 DEF Sample, Upto
<1> QED
  BY <1>1, <1>6, <1>7, <1>8, <1>9

(* No strip of any frame reads outside the arrays of the two blocks.       *)
THEOREM StripsReadInside == StripSpec => []PcmReadsInside
<1>1. FrameOK /\ PcmIsLapped => PcmReadsInside
  <2> SUFFICES ASSUME FrameOK, PcmIsLapped, NEW k \in DOMAIN pcm
               PROVE  ReadsInside(bs, lW, W, pcm[k])
    BY DEF PcmReadsInside
  <2>1. k \in Upto(out_begin - first) /\ pcm[k] = Lapped(bs, lW, W, first + k)
    BY DEF PcmIsLapped
  <2>2. BlockSizesOK(bs) /\ lW \in Flags /\ W \in Flags
    BY SizesOK DEF FrameOK
  <2>3. bs[lW] \div 4 \in Nat /\ bs[W] \div 4 \in Nat
    BY <2>2, Quarters
  <2>4. first + k \in Nat /\ first + k < bs[lW] \div 4 + bs[W] \div 4
    BY <2>1, <2>3 DEF FrameOK, Upto
  <2> QED
    BY <2>1, <2>2, <2>4, LapReadsInside
<1> QED
  BY <1>1, StripsMakeTheLap, PTL
=============================================================================
