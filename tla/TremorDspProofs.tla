-------------------------- MODULE TremorDspProofs --------------------------
(***************************************************************************)
(* What the entry points of Tremor's synthesis state return, for every     *)
(* state and every packet: lemmas about the operators of TremorDsp.        *)
(***************************************************************************)
EXTENDS TremorDsp, TLAPS

(* A lap is at least one sample and at most half a long block.             *)
LEMMA SpanBound ==
  ASSUME NEW bs, BlockSizesOK(bs), NEW v \in DspType
  PROVE  /\ Span(bs, v) \in Nat
         /\ Span(bs, v) > 0
         /\ Span(bs, v) <= bs[1] \div 2
<1>1. v.lW \in Flags /\ v.W \in Flags
  BY DEF DspType
<1>2. \A w \in Flags : bs[w] \in Nat /\ bs[w] > 0 /\ bs[w] % 4 = 0 /\ bs[w] <= bs[1]
  BY DEF BlockSizesOK, Flags
<1>3. \A a, b, c \in Nat :
        a > 0 /\ b > 0 /\ a % 4 = 0 /\ b % 4 = 0 /\ a <= c /\ b <= c /\ c % 4 = 0
        => /\ a \div 4 + b \div 4 \in Nat /\ a \div 4 + b \div 4 > 0
           /\ a \div 4 + b \div 4 <= c \div 2
  OBVIOUS
<1>4. 1 \in Flags
  BY DEF Flags
<1> QED
  BY <1>1, <1>2, <1>3, <1>4 DEF Span

(* Synthesis changes the planes only: neither the window nor the counts.   *)
LEMMA SynthesisKeeps ==
  ASSUME NEW v \in DspType, NEW p \in PacketType, NEW n \in Nat
  PROVE  LET s == Synthesis(v, p, n)
         IN  /\ s \in DspType
             /\ s.out_begin = v.out_begin /\ s.out_end = v.out_end
             /\ s.lW = v.lW /\ s.W = v.W /\ s.sequence = v.sequence
             /\ s.setup_arena = v.setup_arena
             /\ s.channel_keep = v.channel_keep
             /\ p.decodable =>
                  /\ s.work = [seq |-> n, W |-> p.W]
                  /\ s.mdctright = [seq |-> v.work.seq, W |-> v.work.W,
                                    cut |-> v.W]
             /\ ~p.decodable => s = v
<1> DEFINE s == Synthesis(v, p, n)
<1>1. CASE ~p.decodable
  BY <1>1 DEF Synthesis
<1>2. CASE p.decodable
  <2>1. /\ v.work \in BlockType /\ v.mdctright \in TailType
        /\ v.W \in Flags /\ p.W \in Flags
    BY DEF DspType, PacketType
  <2> DEFINE tail == [seq |-> v.work.seq, W |-> v.work.W, cut |-> v.W]
             block == [seq |-> n, W |-> p.W]
  <2>2. tail \in TailType
    BY <2>1 DEF BlockType, TailType
  <2>3. block \in BlockType
    BY <2>1 DEF BlockType
  <2>4. s = [v EXCEPT !.mdctright = tail, !.work = block]
    BY <1>2 DEF Synthesis
  <2> HIDE DEF s, tail, block
  <2>5. s \in DspType
    BY <2>2, <2>3, <2>4 DEF DspType
  <2>6. s.work = block /\ s.mdctright = tail
    BY <2>4 DEF DspType
  <2>7. /\ s.out_begin = v.out_begin /\ s.out_end = v.out_end
        /\ s.lW = v.lW /\ s.W = v.W /\ s.sequence = v.sequence
        /\ s.setup_arena = v.setup_arena /\ s.channel_keep = v.channel_keep
    BY <2>4 DEF DspType
  <2> QED
    BY <1>2, <2>5, <2>6, <2>7 DEF s, tail, block
<1> QED
  BY <1>1, <1>2

LEMMA TurnType ==
  ASSUME NEW v \in DspType, NEW p \in PacketType, NEW n \in Nat
  PROVE  LET t == Turn(v, p, n)
         IN  /\ t \in DspType
             /\ t.lW = v.W /\ t.W = p.W /\ t.sequence = n
             /\ t.out_begin = v.out_begin /\ t.out_end = v.out_end
             /\ t.work = v.work /\ t.mdctright = v.mdctright
             /\ t.setup_arena = v.setup_arena
             /\ t.channel_keep = v.channel_keep
<1> DEFINE t == Turn(v, p, n)
           gone == v.sequence = -1 \/ v.sequence + 1 # n
           position == IF gone THEN -1 ELSE v.granulepos
           count == IF gone THEN -1 ELSE v.sample_count
<1>1. position \in Int /\ count \in Int /\ n \in Int /\ p.W \in Flags /\ v.W \in Flags
  BY DEF DspType, PacketType
<1>2. t = [v EXCEPT !.lW = v.W, !.W = p.W, !.sequence = n,
                    !.granulepos = position, !.sample_count = count]
  BY DEF Turn, DspType
<1> HIDE DEF t, gone, position, count
<1>3. t \in DspType
  BY <1>1, <1>2 DEF DspType
<1>4. /\ t.lW = v.W /\ t.W = p.W /\ t.sequence = n
      /\ t.out_begin = v.out_begin /\ t.out_end = v.out_end
      /\ t.work = v.work /\ t.mdctright = v.mdctright
      /\ t.setup_arena = v.setup_arena /\ t.channel_keep = v.channel_keep
  BY <1>2 DEF DspType
<1> QED
  BY <1>3, <1>4 DEF t

(* Two states that agree on everything the wrapper relies on besides the   *)
(* window.                                                                 *)
SameBlocks(v, w) ==
  /\ v.lW = w.lW /\ v.W = w.W /\ v.sequence = w.sequence
  /\ v.work = w.work /\ v.mdctright = w.mdctright
  /\ v.setup_arena = w.setup_arena /\ v.channel_keep = w.channel_keep

(* An open window that ends at top at the latest.                          *)
Readable(v, top) ==
  0 <= v.out_begin /\ v.out_begin <= v.out_end /\ v.out_end <= top

LEMMA OpenWindowReadable ==
  ASSUME NEW bs, BlockSizesOK(bs), NEW v \in DspType
  PROVE  LET o == OpenWindow(bs, v)
         IN  /\ o \in DspType /\ SameBlocks(o, v)
             /\ Readable(o, IF v.out_begin = -1 THEN 0 ELSE Span(bs, v))
<1> DEFINE o == OpenWindow(bs, v)
           begin == 0
           end == IF v.out_begin = -1 THEN 0 ELSE Span(bs, v)
<1>1. begin \in Int /\ end \in Nat
  BY SpanBound
<1>2. o = [v EXCEPT !.out_begin = begin, !.out_end = end]
  BY DEF OpenWindow
<1>3. begin = 0
  OBVIOUS
<1> HIDE DEF o, begin, end
<1>4. /\ o \in DspType /\ SameBlocks(o, v)
      /\ o.out_begin = begin /\ o.out_end = end
  <2>1. end \in Int
    BY <1>1
  <2> QED
    BY <1>1, <1>2, <2>1 DEF DspType, SameBlocks
<1>5. Readable(o, end)
  BY <1>1, <1>3, <1>4 DEF Readable
<1> QED
  BY <1>4, <1>5 DEF o, end

LEMMA CountSamplesReadable ==
  ASSUME NEW bs, BlockSizesOK(bs), NEW v \in DspType, NEW top \in Int,
         Readable(v, top)
  PROVE  LET c == CountSamples(bs, v)
         IN  c \in DspType /\ SameBlocks(c, v) /\ Readable(c, top)
<1>1. Span(bs, v) \in Nat
  BY SpanBound
<1> DEFINE c == CountSamples(bs, v)
<1>2. /\ c \in DspType /\ SameBlocks(c, v)
      /\ c.out_begin = v.out_begin /\ c.out_end = v.out_end
  BY <1>1 DEF CountSamples, DspType, SameBlocks
<1> QED
  BY <1>2 DEF Readable

(* Neither trim leaves the window, whatever position the packet claims.    *)
LEMMA TrimReadable ==
  ASSUME NEW v \in DspType, NEW top \in Int, Readable(v, top),
         NEW extra \in Nat
  PROVE  /\ TrimEnd(v, extra) \in DspType
         /\ SameBlocks(TrimEnd(v, extra), v)
         /\ Readable(TrimEnd(v, extra), top)
         /\ TrimBegin(v, extra) \in DspType
         /\ SameBlocks(TrimBegin(v, extra), v)
         /\ Readable(TrimBegin(v, extra), top)
<1>1. v.out_begin \in Int /\ v.out_end \in Int
  BY DEF DspType
<1>2. /\ TrimEnd(v, extra) \in DspType /\ SameBlocks(TrimEnd(v, extra), v)
      /\ TrimEnd(v, extra).out_begin = v.out_begin
      /\ TrimEnd(v, extra).out_end =
           v.out_end - Lesser(extra, v.out_end - v.out_begin)
  BY <1>1 DEF TrimEnd, DspType, SameBlocks, Lesser
<1>3. /\ TrimBegin(v, extra) \in DspType /\ SameBlocks(TrimBegin(v, extra), v)
      /\ TrimBegin(v, extra).out_begin = Lesser(v.out_begin + extra, v.out_end)
      /\ TrimBegin(v, extra).out_end = v.out_end
  BY <1>1 DEF TrimBegin, DspType, SameBlocks, Lesser
<1>4. Readable(TrimEnd(v, extra), top)
  BY <1>1, <1>2 DEF Readable, Lesser
<1>5. Readable(TrimBegin(v, extra), top)
  BY <1>1, <1>3 DEF Readable, Lesser
<1> QED
  BY <1>2, <1>3, <1>4, <1>5

LEMMA ExcessIsNat ==
  ASSUME NEW count \in Int, NEW g \in Int, count > g
  PROVE  Excess(count, g) \in Nat
BY DEF Excess

(* Believing a packet's position does not touch the window.                *)
LEMMA PositionReadable ==
  ASSUME NEW v \in DspType, NEW top \in Int, Readable(v, top),
         NEW g \in Int
  PROVE  LET h == [v EXCEPT !.granulepos = g]
         IN  h \in DspType /\ SameBlocks(h, v) /\ Readable(h, top)
BY DEF DspType, SameBlocks, Readable

LEMMA SameBlocksTransitive ==
  ASSUME NEW u, NEW v, NEW w, SameBlocks(u, v), SameBlocks(v, w)
  PROVE  SameBlocks(u, w)
BY DEF SameBlocks

LEMMA TrackFirstReadable ==
  ASSUME NEW bs, BlockSizesOK(bs), NEW v \in DspType, NEW top \in Int,
         Readable(v, top), NEW p \in PacketType
  PROVE  LET t == TrackFirstGranule(v, p)
         IN  t \in DspType /\ SameBlocks(t, v) /\ Readable(t, top)
<1> DEFINE t == TrackFirstGranule(v, p)
           here == [v EXCEPT !.granulepos = p.granulepos]
           extra == Excess(v.sample_count, p.granulepos)
<1>1. /\ p.granulepos \in Int /\ p.eos \in BOOLEAN
      /\ v.sample_count \in Int
  BY DEF PacketType, DspType
<1>2. here \in DspType /\ SameBlocks(here, v) /\ Readable(here, top)
  BY <1>1, PositionReadable
<1>3. CASE p.granulepos = -1
  <2>1. t = v
    BY <1>3 DEF TrackFirstGranule
  <2> QED
    BY <2>1 DEF SameBlocks
<1>4. CASE p.granulepos # -1 /\ v.sample_count <= p.granulepos
  <2>1. t = here
    BY <1>4 DEF TrackFirstGranule
  <2> QED
    BY <2>1, <1>2
<1>5. CASE p.granulepos # -1 /\ v.sample_count > p.granulepos
  <2>1. extra \in Nat
    BY <1>1, <1>5, ExcessIsNat
  <2>2. t = TrimEnd(here, extra) \/ t = TrimBegin(here, extra)
    BY <1>1, <1>5 DEF TrackFirstGranule
  <2> HIDE DEF t, here, extra
  <2>3. t \in DspType /\ SameBlocks(t, here) /\ Readable(t, top)
    BY <1>2, <2>1, <2>2, TrimReadable
  <2> QED
    BY <1>2, <2>3, SameBlocksTransitive DEF t
<1> QED
  BY <1>1, <1>3, <1>4, <1>5

LEMMA TrackNextReadable ==
  ASSUME NEW bs, BlockSizesOK(bs), NEW v \in DspType, NEW top \in Int,
         Readable(v, top), NEW p \in PacketType
  PROVE  LET t == TrackNextGranule(bs, v, p)
         IN  t \in DspType /\ SameBlocks(t, v) /\ Readable(t, top)
<1> DEFINE t == TrackNextGranule(bs, v, p)
           reached == v.granulepos + Span(bs, v)
           position == IF p.granulepos = -1 THEN reached ELSE p.granulepos
           here == [v EXCEPT !.granulepos = position]
           extra == Excess(reached, p.granulepos)
<1>1. reached \in Int /\ position \in Int /\ p.granulepos \in Int
  BY SpanBound DEF PacketType, DspType
<1>2. here \in DspType /\ SameBlocks(here, v) /\ Readable(here, top)
  <2> HIDE DEF position
  <2> QED
    BY <1>1, PositionReadable
<1>3. CASE p.granulepos # -1 /\ reached > p.granulepos /\ p.eos
  <2>1. extra \in Nat
    <3> HIDE DEF reached
    <3> QED
      BY <1>1, <1>3, ExcessIsNat
  <2>2. t = TrimEnd(here, extra)
    BY <1>3 DEF TrackNextGranule
  <2> HIDE DEF t, here, extra
  <2>3. t \in DspType /\ SameBlocks(t, here) /\ Readable(t, top)
    BY <1>2, <2>1, <2>2, TrimReadable
  <2> QED
    BY <1>2, <2>3, SameBlocksTransitive DEF t
<1>4. CASE ~(p.granulepos # -1 /\ reached > p.granulepos /\ p.eos)
  <2>1. t = here
    BY <1>4 DEF TrackNextGranule
  <2> QED
    BY <2>1, <1>2
<1> QED
  BY <1>3, <1>4

(* vorbis_synthesis_blockin opens a window inside the lap of the block it  *)
(* was given with the one before, and leaves the planes alone.             *)
LEMMA BlockinReadable ==
  ASSUME NEW bs, BlockSizesOK(bs), NEW v \in DspType, NEW p \in PacketType,
         NEW n \in Nat
  PROVE  LET b == Blockin(bs, v, p, n)
         IN  /\ b \in DspType
             /\ Readable(b, IF v.out_begin = -1 THEN 0 ELSE Span(bs, b))
             /\ b.lW = v.W /\ b.W = p.W /\ b.sequence = n
             /\ b.work = v.work /\ b.mdctright = v.mdctright
             /\ b.setup_arena = v.setup_arena
             /\ b.channel_keep = v.channel_keep
<1> DEFINE t == Turn(v, p, n)
           o == OpenWindow(bs, t)
           c == CountSamples(bs, o)
           g == TrackGranule(bs, c, p)
           b == Blockin(bs, v, p, n)
           top == IF t.out_begin = -1 THEN 0 ELSE Span(bs, t)
<1>1. /\ t \in DspType
      /\ t.lW = v.W /\ t.W = p.W /\ t.sequence = n
      /\ t.work = v.work /\ t.mdctright = v.mdctright
      /\ t.setup_arena = v.setup_arena /\ t.channel_keep = v.channel_keep
      /\ t.out_begin = v.out_begin
  BY TurnType
<1>2. /\ o \in DspType /\ SameBlocks(o, t) /\ Readable(o, top)
      /\ top \in Int
  BY <1>1, OpenWindowReadable, SpanBound
<1>3. c \in DspType /\ SameBlocks(c, o) /\ Readable(c, top)
  BY <1>2, CountSamplesReadable
<1>4. g \in DspType /\ SameBlocks(g, c) /\ Readable(g, top)
  <2>1. top \in Int
    BY <1>2
  <2> HIDE DEF c, top
  <2> QED
    BY <1>3, <2>1, TrackFirstReadable, TrackNextReadable DEF TrackGranule
<1>5. b = [g EXCEPT !.eofflag = g.eofflag \/ p.eos]
  BY DEF Blockin
<1>6. (g.eofflag \/ p.eos) \in BOOLEAN
  OBVIOUS
<1> HIDE DEF b, g, c, o, t, top
<1>7. b \in DspType /\ SameBlocks(b, g) /\ Readable(b, top)
  <2> DEFINE flag == g.eofflag \/ p.eos
  <2>1. flag \in BOOLEAN
    BY <1>6
  <2>2. b = [g EXCEPT !.eofflag = flag]
    BY <1>5
  <2> HIDE DEF flag
  <2>3. b \in DspType
    BY <1>4, <2>1, <2>2 DEF DspType
  <2>4. /\ SameBlocks(b, g)
        /\ b.out_begin = g.out_begin /\ b.out_end = g.out_end
    BY <1>4, <2>2 DEF DspType, SameBlocks
  <2> QED
    BY <1>4, <2>3, <2>4 DEF Readable, SameBlocks
<1>8. SameBlocks(b, t)
  BY <1>2, <1>3, <1>4, <1>7, SameBlocksTransitive
<1>9. top = IF v.out_begin = -1 THEN 0 ELSE Span(bs, b)
  BY <1>1, <1>8 DEF top, SameBlocks, Span
<1> QED
  BY <1>1, <1>7, <1>8, <1>9 DEF SameBlocks, b

(* Draining takes all there is, and only moves the start of the window.    *)
LEMMA DrainEmpties ==
  ASSUME NEW v \in DspType
  PROVE  LET d == Drain(v)
         IN  /\ d \in DspType /\ SameBlocks(d, v)
             /\ PcmAvail(d) = 0
             /\ d.out_end = v.out_end
             /\ d.out_begin = IF Unread(v) THEN v.out_end ELSE v.out_begin
<1> DEFINE d == Drain(v)
           begin == v.out_begin + PcmAvail(v)
<1>1. v.out_begin \in Int /\ v.out_end \in Int
  BY DEF DspType
<1>2. begin \in Int /\ begin = IF Unread(v) THEN v.out_end ELSE v.out_begin
  BY <1>1 DEF PcmAvail, Unread
<1>3. d = [v EXCEPT !.out_begin = begin]
  BY DEF Drain
<1> HIDE DEF d, begin
<1>4. /\ d \in DspType /\ SameBlocks(d, v)
      /\ d.out_end = v.out_end /\ d.out_begin = begin
  BY <1>2, <1>3 DEF DspType, SameBlocks
<1>5. PcmAvail(d) = 0
  BY <1>1, <1>2, <1>4 DEF PcmAvail, Unread
<1> QED
  BY <1>2, <1>4, <1>5 DEF d

(* What can be read is never more than half a long block.                  *)
LEMMA PcmAvailBound ==
  ASSUME NEW bs, BlockSizesOK(bs), NEW v \in DspType, WindowOK(bs, v)
  PROVE  /\ PcmAvail(v) \in Nat
         /\ PcmAvail(v) <= bs[1] \div 2
         /\ PcmAvail(v) > 0 <=> Unread(v)
<1>1. v.out_begin \in Int /\ v.out_end \in Int
  BY DEF DspType
<1>2. /\ Span(bs, v) \in Nat /\ Span(bs, v) > 0
      /\ Span(bs, v) <= bs[1] \div 2
  BY SpanBound
<1>3. bs[1] \div 2 \in Int
  BY DEF BlockSizesOK, Flags
<1> QED
  BY <1>1, <1>2, <1>3 DEF WindowOK, PcmAvail, Unread
=============================================================================
