----------------------------- MODULE BitReader -----------------------------
(***************************************************************************)
(* The bit reader of the packets (src/tremor/bitwise.c): reading takes up  *)
(* to a word of bits at a time, far from the end of the packet without     *)
(* looking for it, and a read or skip across the end leaves the reader     *)
(* dead for good.                                                          *)
(*                                                                         *)
(* A reader is [storage, live, endbyte, endbit]; live stands for a pointer *)
(* that is not NULL, which is then at endbyte.  What the bits are is for   *)
(* the modules that read them.                                             *)
(***************************************************************************)
EXTENDS Integers

CONSTANTS
  ByteBits,   \* bits of a byte (8)
  WordBytes   \* bytes of a word (4)

ASSUME WidthAssumption == ByteBits \in Nat \ {0} /\ WordBytes \in Nat \ {0}

WordBits == ByteBits * WordBytes

(* The bytes that n bits from the start of a byte reach into.              *)
BytesOf(n) == (n + ByteBits - 1) \div ByteBits

oggpack_readinit(bytes) ==
  [storage |-> bytes, live |-> TRUE, endbyte |-> 0, endbit |-> 0]

Overflow(b) == [b EXCEPT !.live = FALSE, !.endbyte = b.storage, !.endbit = 1]

Advanced(b, bits) ==
  [b EXCEPT !.endbyte = @ + (bits + b.endbit) \div ByteBits,
            !.endbit = (bits + b.endbit) % ByteBits]

(* The packet holds the bytes that the next bits reach into.               *)
Fits(b, bits) == b.endbyte <= b.storage - BytesOf(bits + b.endbit)

(* Two words may not be left: the fast path of the Xtensa build is off and *)
(* the end is looked for.                                                  *)
NearEnd(b) == b.endbyte >= b.storage - (2 * WordBytes - 1)

Readable(b, bits) == bits \in 0..WordBits /\ (NearEnd(b) => Fits(b, bits))

oggpack_adv(b, bits) ==
  IF Fits(b, bits) THEN Advanced(b, bits) ELSE Overflow(b)

(* What oggpack_read leaves of the reader; it returns bits iff Readable.   *)
oggpack_read(b, bits) ==
  IF Readable(b, bits) THEN Advanced(b, bits) ELSE Overflow(b)

(* The last byte fetched to read bits, when any is: a byte pointer walks   *)
(* as far as the bits reach, and the fast path fetches two aligned words.  *)
(* base is the address of the packet.                                      *)
LastByWalking(b, bits) ==
  b.endbyte + (IF bits + b.endbit = 0 THEN 1 ELSE BytesOf(bits + b.endbit)) - 1

LastByWords(b, base) ==
  LET ptr == base + b.endbyte
  IN  (ptr - (ptr % WordBytes)) + 2 * WordBytes - 1 - base

(* Bits the packet still has.                                              *)
BitsLeft(b) == IF b.live THEN (b.storage - b.endbyte) * ByteBits - b.endbit
                         ELSE 0

oggpack_eop(b) == ~b.live
oggpack_seteop(b) == Overflow(b)

(* A reader as the functions above leave it.                               *)
ReaderOK(b) ==
  /\ b.storage \in Nat /\ b.endbyte \in 0..b.storage /\ b.live \in BOOLEAN
  /\ IF b.live THEN /\ b.endbit \in 0..(ByteBits - 1)
                    /\ b.endbit > 0 => b.endbyte < b.storage
               ELSE b.endbyte = b.storage /\ b.endbit = 1
=============================================================================
