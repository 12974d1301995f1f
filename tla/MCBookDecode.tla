---------------------------- MODULE MCBookDecode ----------------------------
(***************************************************************************)
(* BookDecode with bytes of four bits and words of four bytes, so that     *)
(* books of at most five used entries have cells of every kind.  The books *)
(* come in groups: every list of lengths of a few entries; one as deep as  *)
(* a word has bits; every mapping on a few trees; and lattices of more     *)
(* entries for the polishing loop.                                         *)
(***************************************************************************)
EXTENDS BookDecode

Book(n, d, ord, lens, runs, map, bits) ==
  [entries |-> n, dim |-> d, ordered |-> ord, lengths |-> lens, nums |-> runs,
   maptype |-> map, q_bits |-> bits]

Always(runs) == [len \in 1..17 |-> runs]

Trees == {Book(n, 1, FALSE, 1..3, Always({}), 0, 1) : n \in 0..4}
           \cup {Book(n, 1, TRUE, 1..3, Always(0..4), 0, 1) : n \in 0..5}
Deep == {Book(17, 1, TRUE, {1},
              [len \in 1..17 |-> IF len = 16 THEN {1, 2} ELSE {1}], 0, 1)}
Mapped == {Book(n, d, TRUE, {1, 2}, Always(1..3), map, bits) :
             n \in {4, 5}, d \in 1..3, map \in 1..3, bits \in {1, 4, 6}}
            \cup {Book(3, 2, FALSE, 1..2, Always({}), 2, bits) : bits \in {2, 7}}
            \cup {Book(4, 4, TRUE, {1, 2}, Always(1..4), 2, 4)}
            \cup {Book(64, 4, TRUE, {6}, Always({64}), 2, 3)}
Lattices == {Book(n, d, TRUE, {5}, Always({n}), 1, 2) :
               n \in {0, 7, 8, 9, 16, 26, 27, 31}, d \in 0..5}

MCShapes == Trees \cup Deep \cup Mapped \cup Lattices
MCValues == [k \in 0..255 |-> (37 * k + 3) % 256]

Call(op, n, off, ch) == [op |-> op, n |-> n, off |-> off, ch |-> ch]
MCCalls == {Call("decode", 0, 0, 1), Call("vs", 4, 0, 1), Call("v", 3, 0, 1),
            Call("set", 3, 0, 1), Call("vv", 2, 1, 2)}

(* A book of 130 entries of seven bits each on the real width of a byte.   *)
SlightlyLarge ==
  {Book(130, 1, TRUE, {7},
        [len \in 1..25 |-> IF len = 7 THEN {126} ELSE {4}], 1, 7)}
EntryCall == {Call("set", 1, 0, 1)}
=============================================================================
