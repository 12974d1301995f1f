----------------------------- MODULE MCDspSetup -----------------------------
(***************************************************************************)
(* DspSetup with sixteen sample rates, half of them negative in a long,    *)
(* and headers in groups: identification headers with every single fault;  *)
(* one or two books, floors and residues of every type with types out of   *)
(* range, and structs that name books that are not there or have no        *)
(* values; and two floors, maps and modes that share them in every way.    *)
(***************************************************************************)
EXTENDS DspSetup

Ident(chans, rate, e0, e1) ==
  [magic |-> TRUE, bytes |-> 30, version |-> 0, channels |-> chans, rate |-> rate,
   exp0 |-> e0, exp1 |-> e1, framing |-> 1]
Good == Ident(2, 7, 6, 7)

Idents ==
  {Good, [Good EXCEPT !.magic = FALSE], [Good EXCEPT !.bytes = 29],
   [Good EXCEPT !.bytes = 31], [Good EXCEPT !.version = 1],
   [Good EXCEPT !.framing = 0]}
    \cup {Ident(c, r, e0, e1) :
            c \in 0..1, r \in {0, 1, 7, 8, 15}, e0 \in {0, 5, 6, 13, 14},
            e1 \in {5, 6, 13, 14, 15}}

Count(b, t, f, r, p, m) ==
  [books |-> b, times |-> t, floors |-> f, residues |-> r, maps |-> p,
   modes |-> m]

Floor0(map, books) == [order |-> 2, rate |-> 44, barkmap |-> map, books |-> books]
Residue(group, books) == [groupbook |-> group, booklist |-> books]
Mode(flag, map) ==
  [blockflag |-> flag, windowtype |-> 0, transformtype |-> 0, mapping |-> map]
Mapping(mux, couples, f, r) ==
  [submaps |-> Len(f), chmuxlist |-> mux, coupling |-> couples,
   floorsubmap |-> [s \in 0..(Len(f) - 1) |-> f[s + 1]],
   residuesubmap |-> [s \in 0..(Len(r) - 1) |-> r[s + 1]]]
Mux(a, b) == [c \in {0, 1} |-> IF c = 0 THEN a ELSE b]

Plain ==
  [ident |-> Good, count |-> Count({1}, {1}, {1}, {1}, {1}, {1}),
   type |-> Count({1}, {0}, {1}, {0}, {0}, {0}),
   floor0 |-> {}, floor1 |-> {[books |-> {-1}]}, residue |-> {Residue(0, {0})},
   mapping |-> {Mapping(Mux(0, 0), <<>>, <<0>>, <<0>>)},
   mode |-> {Mode(0, 0)}]

Structured ==
  [Plain EXCEPT
     !.count = Count({1, 2}, {1, 2}, {1, 2}, {1, 2}, {1}, {1}),
     !.type = Count({0, 1}, {0, 1}, 0..2, 0..3, {0, 1}, {0}),
     !.floor0 = {Floor0(3, <<0>>), Floor0(3, <<0, 1>>), Floor0(0, <<0>>)},
     !.floor1 = {[books |-> {-1, 1}], [books |-> {2}]},
     !.residue = {Residue(1, {0}), Residue(0, {1}), Residue(2, {})},
     !.mapping = {Mapping(Mux(0, 0), <<<<0, 1>>>>, <<f>>, <<0>>) : f \in {0, 2}}
                   \cup {Mapping(Mux(0, 0), <<<<0, c>>>>, <<0>>, <<0>>) : c \in {0, 2}},
     !.mode = {Mode(1, 0), Mode(1, 1), [Mode(0, 0) EXCEPT !.windowtype = 1]}]

Shared ==
  [Plain EXCEPT
     !.count = Count({1}, {1}, {2}, {1}, {2}, {1, 2}),
     !.type = Count({1}, {0}, {0, 1}, {2}, {0}, {0}),
     !.floor0 = {Floor0(n, <<0>>) : n \in {1, 4}},
     !.mapping = {Mapping(Mux(0, 0), <<>>, <<0>>, <<0>>)}
                   \cup {Mapping(Mux(0, 1), <<<<1, 0>>>>, fs, <<0, 0>>) :
                           fs \in {<<0, 1>>, <<1, 0>>, <<1, 1>>}},
     !.mode = {Mode(w, p) : w \in {0, 1}, p \in {0, 1}}]

MCSent ==
  {[Plain EXCEPT !.ident = id] : id \in Idents} \cup {Structured, Shared}
=============================================================================
