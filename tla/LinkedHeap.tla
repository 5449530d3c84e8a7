----------------------------- MODULE LinkedHeap -----------------------------
(***************************************************************************)
(* The free store that linked structures are built in: a heap maps each    *)
(* live cell to a node, a record whose fields are values and cells.  A     *)
(* read of a cell that is not live has no value, so TLC stops at one.      *)
(***************************************************************************)
EXTENDS Integers, Sequences, SequencesExt

CONSTANT Cells  \* bound: cells that may be live at once

Nil == 0        \* nullptr, no member of Cells

\* new gives a cell that is not live; which one makes no difference.
Room(h, n) == Cardinality(Cells \ DOMAIN h) >= n
Fresh(h) == CHOOSE c \in Cells : c \notin DOMAIN h

\* Cell c, which may be new, holds the node; delete ends the life of a cell.
Stored(h, c, node) == [d \in DOMAIN h \cup {c} |-> IF d = c THEN node ELSE h[d]]
Freed(h, c) == [d \in DOMAIN h \ {c} |-> h[d]]

\* The cells from c along a link, n links at most: a cell that is not live
\* ends the walk.
Walk(h, c, link, n) ==
    LET after == [d \in Cells \cup {Nil} |-> IF d \in DOMAIN h THEN h[d][link] ELSE Nil]
        cell[i \in 0 .. n] == IF i = 0 THEN c ELSE after[cell[i - 1]]
        length == Cardinality({i \in 0 .. n : cell[i] # Nil})
    IN  [i \in 1 .. length |-> cell[i - 1]]

Chain(h, c) == Walk(h, c, "next", Cardinality(DOMAIN h))
ValuesFrom(h, c) == LET w == Chain(h, c) IN [i \in DOMAIN w |-> h[w[i]].value]

\* The nodes from c on are live, and reached once.
ChainSound(h, c) ==
    LET w == Chain(h, c)
    IN  /\ ToSet(w) \subseteq DOMAIN h
        /\ Len(w) = Cardinality(ToSet(w))
=============================================================================
