------------------------------- MODULE Tables -------------------------------
(***************************************************************************)
(* The keyed tables of libs/relational/src/store/mod.rs: sequences of      *)
(* rows, each a key, the id it is worth and a tag, at most one row a key.  *)
(*                                                                         *)
(* A key is a label, which is a plain column, and at most one operand,     *)
(* which names an id.  The key index is a function of the rows and left    *)
(* out, and so are stamps, the weights of cells, unordered pairs, the      *)
(* dissolving of rows by a law, and bags.                                  *)
(***************************************************************************)
EXTENDS Naturals, Sequences, SequencesExt, FiniteSetsExt

CONSTANT NoOperand        \* the operand of a leaf's key

KeyOf(row) == [label |-> row.label, operand |-> row.operand]

\* The ids a row names past the plain column.
Named(row) == {row.value, row.operand} \ {NoOperand}

\* The position of the row that holds `key`, or 0.
Get(rows, key) ==
  LET at == {i \in DOMAIN rows : KeyOf(rows[i]) = key}
  IN  IF at = {} THEN 0 ELSE CHOOSE i \in at : TRUE

\* A row through `map`, which sends an id to the one that stands for it.
Renamed(row, map) ==
  [row EXCEPT !.operand = IF @ = NoOperand THEN @ ELSE map[@], !.value = map[@]]

\* The last row fills the hole.
SwapRemove(rows, i) == SubSeq([rows EXCEPT ![i] = rows[Len(rows)]], 1, Len(rows) - 1)

\* The positions of a table's rows that pass `Test`, in order.
RowsWhere(rows, Test(_)) == SelectSeq([i \in DOMAIN rows |-> i], Test)

\* The mark after the rows at `dead`, in order, are gone: the row that fills a hole may
\* be one written since the mark.
MarkAfter(marked, dead) == IF dead # <<>> /\ Head(dead) <= marked THEN Head(dead) - 1 ELSE marked

\* repair: rename the rows after the first `from` through `map`.  A row whose key did
\* not move keeps its place in the index and the others are placed in row order, so
\* of two that come to share a key the one placed first is kept, the other is removed
\* and the pair reported.
Repair(rows, marked, map, recent) ==
  LET from == IF recent THEN Min({marked, Len(rows)}) ELSE 0
      new == SubSeq(rows, 1, from)
             \o [i \in 1..(Len(rows) - from) |-> Renamed(rows[from + i], map)]
      moved == {i \in DOMAIN rows : KeyOf(new[i]) # KeyOf(rows[i])}
      Rivals(i) == {j \in DOMAIN rows \ {i} : KeyOf(new[j]) = KeyOf(new[i])}
      Dead(i) == i \in moved /\ \E j \in Rivals(i) : j \notin moved \/ j < i
      dead == RowsWhere(rows, Dead)
      Collision(i) == [kept |-> new[CHOOSE j \in Rivals(i) : ~Dead(j)].value,
                       removed |-> new[i].value, tag |-> new[i].tag]
  IN  [rows |-> FoldLeft(SwapRemove, new, Reverse(dead)),
       marked |-> MarkAfter(marked, dead),
       moved |-> {new[i] : i \in {j \in DOMAIN rows : new[j] # rows[j]}},
       rekeyed |-> {new[i].value : i \in moved},
       collisions |-> [n \in DOMAIN dead |-> Collision(dead[n])]]
=============================================================================
