------------------------------- MODULE Memory -------------------------------
(***************************************************************************)
(* Guest memory of libs/simcore/src/memory.rs: an address space of         *)
(* mappings onto backings, changed by map, protect and unmap, and the      *)
(* check and the bytes of an access.                                       *)
(*                                                                         *)
(* A space is its generation and its mappings; a backing is the sequence   *)
(* of its bytes (the pages that leave zeros out are layout).  A word is    *)
(* the sequence of its bytes, lowest first.                                *)
(***************************************************************************)
EXTENDS Integers, Sequences, FiniteSetsExt

CONSTANT LastAddress   \* u64::MAX: an access or a mapping ends at or below it

Read == {"read"}
ReadWrite == {"read", "write"}

\* checked_end
InRange(start, size) == size > 0 /\ start + size <= LastAddress

EmptySpace == [generation |-> 0, mappings |-> {}]

\* The mappings that meet a range.
Meeting(space, start, size) ==
  {m \in space.mappings : m.start < start + size /\ m.end > start}

MappingAt(space, address) == CHOOSE m \in Meeting(space, address, 1) : TRUE

\* mapped_range
MappedRange(space, start, size) ==
  \A address \in start..(start + size - 1) : Meeting(space, address, 1) # {}

\* What map allows, and the space after it.
MayMap(space, backings, start, size, backing, offset) ==
  /\ InRange(start, size)
  /\ backing \in DOMAIN backings
  /\ offset + size <= Len(backings[backing])
  /\ Meeting(space, start, size) = {}

Mapped(space, start, size, backing, offset, permissions) ==
  [generation |-> space.generation + 1,
   mappings |-> space.mappings \cup
     {[start |-> start, end |-> start + size, backing |-> backing, offset |-> offset,
       permissions |-> permissions]}]

\* What replace_range allows, and the space after it: the parts of a mapping outside the
\* range stay, the part inside takes the permissions, or goes when there are none to take.
MayReplace(space, start, size) == InRange(start, size) /\ MappedRange(space, start, size)

Part(m, from, to) == [m EXCEPT !.start = from, !.end = to, !.offset = @ + (from - m.start)]

ReplaceRange(space, start, size, kept, permissions) ==
  LET end == start + size
      met == Meeting(space, start, size)
      before == {Part(m, m.start, start) : m \in {x \in met : x.start < start}}
      after == {Part(m, end, m.end) : m \in {x \in met : x.end > end}}
      Middle(m) == [Part(m, Max({m.start, start}), Min({m.end, end})) EXCEPT !.permissions = permissions]
  IN  [generation |-> space.generation + 1,
       mappings |-> (space.mappings \ met) \cup before \cup after
                    \cup (IF kept THEN {Middle(m) : m \in met} ELSE {})]

\* validate: every byte is mapped with the permission.  An access of no bytes is valid.
Accessible(space, start, size, permission) ==
  size > 0 =>
    /\ InRange(start, size)
    /\ MappedRange(space, start, size)
    /\ \A m \in Meeting(space, start, size) : permission \in m.permissions

\* resolve: where the bytes of an access are.
Cells(space, start, size) ==
  [i \in 1..size |->
     LET m == MappingAt(space, start + i - 1)
     IN  <<m.backing, m.offset + (start + i - 1 - m.start) + 1>>]

ReadCells(backings, cells) == [i \in DOMAIN cells |-> backings[cells[i][1]][cells[i][2]]]

\* The last byte written to a cell stays: two addresses of an access may lead to one cell.
WriteCells(backings, cells, bytes) ==
  [b \in DOMAIN backings |-> [o \in DOMAIN backings[b] |->
     LET at == {i \in DOMAIN cells : cells[i] = <<b, o>>}
     IN  IF at = {} THEN backings[b][o] ELSE bytes[Max(at)]]]
=============================================================================
