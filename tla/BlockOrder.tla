----------------------------- MODULE BlockOrder -----------------------------
(* The ops of one block as rows of the store hold them, edited by one       *)
(* context: Block::append, insert, replace_op, remove_op and set_ops down   *)
(* to the positions and the counter.  An edit moves the op it is given even *)
(* when the block holds it already.                                         *)
EXTENDS Positions

VARIABLES
  held,                             \* the ops whose holder is the block
  pos,                              \* per op: its position
  next                              \* the block's NEXT

vars == <<held, pos, next>>

Init ==
  /\ held = {}
  /\ pos = [o \in Ops |-> 0]
  /\ next = Stride

\* append_held
Append(o) ==
  /\ held' = held \cup {o}
  /\ pos' = AppendPositions(held, pos, next, o)
  /\ next' = AppendNext(held, next)

\* insert_held at the index of target
Insert(o, target) ==
  /\ target \in held
  /\ held' = held \cup {o}
  /\ pos' = InsertPositions(held, pos, o, target)
  /\ next' = InsertNext(held, pos, next, target)

\* replace_held
Replace(old, new) ==
  /\ old \in held
  /\ held' = (held \ {old}) \cup {new}
  /\ pos' = [pos EXCEPT ![new] = pos[old]]
  /\ next' = next

\* remove_held, and what kill_op leaves of an op that is held
Remove(o) ==
  /\ o \in held
  /\ held' = held \ {o}
  /\ UNCHANGED <<pos, next>>

\* The orders a list of the block's ops can be in.
OO == INSTANCE OpOrder WITH before <- Order(held, pos)

\* set_block_ops
SetOps(before) ==
  /\ OO!IsOrder(held, before)
  /\ pos' = Spread(held, pos, before)
  /\ next' = NextAfter(held)
  /\ held' = held

Next ==
  \/ \E o \in Ops : Append(o) \/ Remove(o)
  \/ \E o, x \in Ops : Insert(o, x) \/ Replace(x, o)
  \/ \E before \in [Ops -> SUBSET held] : SetOps(before)

Spec == Init /\ [][Next]_vars

-----------------------------------------------------------------------------

\* Positions and the counter fit a u32, and no arithmetic on them wraps.
TypeOK ==
  /\ held \subseteq Ops
  /\ pos \in [Ops -> 0 .. MaxPosition]
  /\ next \in 1 .. MaxPosition

\* What the order rests on: no two held ops share a position, and the counter
\* that append_held takes is beyond all of them.
PositionsSpread ==
  \A x \in held :
    /\ 0 < pos[x] /\ pos[x] < next
    /\ \A y \in held : x # y => pos[x] # pos[y]

\* Through appends, inserts, replacements, removals and reorderings, with the
\* renumberings they trigger, the list a block reads back changes exactly as
\* the edit says: insert_op_before puts the op "immediately before `target`".
ImplementsOpOrder == OO!Spec
=============================================================================
