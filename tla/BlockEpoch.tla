----------------------------- MODULE BlockEpoch -----------------------------
(* Two tasks of a parallel epoch edit one block, each in its own copy of    *)
(* the rows, and the commit takes every row from the task that wrote it.    *)
(* It refuses two tasks that wrote one row, the block's own row with the    *)
(* counter included; an insert that finds a free position writes only the   *)
(* row of the op it places.                                                 *)
EXTENDS Positions

CONSTANTS
  Tasks,
  Base,                             \* the ops the block holds before the epoch
  Minted,                           \* per task: the ops it mints; of 0, the context's
  MaxStart,                         \* bound: appends the block has seen before
  MaxEdits                          \* bound: edits of a task

ASSUME BaseAssumption ==
  /\ Base \subseteq Ops
  /\ \A t \in Tasks \cup {0} : Minted[t] \subseteq Ops
  /\ IsFiniteSet(Tasks)
  /\ MaxStart \in Nat
  /\ (MaxStart + 1) * Stride < MaxPosition - 2 * Stride

VARIABLES
  block,                            \* the committed rows
  copy,                             \* per task: its copy of them
  wrote,                            \* per task: the op rows it wrote
  counted,                          \* the tasks that wrote the block's row
  renumbered,                       \* those that renumbered the block
  asked,                            \* what tasks placed before what: task, op, target
  phase,                            \* "epoch", then "after" or "refused"
  edits                             \* per task: its edits

vars == <<block, copy, wrote, counted, renumbered, asked, phase, edits>>

Rows(h, p, n) == [held |-> h, pos |-> p, next |-> n]

\* A block that was appended to, with some of its ops erased since, and
\* Context::lane: every task gets the committed rows.
Init ==
  /\ \E place \in [Base -> 1 .. MaxStart], n \in 1 .. MaxStart :
       /\ \A x, y \in Base : x < y => place[x] < place[y]
       /\ \A x \in Base : place[x] <= n
       /\ block = Rows(Base, [o \in Ops |-> IF o \in Base THEN place[o] * Stride ELSE 0],
                       (n + 1) * Stride)
  /\ copy = [t \in Tasks |-> block]
  /\ wrote = [t \in Tasks |-> {}]
  /\ counted = {} /\ renumbered = {} /\ asked = {}
  /\ phase = "epoch"
  /\ edits = [t \in Tasks |-> 0]

-----------------------------------------------------------------------------
(* Edits, of the context or of a task. *)

Appended(b, o) ==
  Rows(b.held \cup {o}, AppendPositions(b.held, b.pos, b.next, o), AppendNext(b.held, b.next))
Inserted(b, o, target) ==
  Rows(b.held \cup {o}, InsertPositions(b.held, b.pos, o, target),
       InsertNext(b.held, b.pos, b.next, target))
Removed(b, o) == [b EXCEPT !.held = @ \ {o}]

\* After the epoch the context appends to the committed rows.
ContextAppend(o) ==
  /\ phase = "after"
  /\ o \notin block.held
  /\ block' = Appended(block, o)
  /\ UNCHANGED <<copy, wrote, counted, renumbered, asked, phase, edits>>

\* A task inserts an op before another.
TaskInsert(t, o, target) ==
  LET b == copy[t] IN
  /\ o \notin b.held /\ target \in b.held
  /\ copy' = [copy EXCEPT ![t] = Inserted(b, o, target)]
  /\ wrote' = [wrote EXCEPT ![t] = @ \cup {o} \cup IF IsTight(b.held, b.pos, target) THEN b.held ELSE {}]
  /\ counted' = IF IsTight(b.held, b.pos, target) THEN counted \cup {t} ELSE counted
  /\ renumbered' = IF IsTight(b.held, b.pos, target) THEN renumbered \cup {t} ELSE renumbered
  /\ asked' = {a \in asked : a[1] # t \/ o \notin {a[2], a[3]}} \cup {<<t, o, target>>}

TaskAppend(t, o) ==
  LET b == copy[t] IN
  /\ o \notin b.held
  /\ copy' = [copy EXCEPT ![t] = Appended(b, o)]
  /\ wrote' = [wrote EXCEPT ![t] = @ \cup {o} \cup IF HasRoom(b.next) THEN {} ELSE b.held]
  /\ counted' = counted \cup {t}
  /\ renumbered' = IF HasRoom(b.next) THEN renumbered ELSE renumbered \cup {t}
  /\ asked' = {a \in asked : a[1] # t \/ o \notin {a[2], a[3]}}

TaskRemove(t, o) ==
  /\ o \in copy[t].held
  /\ copy' = [copy EXCEPT ![t] = Removed(@, o)]
  /\ wrote' = [wrote EXCEPT ![t] = @ \cup {o}]
  /\ asked' = {a \in asked : a[1] # t \/ o \notin {a[2], a[3]}}
  /\ UNCHANGED <<counted, renumbered>>

TaskEdit(t) ==
  /\ phase = "epoch" /\ edits[t] < MaxEdits
  /\ \E o \in Minted[t] \cup Base :
       \/ TaskAppend(t, o)
       \/ TaskRemove(t, o)
       \/ \E target \in copy[t].held : TaskInsert(t, o, target)
  /\ edits' = [edits EXCEPT ![t] = @ + 1]
  /\ UNCHANGED <<block, phase>>

-----------------------------------------------------------------------------
(* The commit. *)

\* Mutant: the commit looks only at the block's row.
OverlapOfBlock == Cardinality(counted) > 1

\* merge_space: two tasks wrote one row.
Overlap ==
  \/ Cardinality(counted) > 1
  \/ \E t, u \in Tasks : t # u /\ wrote[t] \cap wrote[u] # {}

\* Whose row the commit takes.
RowOf(o) ==
  IF \E t \in Tasks : o \in wrote[t]
  THEN copy[CHOOSE t \in Tasks : o \in wrote[t]] ELSE block

\* Mutant: the commit leaves the counter as it was.
MergedNextBase == block.next

MergedNext == IF counted = {} THEN block.next ELSE copy[CHOOSE t \in counted : TRUE].next

Merged ==
  Rows({o \in Ops : o \in RowOf(o).held},
       [o \in Ops |-> RowOf(o).pos[o]],
       MergedNext)

Commit ==
  /\ phase = "epoch"
  /\ ~Overlap
  /\ phase' = "after"
  /\ block' = Merged
  /\ UNCHANGED <<copy, wrote, counted, renumbered, asked, edits>>

\* The error of merge_space, which ends the run with the rows as they were.
Refuse ==
  /\ phase = "epoch"
  /\ Overlap
  /\ phase' = "refused"
  /\ UNCHANGED <<block, copy, wrote, counted, renumbered, asked, edits>>

Next ==
  \/ \E t \in Tasks : TaskEdit(t)
  \/ Commit
  \/ Refuse
  \/ \E o \in Minted[0] : ContextAppend(o)

Spec == Init /\ [][Next]_vars

-----------------------------------------------------------------------------

IsKept(a) == {a[2], a[3]} \subseteq block.held => IsAhead(block.pos, a[2], a[3])

\* insert_op_before: "Insert `new_op` immediately before `target` in its block."
\* After the commit the op a task placed before a target is ahead of it, where no
\* other task renumbered or placed the target: the positions of the op
\* and its target come from one copy, and a second task that places the op is
\* refused.
CommittedBeforeUnlessRenumbered ==
  phase = "after" => \A a \in asked :
    (\A t \in Tasks \ {a[1]} : a[3] \notin wrote[t]) => IsKept(a)

\* Block::append: "Add `id` after every operation the block currently holds."
\* An append of the context after an epoch in which no task renumbered the
\* block: the counter the commit takes is beyond what every task placed.
AppendGoesLastUnlessRenumbered ==
  [][\A o \in Minted[0] : ContextAppend(o) /\ renumbered = {} =>
       AheadOf(block'.held, block'.pos, o) = block.held]_vars
=============================================================================
