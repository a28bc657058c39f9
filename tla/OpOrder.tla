------------------------------ MODULE OpOrder ------------------------------
(* What a block promises: the ops it holds are in one order, and an edit    *)
(* changes it as its name says, with no other two ops changing places.      *)
EXTENDS Integers

CONSTANT Ops

VARIABLES
  held,                             \* the ops of the block
  before                            \* per op: the held ops ahead of it

vars == <<held, before>>

IsOrder(h, b) ==
  /\ b \in [Ops -> SUBSET h]
  /\ \A o \in Ops \ h : b[o] = {}
  /\ \A x \in h : x \notin b[x]
  /\ \A x, y \in h : x = y \/ x \in b[y] \/ y \in b[x]
  /\ \A x, y, z \in h : x \in b[y] /\ y \in b[z] => x \in b[z]

Init == held = {} /\ before = [o \in Ops |-> {}]

\* The op goes behind all others, wherever it was.
Append(o) ==
  /\ held' = held \cup {o}
  /\ before' = [x \in Ops |-> IF x = o THEN held \ {o} ELSE before[x] \ {o}]

\* The op goes immediately before target, wherever it was.
InsertBefore(o, target) ==
  /\ target \in held /\ o # target
  /\ held' = held \cup {o}
  /\ before' = [x \in Ops |->
       IF x = o THEN before[target] \ {o}
       ELSE IF x = target \/ target \in before[x] THEN before[x] \cup {o}
       ELSE before[x] \ {o}]

\* The new op takes the place of the old.
Replace(old, new) ==
  /\ old \in held /\ new # old
  /\ held' = (held \ {old}) \cup {new}
  /\ before' = [x \in Ops |->
       IF x = new THEN before[old] \ {new}
       ELSE IF x = old THEN {}
       ELSE IF old \in before[x] THEN (before[x] \ {old}) \cup {new}
       ELSE before[x] \ {new}]

Remove(o) ==
  /\ o \in held
  /\ held' = held \ {o}
  /\ before' = [x \in Ops |-> IF x = o THEN {} ELSE before[x] \ {o}]

Reorder ==
  /\ held' = held
  /\ IsOrder(held, before')

Next ==
  \/ \E o \in Ops : Append(o) \/ Remove(o)
  \/ \E o, x \in Ops : InsertBefore(o, x) \/ Replace(x, o)
  \/ Reorder

Spec == Init /\ [][Next]_vars
=============================================================================
