----------------------------- MODULE Positions -----------------------------
(* How core/src/store.rs keeps the ops of a block in order: an op row holds *)
(* its position, positions leave gaps, and a block row holds the next free  *)
(* one.  The operators take the held ops h and the positions p.             *)
EXTENDS Integers, FiniteSets

CONSTANTS
  Ops,                              \* op ids
  Stride,                           \* STRIDE
  MaxPosition                       \* u32::MAX

ASSUME OpsAssumption == Ops \subseteq Nat /\ IsFiniteSet(Ops)

ASSUME StrideAssumption ==
  /\ Stride \in Nat /\ Stride >= 2
  /\ MaxPosition \in Nat
  /\ (Cardinality(Ops) + 1) * Stride < MaxPosition - 2 * Stride

\* held sorts by position, then by id.
IsAhead(p, x, y) == p[x] < p[y] \/ (p[x] = p[y] /\ x < y)

\* The ops ahead of o.
AheadOf(h, p, o) == {x \in h : IsAhead(p, x, o)}

\* The order a block reads back.
Order(h, p) == [o \in Ops |-> IF o \in h THEN AheadOf(h, p, o) ELSE {}]

\* The position below o's: its neighbour's, or 0.
Below(h, p, o) ==
  CHOOSE low \in {0} \cup {p[x] : x \in AheadOf(h, p, o)} : \A x \in AheadOf(h, p, o) : p[x] <= low

\* set_held with the ops in the order before gives: every op at its rank.
Spread(h, p, before) ==
  [o \in Ops |-> IF o \in h THEN (Cardinality(before[o]) + 1) * Stride ELSE p[o]]

NextAfter(h) == (Cardinality(h) + 1) * Stride

\* set_held with the ops in the order they are in.
Renumbered(h, p) == Spread(h, p, Order(h, p))

\* next_position: the counter has not run out.
HasRoom(n) == n < MaxPosition - 2 * Stride

\* Mutant: two neighbours next to each other make room for a third.
IsTightLess(h, p, o) == p[o] - Below(h, p, o) < 1

\* insert_held: no position is free below o.
IsTight(h, p, o) == p[o] - Below(h, p, o) < 2

Midway(h, p, o) == Below(h, p, o) + (p[o] - Below(h, p, o)) \div 2

\* The positions and the counter that append_held leaves.
AppendPositions(h, p, n, o) ==
  [(IF HasRoom(n) THEN p ELSE Renumbered(h, p)) EXCEPT
     ![o] = IF HasRoom(n) THEN n ELSE NextAfter(h)]
AppendNext(h, n) == (IF HasRoom(n) THEN n ELSE NextAfter(h)) + Stride

\* The positions insert_held works on, and the counter it leaves.
RoomPositions(h, p, t) == IF IsTight(h, p, t) THEN Renumbered(h, p) ELSE p
InsertPositions(h, p, o, t) ==
  [RoomPositions(h, p, t) EXCEPT ![o] = Midway(h, RoomPositions(h, p, t), t)]

\* Mutant: renumbering leaves the counter.
InsertNextKept(h, p, n, t) == n

InsertNext(h, p, n, t) == IF IsTight(h, p, t) THEN NextAfter(h) ELSE n
=============================================================================
