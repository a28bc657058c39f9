----------------------------- MODULE Partition -----------------------------
(***************************************************************************)
(* What a union-find over the ids of a space promises: every id is a       *)
(* representative plus an offset, and recording an equality relabels a     *)
(* whole set at once.  This is the model that the property test of         *)
(* libs/relational/src/unionfind.rs compares the structure with, extended  *)
(* by carriers, zeros and conflicts.                                       *)
(***************************************************************************)
EXTENDS Naturals, Offsets

CONSTANT MaxIds           \* bound: ids minted

VARIABLES
  len,        \* ids minted: 0 .. len - 1
  rep,        \* id -> the representative of its set
  off,        \* id -> its offset from the representative
  carried,    \* representative -> its set has a carrier
  zero,       \* id -> it is a carrier's zero
  bad,        \* representative -> an equality contradicted the set
  asked       \* the two references a client wants equal: or Nothing

pvars == <<len, rep, off, carried, zero, bad, asked>>

Ids == 0..(MaxIds - 1)
Refs == [id : Ids, offset : Values]

NoRef == [id |-> 0, offset |-> Zero]
Nothing == <<NoRef, NoRef>>

Init ==
  /\ len = 0
  /\ rep = [i \in Ids |-> i]
  /\ off = [i \in Ids |-> Zero]
  /\ carried = [i \in Ids |-> FALSE]
  /\ zero = [i \in Ids |-> FALSE]
  /\ bad = [i \in Ids |-> FALSE]
  /\ asked = Nothing

Mint(carrier, isZero) ==
  /\ len < MaxIds
  /\ len' = len + 1
  /\ carried' = [carried EXCEPT ![len] = carrier]
  /\ zero' = [zero EXCEPT ![len] = isZero]
  /\ UNCHANGED <<rep, off, bad, asked>>

\* Several ids without a carrier at once.
Grow(n) ==
  /\ n \in len..MaxIds
  /\ len' = n
  /\ UNCHANGED <<rep, off, carried, zero, bad, asked>>

Forget ==
  /\ len' = 0
  /\ rep' = [i \in Ids |-> i]
  /\ off' = [i \in Ids |-> Zero]
  /\ carried' = [i \in Ids |-> FALSE]
  /\ zero' = [i \in Ids |-> FALSE]
  /\ bad' = [i \in Ids |-> FALSE]
  /\ UNCHANGED asked

\* Where a reference lies from its representative.
Place(ref) == Reduce(carried[rep[ref.id]], Plus(ref.offset, off[ref.id]))

\* The representative that keeps its set's name: a zero, or the smaller id.
Survivor(r, s) == IF zero[r] \/ (~zero[s] /\ r < s) THEN r ELSE s

Contradict(r, s) ==
  /\ bad' = [i \in Ids |-> bad[i] \/ i = r \/ i = s]
  /\ UNCHANGED <<len, rep, off, carried, zero>>

\* Every id of the set of `t`, which lies at `x`, joins the set of `s`, at `y`.
Absorb(s, y, t, x) ==
  LET carrier == carried[s] \/ carried[t]
      shift == Reduce(carrier, Minus(y, x))
      Joins(i) == i < len /\ rep[i] = t
  IN  /\ rep' = [i \in Ids |-> IF Joins(i) THEN s ELSE rep[i]]
      /\ off' = [i \in Ids |->
                   IF Joins(i) THEN Reduce(carrier, Plus(shift, off[i])) ELSE off[i]]
      /\ carried' = [carried EXCEPT ![s] = carrier]
      /\ bad' = [bad EXCEPT ![s] = bad[s] \/ bad[t]]
      /\ UNCHANGED <<len, zero>>

Ask(x, y) ==
  /\ asked = Nothing
  /\ x.id < len /\ y.id < len
  /\ asked' = <<x, y>>
  /\ UNCHANGED <<len, rep, off, carried, zero, bad>>

\* The equality asked for is recorded, or contradicts what is.
Equate ==
  LET x == asked[1]
      y == asked[2]
      r == rep[x.id]
      s == rep[y.id]
      px == Place(x)
      py == Place(y)
  IN  /\ asked' = Nothing
      /\ \/ r = s /\ px = py /\ UNCHANGED <<len, rep, off, carried, zero, bad>>
         \/ r = s /\ px # py /\ Contradict(r, r)
         \/ r # s /\ zero[r] /\ zero[s] /\ Contradict(r, s)
         \/ r # s /\ ~(zero[r] /\ zero[s]) /\ Survivor(r, s) = r /\ Absorb(r, px, s, py)
         \/ r # s /\ ~(zero[r] /\ zero[s]) /\ Survivor(r, s) = s /\ Absorb(s, py, r, px)

Next ==
  \/ \E c, z \in BOOLEAN : Mint(c, z)
  \/ \E n \in 0..MaxIds : Grow(n)
  \/ Forget
  \/ \E x, y \in Refs : Ask(x, y)
  \/ Equate

Spec == Init /\ [][Next]_pvars
=============================================================================
