-------------------------- MODULE BlockEpochProofs --------------------------
(* What tasks of an epoch placed in one block stands after the commit, for *)
(* any number of tasks and edits, any base, every STRIDE from two and every *)
(* width of the counter that has room for the ops.                          *)
(*                                                                          *)
(* The inductive invariant keeps a copy's positions short of its counter,   *)
(* ties the rows a task did not write to the committed ones, and holds the  *)
(* order of every op and its target in the copy where they were placed.     *)
EXTENDS BlockEpoch, FiniteSetTheorems, WellFoundedInduction, TLAPS

-----------------------------------------------------------------------------
(* Facts about natural numbers. *)

\* Every set of naturals that has a member has a least one: the induction the
\* proofs about counters and indices of the code rest on.
LEMMA LeastNatural ==
  ASSUME NEW S \in SUBSET Nat, S # {}
  PROVE  \E n \in S : \A m \in S : n <= m
<1> DEFINE R == OpToRel(<, Nat)
<1>1. IsWellFoundedOn(R, Nat)
  BY NatLessThanWellFounded
<1>2. PICK n \in S : \A m \in S : ~ (<<m, n>> \in R)
  <2> HIDE DEF R
  <2> QED BY <1>1, WFMin
<1>3. ASSUME NEW m \in S PROVE n <= m
  <2>1. m \in Nat /\ n \in Nat
    OBVIOUS
  <2>2. ~ (m < n)
    BY <1>2, <2>1 DEF OpToRel
  <2> QED BY <2>1, <2>2
<1> QED BY <1>3

\* Multiples of different numbers are a multiple apart: why ranks times STRIDE
\* leave gaps, and chunk indices of different rounds do not meet.
LEMMA MultiplesApart ==
  ASSUME NEW c \in Nat, NEW x \in Nat, NEW y \in Nat, x < y
  PROVE  x * c \in Nat /\ y * c \in Nat /\ x * c + c <= y * c
<1>1. PICK w \in Nat : y = x + 1 + w
  <2>1. y - (x + 1) \in Nat /\ y = x + 1 + (y - (x + 1))
    OBVIOUS
  <2> QED BY <2>1
<1>2. y * c = x * c + c + w * c
  BY <1>1
<1>3. w * c \in Nat /\ x * c \in Nat
  OBVIOUS
<1> QED BY <1>2, <1>3

-----------------------------------------------------------------------------
(* The inductive invariant. *)

RowSets == [held : SUBSET Ops, pos : [Ops -> Nat], next : Nat]

\* The counter is beyond every held op.
Beyond(b) == \A x \in b.held : b.pos[x] < b.next

\* Rows and counter of a copy that its task did not write are the committed ones.
Unwritten(t) ==
  /\ \A o \in Ops \ wrote[t] : /\ o \in copy[t].held <=> o \in block.held
                               /\ copy[t].pos[o] = block.pos[o]
  /\ t \notin counted => copy[t].next = block.next
  /\ t \notin renumbered => block.next <= copy[t].next

\* What a task placed before a target is held by its copy, ahead of the target.
AskedKept ==
  \A a \in asked :
    /\ a[1] \in Tasks
    /\ a[2] \in wrote[a[1]]
    /\ {a[2], a[3]} \subseteq copy[a[1]].held
    /\ IsAhead(copy[a[1]].pos, a[2], a[3])

CommittedKept ==
  \A a \in asked :
    (\A t \in Tasks \ {a[1]} : a[3] \notin wrote[t]) =>
      {a[2], a[3]} \subseteq block.held /\ IsAhead(block.pos, a[2], a[3])

RowsTyped ==
  /\ block \in RowSets
  /\ copy \in [Tasks -> RowSets]
  /\ wrote \in [Tasks -> SUBSET Ops]
  /\ counted \subseteq Tasks /\ renumbered \subseteq counted
  /\ phase \in {"epoch", "after", "refused"}

EInv ==
  /\ RowsTyped
  /\ AskedKept
  /\ \A t \in Tasks : Beyond(copy[t])
  /\ phase = "epoch" => Beyond(block) /\ \A t \in Tasks : Unwritten(t)
  /\ phase = "after" => CommittedKept /\ (renumbered = {} => Beyond(block))

-----------------------------------------------------------------------------
(* Renumbering and placing. *)

\* The neighbour position insert_held starts from is 0 or that of an op ahead.
LEMMA NeighbourBelow ==
  ASSUME NEW h \in SUBSET Ops, NEW p \in [Ops -> Nat], NEW t \in Ops
  PROVE  /\ Below(h, p, t) \in Nat
         /\ Below(h, p, t) = 0 \/ \E x \in AheadOf(h, p, t) : Below(h, p, t) = p[x]
<1> DEFINE A == AheadOf(h, p, t)
           U == {u \in Nat : \A x \in A : p[x] <= u}
<1>1. A \subseteq Ops /\ \A x \in A : p[x] \in Nat /\ p[x] <= p[t]
  BY DEF AheadOf, IsAhead
<1>2. p[t] \in U
  BY <1>1
<1> HIDE DEF A
<1>3. PICK u \in U : \A v \in U : u <= v
  BY <1>2, LeastNatural
<1>4. u \in {0} \cup {p[x] : x \in A}
  <2> SUFFICES ASSUME u # 0, \A x \in A : p[x] # u PROVE FALSE
    BY <1>3
  <2>1. u - 1 \in Nat /\ \A x \in A : p[x] <= u - 1
    BY <1>1, <1>3
  <2> QED BY <1>3, <2>1
<1>5. Below(h, p, t) \in {0} \cup {p[x] : x \in A}
  BY <1>3, <1>4 DEF Below, A
<1> QED BY <1>1, <1>5 DEF A

\* A set of ops within another has fewer.
LEMMA FewerOps ==
  ASSUME NEW S \in SUBSET Ops, NEW T \in SUBSET S, T # S
  PROVE  Cardinality(T) \in Nat /\ Cardinality(S) \in Nat /\ Cardinality(T) < Cardinality(S)
<1>1. IsFiniteSet(S)
  BY OpsAssumption, FS_Subset
<1>2. IsFiniteSet(T) /\ Cardinality(T) <= Cardinality(S) /\ Cardinality(T) # Cardinality(S)
  BY <1>1, FS_Subset
<1>3. Cardinality(T) \in Nat /\ Cardinality(S) \in Nat
  BY <1>1, <1>2, FS_CardinalityType
<1> QED BY <1>2, <1>3

\* set_held keeps the order the ops are in, leaves room below each, and ends
\* short of the counter it leaves.
LEMMA RenumberedKeeps ==
  ASSUME NEW h \in SUBSET Ops, NEW p \in [Ops -> Nat], NEW r, r = Renumbered(h, p)
  PROVE  /\ r \in [Ops -> Nat] /\ NextAfter(h) \in Nat
         /\ \A x \in Ops \ h : r[x] = p[x]
         /\ \A x \in h : Stride <= r[x] /\ r[x] < NextAfter(h)
         /\ \A x, y \in h : IsAhead(p, x, y) => r[x] + Stride <= r[y]
<1> DEFINE Rank(x) == Cardinality(AheadOf(h, p, x)) + 1
           Size == Cardinality(h) + 1
<1>1. Stride \in Nat /\ Stride >= 2
  BY StrideAssumption
<1>2. \A x \in Ops : p[x] \in Nat /\ x \in Nat
  BY OpsAssumption
<1>3. \A x \in h : AheadOf(h, p, x) \subseteq h /\ x \notin AheadOf(h, p, x)
  BY <1>2 DEF AheadOf, IsAhead
<1>4. \A x \in h : Rank(x) \in Nat /\ 0 < Rank(x) /\ Rank(x) < Size
  <2> SUFFICES ASSUME NEW x \in h PROVE Rank(x) \in Nat /\ 0 < Rank(x) /\ Rank(x) < Size
    OBVIOUS
  <2>1. /\ Cardinality(AheadOf(h, p, x)) \in Nat /\ Cardinality(h) \in Nat
        /\ Cardinality(AheadOf(h, p, x)) < Cardinality(h)
    BY <1>3, FewerOps
  <2> QED BY <2>1
<1>5. \A x, y \in h : IsAhead(p, x, y) => Rank(x) < Rank(y)
  <2> SUFFICES ASSUME NEW x \in h, NEW y \in h, IsAhead(p, x, y) PROVE Rank(x) < Rank(y)
    OBVIOUS
  <2>1. x \in AheadOf(h, p, y) /\ AheadOf(h, p, x) \subseteq AheadOf(h, p, y)
    BY <1>2 DEF AheadOf, IsAhead
  <2>2. AheadOf(h, p, x) # AheadOf(h, p, y) /\ AheadOf(h, p, y) \subseteq Ops
    BY <1>3, <2>1
  <2>3. /\ Cardinality(AheadOf(h, p, x)) \in Nat /\ Cardinality(AheadOf(h, p, y)) \in Nat
        /\ Cardinality(AheadOf(h, p, x)) < Cardinality(AheadOf(h, p, y))
    BY <2>1, <2>2, FewerOps
  <2> QED BY <2>3
<1>6. Size \in Nat /\ NextAfter(h) = Size * Stride
  <2>1. Cardinality(h) \in Nat
    BY OpsAssumption, FS_Subset, FS_CardinalityType
  <2> QED BY <2>1 DEF NextAfter
<1>7. r = [x \in Ops |-> IF x \in h THEN Rank(x) * Stride ELSE p[x]]
  BY DEF Renumbered, Spread, Order
<1> HIDE DEF Rank, Size
<1>8. ASSUME NEW x \in h
      PROVE  /\ Rank(x) * Stride \in Nat /\ Size * Stride \in Nat
             /\ 0 * Stride + Stride <= Rank(x) * Stride
             /\ Rank(x) * Stride + Stride <= Size * Stride
  BY <1>1, <1>4, <1>6, MultiplesApart
<1>9. ASSUME NEW x \in h PROVE Stride <= r[x] /\ r[x] < NextAfter(h)
  <2>1. r[x] = Rank(x) * Stride
    BY <1>7
  <2>2. \A a, n, c \in Nat : c >= 2 /\ a + c <= n => a < n
    OBVIOUS
  <2>3. \A a, c \in Nat : 0 * c + c <= a => c <= a
    OBVIOUS
  <2> QED BY <1>1, <1>6, <1>8, <2>1, <2>2, <2>3
<1>10. ASSUME NEW x \in h, NEW y \in h, IsAhead(p, x, y) PROVE r[x] + Stride <= r[y]
  <2>1. Rank(x) * Stride + Stride <= Rank(y) * Stride
    BY <1>1, <1>4, <1>5, <1>10, MultiplesApart
  <2>2. r[x] = Rank(x) * Stride /\ r[y] = Rank(y) * Stride
    BY <1>7
  <2> QED BY <2>1, <2>2
<1>11. r \in [Ops -> Nat] /\ \A x \in Ops \ h : r[x] = p[x]
  <2>1. \A x \in Ops : (IF x \in h THEN Rank(x) * Stride ELSE p[x]) \in Nat
    BY <1>2, <1>8
  <2> QED BY <1>7, <2>1
<1>12. NextAfter(h) \in Nat
  BY <1>1, <1>6
<1> QED BY <1>9, <1>10, <1>11, <1>12

\* A copy edited by insert_held or append_held: the ops it held stay in their
\* order and short of the counter, the new one is held, and a row or a counter
\* that changed otherwise was renumbered.
EditedFrom(e, b, o, tight) ==
  /\ e \in RowSets
  /\ e.held = b.held \cup {o}
  /\ Beyond(e)
  /\ \A x, y \in b.held : IsAhead(b.pos, x, y) => IsAhead(e.pos, x, y)
  /\ \A x \in Ops \ {o} : ~tight \/ x \notin b.held => e.pos[x] = b.pos[x]
  /\ ~tight => b.next <= e.next

\* The positions an edit starts from, renumbered or as they are.
LEMMA Ground ==
  ASSUME NEW b \in RowSets, Beyond(b), NEW tight \in BOOLEAN,
         NEW q, q = IF tight THEN Renumbered(b.held, b.pos) ELSE b.pos,
         NEW n, n = IF tight THEN NextAfter(b.held) ELSE b.next
  PROVE  /\ q \in [Ops -> Nat] /\ n \in Nat
         /\ \A x \in b.held : q[x] < n
         /\ \A x, y \in b.held : IsAhead(b.pos, x, y) => IsAhead(q, x, y)
         /\ \A x \in Ops : ~tight \/ x \notin b.held => q[x] = b.pos[x]
<1>1. b.held \in SUBSET Ops /\ b.pos \in [Ops -> Nat] /\ b.next \in Nat
  BY DEF RowSets
<1>2. CASE tight
  <2>1. /\ q \in [Ops -> Nat] /\ NextAfter(b.held) \in Nat
        /\ \A x \in Ops \ b.held : q[x] = b.pos[x]
        /\ \A x \in b.held : Stride <= q[x] /\ q[x] < NextAfter(b.held)
        /\ \A x, y \in b.held : IsAhead(b.pos, x, y) => q[x] + Stride <= q[y]
    BY <1>1, <1>2, RenumberedKeeps
  <2>2. \A x, y \in b.held : q[x] + Stride <= q[y] => q[x] < q[y]
    BY <1>1, <2>1, StrideAssumption
  <2>3. \A x, y \in b.held : IsAhead(b.pos, x, y) => IsAhead(q, x, y)
    BY <2>1, <2>2 DEF IsAhead
  <2> QED BY <1>2, <2>1, <2>3
<1>3. CASE ~tight
  BY <1>1, <1>3 DEF Beyond
<1> QED BY <1>2, <1>3

\* append_held places an op behind all held ones.
LEMMA AppendedFrom ==
  ASSUME NEW b \in RowSets, Beyond(b), NEW o \in Ops \ b.held
  PROVE  /\ EditedFrom(Appended(b, o), b, o, ~HasRoom(b.next))
         /\ \A x \in b.held : Appended(b, o).pos[x] < Appended(b, o).pos[o]
<1> DEFINE tight == ~HasRoom(b.next)
           q == IF tight THEN Renumbered(b.held, b.pos) ELSE b.pos
           n == IF tight THEN NextAfter(b.held) ELSE b.next
           e == Appended(b, o)
<1>1. tight \in BOOLEAN
  BY DEF HasRoom
<1>2. e = [held |-> b.held \cup {o}, pos |-> [q EXCEPT ![o] = n], next |-> n + Stride]
  BY DEF Appended, Rows, AppendPositions, AppendNext
<1> HIDE DEF tight
<1>3. /\ q \in [Ops -> Nat] /\ n \in Nat
      /\ \A x \in b.held : q[x] < n
      /\ \A x, y \in b.held : IsAhead(b.pos, x, y) => IsAhead(q, x, y)
      /\ \A x \in Ops : ~tight \/ x \notin b.held => q[x] = b.pos[x]
  BY <1>1, Ground
<1>4. ~tight => n = b.next
  OBVIOUS
<1> HIDE DEF q, n, e
<1>5. b.held \subseteq Ops /\ Stride \in Nat /\ Stride >= 2 /\ b.next \in Nat
  BY StrideAssumption DEF RowSets
<1>6. e.held = b.held \cup {o} /\ e.next = n + Stride /\ e.pos = [q EXCEPT ![o] = n]
  BY <1>2
<1>7. e.pos[o] = n /\ \A x \in Ops \ {o} : e.pos[x] = q[x]
  BY <1>3, <1>6
<1>8. e \in RowSets
  <2>1. n + Stride \in Nat /\ [q EXCEPT ![o] = n] \in [Ops -> Nat] /\ b.held \cup {o} \in SUBSET Ops
    BY <1>3, <1>5
  <2> QED BY <1>2, <2>1 DEF RowSets
<1>9. Beyond(e)
  <2> SUFFICES ASSUME NEW x \in b.held \cup {o} PROVE e.pos[x] < n + Stride
    BY <1>6 DEF Beyond
  <2>1. x = o \/ (x \in b.held /\ x # o)
    OBVIOUS
  <2>2. e.pos[x] = n \/ (e.pos[x] < n /\ e.pos[x] \in Nat)
    BY <1>3, <1>5, <1>7, <2>1
  <2> QED BY <1>3, <1>5, <2>2
<1>10. \A x, y \in b.held : IsAhead(b.pos, x, y) => IsAhead(e.pos, x, y)
  BY <1>3, <1>5, <1>7 DEF IsAhead
<1>11. \A x \in Ops \ {o} : ~tight \/ x \notin b.held => e.pos[x] = b.pos[x]
  BY <1>3, <1>7
<1>12. ~tight => b.next <= e.next
  BY <1>3, <1>4, <1>5, <1>6
<1>13. \A x \in b.held : e.pos[x] < e.pos[o]
  BY <1>3, <1>5, <1>7
<1> QED BY <1>6, <1>8, <1>9, <1>10, <1>11, <1>12, <1>13 DEF EditedFrom, tight, e

\* insert_held places an op ahead of its target.
LEMMA InsertedFrom ==
  ASSUME NEW b \in RowSets, Beyond(b), NEW o \in Ops \ b.held, NEW t \in b.held
  PROVE  /\ EditedFrom(Inserted(b, o, t), b, o, IsTight(b.held, b.pos, t))
         /\ IsAhead(Inserted(b, o, t).pos, o, t)
         /\ ~IsTight(b.held, b.pos, t) => Inserted(b, o, t).next = b.next
<1> DEFINE tight == IsTight(b.held, b.pos, t)
           q == IF tight THEN Renumbered(b.held, b.pos) ELSE b.pos
           n == IF tight THEN NextAfter(b.held) ELSE b.next
           low == Below(b.held, q, t)
           m == low + (q[t] - low) \div 2
           e == Inserted(b, o, t)
<1>1. tight \in BOOLEAN
  BY DEF IsTight
<1>2. e = [held |-> b.held \cup {o}, pos |-> [q EXCEPT ![o] = m], next |-> n]
  BY DEF Inserted, Rows, InsertPositions, InsertNext, RoomPositions, Midway
<1>3. b.held \in SUBSET Ops /\ b.pos \in [Ops -> Nat] /\ Stride \in Nat /\ Stride >= 2 /\ b.next \in Nat
  BY StrideAssumption DEF RowSets
<1>4. ~tight => q = b.pos /\ ~(b.pos[t] - Below(b.held, b.pos, t) < 2) /\ n = b.next
  BY DEF IsTight
<1>5. tight => q = Renumbered(b.held, b.pos)
  OBVIOUS
<1> HIDE DEF tight
<1>6. /\ q \in [Ops -> Nat] /\ n \in Nat
      /\ \A x \in b.held : q[x] < n
      /\ \A x, y \in b.held : IsAhead(b.pos, x, y) => IsAhead(q, x, y)
      /\ \A x \in Ops : ~tight \/ x \notin b.held => q[x] = b.pos[x]
  BY <1>1, Ground
<1> HIDE DEF q, n, e
<1>7. low \in Nat /\ (low = 0 \/ \E x \in AheadOf(b.held, q, t) : low = q[x])
  BY <1>3, <1>6, NeighbourBelow
<1>8. q[t] - low >= 2
  <2>1. CASE ~tight
    BY <1>3, <1>4, <1>6, <1>7, <2>1
  <2>2. CASE tight
    <3>1. /\ Stride <= q[t]
          /\ \A x \in b.held : IsAhead(b.pos, x, t) => q[x] + Stride <= q[t]
      BY <1>3, <1>5, <2>2, RenumberedKeeps
    <3>2. CASE low = 0
      BY <1>3, <1>6, <3>1, <3>2
    <3>3. ASSUME NEW x \in AheadOf(b.held, q, t), low = q[x] PROVE q[t] - low >= 2
      <4>1. x \in b.held /\ IsAhead(q, x, t) /\ x \in Ops /\ t \in Ops /\ x \in Nat /\ t \in Nat
        BY <1>3, <3>3, OpsAssumption DEF AheadOf
      <4>2. x = t \/ IsAhead(b.pos, x, t) \/ IsAhead(b.pos, t, x)
        BY <1>3, <4>1 DEF IsAhead
      <4>3. q[x] \in Nat /\ q[t] \in Nat
        BY <1>6, <4>1
      <4>4. ~IsAhead(q, t, x) /\ x # t
        BY <4>1, <4>3 DEF IsAhead
      <4>5. IsAhead(b.pos, x, t)
        BY <1>6, <4>1, <4>2, <4>4
      <4>6. q[x] + Stride <= q[t]
        BY <3>1, <4>1, <4>5
      <4> QED BY <1>3, <3>3, <4>3, <4>6
    <3> QED BY <1>7, <3>2, <3>3
  <2> QED BY <2>1, <2>2
<1>9. q[t] \in Nat /\ m \in Nat /\ m < q[t]
  <2>1. q[t] \in Nat
    BY <1>3, <1>6
  <2> HIDE DEF low
  <2>2. \A a, c \in Nat : c - a >= 2 => a + (c - a) \div 2 \in Nat /\ a + (c - a) \div 2 < c
    OBVIOUS
  <2> QED BY <1>7, <1>8, <2>1, <2>2
<1> HIDE DEF low, m
<1>10. e.held = b.held \cup {o} /\ e.next = n /\ e.pos = [q EXCEPT ![o] = m]
  BY <1>2
<1>11. e.pos[o] = m /\ \A x \in Ops \ {o} : e.pos[x] = q[x]
  BY <1>6, <1>10
<1>12. e \in RowSets
  <2>1. [q EXCEPT ![o] = m] \in [Ops -> Nat] /\ b.held \cup {o} \in SUBSET Ops
    BY <1>3, <1>6, <1>9
  <2> QED BY <1>2, <1>6, <2>1 DEF RowSets
<1>13. Beyond(e)
  <2> SUFFICES ASSUME NEW x \in b.held \cup {o} PROVE e.pos[x] < n
    BY <1>10 DEF Beyond
  <2>1. CASE x = o
    <3>1. m < q[t] /\ q[t] < n
      BY <1>6, <1>9
    <3> QED BY <1>6, <1>9, <1>11, <2>1, <3>1
  <2>2. CASE x # o
    BY <1>3, <1>6, <1>11, <2>2
  <2> QED BY <2>1, <2>2
<1>14. \A x, y \in b.held : IsAhead(b.pos, x, y) => IsAhead(e.pos, x, y)
  BY <1>3, <1>6, <1>11 DEF IsAhead
<1>15. \A x \in Ops \ {o} : ~tight \/ x \notin b.held => e.pos[x] = b.pos[x]
  BY <1>6, <1>11
<1>16. IsAhead(e.pos, o, t)
  BY <1>3, <1>9, <1>11 DEF IsAhead
<1>17. ~tight => e.next = b.next /\ b.next <= e.next
  BY <1>3, <1>4, <1>10
<1> QED BY <1>10, <1>12, <1>13, <1>14, <1>15, <1>16, <1>17 DEF EditedFrom, tight, e

-----------------------------------------------------------------------------
(* The steps. *)

\* A block appended to, with its ops below the counter.
LEMMA InitPlaced == Init => EInv
<1> SUFFICES ASSUME Init PROVE EInv
  OBVIOUS
<1>1. PICK place \in [Base -> 1 .. MaxStart], n \in 1 .. MaxStart :
        /\ \A x \in Base : place[x] <= n
        /\ block = Rows(Base, [o \in Ops |-> IF o \in Base THEN place[o] * Stride ELSE 0],
                        (n + 1) * Stride)
  BY Zenon DEF Init
<1>2. Stride \in Nat /\ Stride >= 2 /\ Base \subseteq Ops /\ n \in Nat
  BY StrideAssumption, BaseAssumption
<1>3. \A x \in Base : place[x] \in Nat /\ place[x] < n + 1
  BY <1>1, <1>2, BaseAssumption
<1>4. \A x \in Base : place[x] * Stride \in Nat /\ place[x] * Stride + Stride <= (n + 1) * Stride
  BY <1>2, <1>3, MultiplesApart
<1>5. (n + 1) * Stride \in Nat
  BY <1>2
<1>6. \A a, c, d \in Nat : c >= 2 /\ a + c <= d => a < d
  OBVIOUS
<1>7. \A x \in Base : place[x] * Stride < (n + 1) * Stride
  BY <1>2, <1>4, <1>5, <1>6
<1>8. block \in RowSets
  <2>1. [o \in Ops |-> IF o \in Base THEN place[o] * Stride ELSE 0] \in [Ops -> Nat]
    BY <1>4
  <2> QED BY <1>1, <1>2, <1>5, <2>1 DEF Rows, RowSets
<1>9. Beyond(block)
  BY <1>1, <1>2, <1>7 DEF Rows, Beyond
<1>10. block.next <= block.next
  BY <1>8 DEF RowSets
<1>11. \A t \in Tasks : copy[t] = block
  BY DEF Init
<1>12. RowsTyped
  BY <1>8 DEF Init, RowsTyped
<1>13. \A t \in Tasks : Unwritten(t)
  BY <1>10, <1>11 DEF Unwritten
<1> QED BY <1>9, <1>11, <1>12, <1>13 DEF EInv, Init, AskedKept

\* A task placed an op its copy did not hold.
LEMMA PlacingKeeps ==
  ASSUME EInv, phase = "epoch", phase' = phase, block' = block,
         NEW t \in Tasks, NEW o \in Ops \ copy[t].held, NEW tight \in BOOLEAN, NEW e,
         EditedFrom(e, copy[t], o, tight),
         copy' = [copy EXCEPT ![t] = e],
         wrote' = [wrote EXCEPT ![t] = @ \cup {o} \cup IF tight THEN copy[t].held ELSE {}],
         counted' \in {counted, counted \cup {t}},
         t \in counted' \/ e.next = copy[t].next,
         renumbered' = IF tight THEN renumbered \cup {t} ELSE renumbered,
         tight => t \in counted',
         \A a \in asked' : \/ a \in asked
                           \/ /\ a[1] = t /\ a[2] = o
                              /\ a[3] \in copy[t].held /\ IsAhead(e.pos, o, a[3])
  PROVE  EInv'
<1> DEFINE b == copy[t]
<1>1. /\ block \in RowSets /\ copy \in [Tasks -> RowSets] /\ wrote \in [Tasks -> SUBSET Ops]
      /\ counted \subseteq Tasks /\ renumbered \subseteq counted
      /\ b \in RowSets /\ b.held \subseteq Ops /\ b.next \in Nat /\ block.next \in Nat
  <2>1. /\ block \in RowSets /\ copy \in [Tasks -> RowSets] /\ wrote \in [Tasks -> SUBSET Ops]
        /\ counted \subseteq Tasks /\ renumbered \subseteq counted
    BY DEF EInv, RowsTyped
  <2>2. b \in RowSets
    BY <2>1
  <2> QED BY <2>1, <2>2 DEF RowSets
<1>2. /\ e \in RowSets /\ e.held = b.held \cup {o} /\ Beyond(e)
      /\ \A x, y \in b.held : IsAhead(b.pos, x, y) => IsAhead(e.pos, x, y)
      /\ \A x \in Ops \ {o} : ~tight \/ x \notin b.held => e.pos[x] = b.pos[x]
      /\ ~tight => b.next <= e.next
  BY DEF EditedFrom
<1>3. /\ copy'[t] = e /\ \A u \in Tasks : u # t => copy'[u] = copy[u] /\ wrote'[u] = wrote[u]
      /\ wrote'[t] = wrote[t] \cup {o} \cup IF tight THEN b.held ELSE {}
  BY <1>1
<1>4. RowsTyped'
  <2>1. copy' \in [Tasks -> RowSets]
    BY <1>1, <1>2
  <2>2. wrote' \in [Tasks -> SUBSET Ops]
    BY <1>1
  <2>3. counted' \subseteq Tasks /\ renumbered' \subseteq counted'
    BY <1>1
  <2> QED BY <1>1, <2>1, <2>2, <2>3 DEF RowsTyped
<1>5. AskedKept'
  <2> SUFFICES ASSUME NEW a \in asked'
               PROVE  /\ a[1] \in Tasks
                      /\ a[2] \in wrote'[a[1]]
                      /\ {a[2], a[3]} \subseteq copy'[a[1]].held
                      /\ IsAhead(copy'[a[1]].pos, a[2], a[3])
    BY DEF AskedKept
  <2>1. CASE a \in asked
    <3>1. /\ a[1] \in Tasks
          /\ a[2] \in wrote[a[1]]
          /\ {a[2], a[3]} \subseteq copy[a[1]].held
          /\ IsAhead(copy[a[1]].pos, a[2], a[3])
      BY <2>1 DEF EInv, AskedKept
    <3>2. CASE a[1] = t
      BY <1>2, <1>3, <3>1, <3>2
    <3>3. CASE a[1] # t
      BY <1>3, <3>1, <3>3
    <3> QED BY <3>2, <3>3
  <2>2. CASE a[1] = t /\ a[2] = o /\ a[3] \in copy[t].held /\ IsAhead(e.pos, o, a[3])
    BY <1>2, <1>3, <2>2
  <2> QED BY <2>1, <2>2
<1>6. \A u \in Tasks : Beyond(copy'[u])
  BY <1>2, <1>3 DEF EInv
<1>7. ASSUME NEW u \in Tasks PROVE Unwritten(u)'
  <2>0. Unwritten(u)
    BY DEF EInv
  <2>1. CASE u # t
    BY <1>3, <2>0, <2>1 DEF Unwritten
  <2>2. CASE u = t
    <3>1. ASSUME NEW x \in Ops \ wrote'[t]
          PROVE  (x \in e.held <=> x \in block.held) /\ e.pos[x] = block.pos[x]
      <4>1. x \notin wrote[t] /\ x # o /\ (tight => x \notin b.held)
        BY <1>3, <3>1
      <4>2. (x \in b.held <=> x \in block.held) /\ b.pos[x] = block.pos[x]
        BY <2>0, <2>2, <4>1 DEF Unwritten
      <4> QED BY <1>2, <4>1, <4>2
    <3>2. t \notin counted' => e.next = block.next
      BY <2>0, <2>2 DEF Unwritten
    <3>3. t \notin renumbered' => block.next <= e.next
      <4>1. ASSUME t \notin renumbered' PROVE ~tight /\ block.next <= b.next
        BY <2>0, <2>2, <4>1 DEF Unwritten
      <4>2. e.next \in Nat
        BY <1>2 DEF RowSets
      <4> QED BY <1>1, <1>2, <4>1, <4>2
    <3> QED BY <1>3, <2>2, <3>1, <3>2, <3>3 DEF Unwritten
  <2> QED BY <2>1, <2>2
<1>8. Beyond(block')
  BY DEF EInv
<1> QED BY <1>4, <1>5, <1>6, <1>7, <1>8, Zenon DEF EInv

\* A task took an op out of its copy, and with it what it asked of that op.
LEMMA RemovingKeeps ==
  ASSUME EInv, phase = "epoch", phase' = phase, block' = block,
         NEW t \in Tasks, NEW o \in Ops, TaskRemove(t, o)
  PROVE  EInv'
<1> DEFINE b == copy[t]
<1>1. /\ block \in RowSets /\ copy \in [Tasks -> RowSets] /\ wrote \in [Tasks -> SUBSET Ops]
      /\ counted \subseteq Tasks /\ renumbered \subseteq counted /\ b \in RowSets
  BY DEF EInv, RowsTyped
<1>2. /\ copy' = [copy EXCEPT ![t] = Removed(b, o)] /\ wrote' = [wrote EXCEPT ![t] = @ \cup {o}]
      /\ counted' = counted /\ renumbered' = renumbered
      /\ asked' = {a \in asked : a[1] # t \/ o \notin {a[2], a[3]}}
  BY DEF TaskRemove
<1>3. /\ Removed(b, o) \in RowSets /\ Removed(b, o).held = b.held \ {o}
      /\ Removed(b, o).pos = b.pos /\ Removed(b, o).next = b.next
  BY <1>1 DEF Removed, RowSets
<1>4. /\ copy'[t] = Removed(b, o) /\ wrote'[t] = wrote[t] \cup {o}
      /\ \A u \in Tasks : u # t => copy'[u] = copy[u] /\ wrote'[u] = wrote[u]
  BY <1>1, <1>2
<1>5. RowsTyped'
  <2>1. copy' \in [Tasks -> RowSets] /\ wrote' \in [Tasks -> SUBSET Ops]
    BY <1>1, <1>2, <1>3
  <2> QED BY <1>1, <1>2, <2>1 DEF RowsTyped
<1>6. AskedKept'
  <2> SUFFICES ASSUME NEW a \in asked'
               PROVE  /\ a[1] \in Tasks
                      /\ a[2] \in wrote'[a[1]]
                      /\ {a[2], a[3]} \subseteq copy'[a[1]].held
                      /\ IsAhead(copy'[a[1]].pos, a[2], a[3])
    BY DEF AskedKept
  <2>1. /\ a[1] \in Tasks /\ a[2] \in wrote[a[1]]
        /\ {a[2], a[3]} \subseteq copy[a[1]].held
        /\ IsAhead(copy[a[1]].pos, a[2], a[3])
        /\ a[1] # t \/ o \notin {a[2], a[3]}
    BY <1>2 DEF EInv, AskedKept
  <2>2. CASE a[1] = t
    BY <1>3, <1>4, <2>1, <2>2
  <2>3. CASE a[1] # t
    BY <1>4, <2>1, <2>3
  <2> QED BY <2>2, <2>3
<1>7. ASSUME NEW u \in Tasks PROVE Beyond(copy'[u])
  BY <1>3, <1>4 DEF EInv, Beyond
<1>8. ASSUME NEW u \in Tasks PROVE Unwritten(u)'
  <2>0. Unwritten(u)
    BY DEF EInv
  <2>1. CASE u # t
    BY <1>2, <1>4, <2>0, <2>1 DEF Unwritten
  <2>2. CASE u = t
    BY <1>2, <1>3, <1>4, <2>0, <2>2 DEF Unwritten
  <2> QED BY <2>1, <2>2
<1>9. Beyond(block')
  BY DEF EInv
<1> QED BY <1>5, <1>6, <1>7, <1>8, <1>9, Zenon DEF EInv

\* Every edit of a task keeps the invariant.
LEMMA TaskEditKeeps ==
  ASSUME EInv, NEW t \in Tasks, TaskEdit(t)
  PROVE  EInv'
<1>1. phase = "epoch" /\ phase' = phase /\ block' = block
  BY DEF TaskEdit
<1>2. PICK o \in Minted[t] \cup Base :
        \/ TaskAppend(t, o)
        \/ TaskRemove(t, o)
        \/ \E target \in copy[t].held : TaskInsert(t, o, target)
  BY DEF TaskEdit
<1>3. o \in Ops /\ copy[t] \in RowSets /\ Beyond(copy[t])
  BY BaseAssumption DEF EInv, RowsTyped
<1>4. CASE TaskAppend(t, o)
  <2> DEFINE tight == ~HasRoom(copy[t].next)
  <2>1. o \in Ops \ copy[t].held /\ tight \in BOOLEAN
    BY <1>3, <1>4 DEF TaskAppend, HasRoom
  <2>2. EditedFrom(Appended(copy[t], o), copy[t], o, tight)
    BY <1>3, <2>1, AppendedFrom
  <2>3. /\ copy' = [copy EXCEPT ![t] = Appended(copy[t], o)]
        /\ wrote' = [wrote EXCEPT ![t] = @ \cup {o} \cup IF tight THEN copy[t].held ELSE {}]
        /\ counted' = counted \cup {t}
        /\ renumbered' = IF tight THEN renumbered \cup {t} ELSE renumbered
        /\ asked' \subseteq asked
    BY <1>4 DEF TaskAppend
  <2> HIDE DEF tight
  <2> QED BY <1>1, <2>1, <2>2, <2>3, PlacingKeeps
<1>5. CASE TaskRemove(t, o)
  BY <1>1, <1>3, <1>5, RemovingKeeps
<1>6. ASSUME NEW target \in copy[t].held, TaskInsert(t, o, target) PROVE EInv'
  <2> DEFINE tight == IsTight(copy[t].held, copy[t].pos, target)
             e == Inserted(copy[t], o, target)
  <2>1. o \in Ops \ copy[t].held /\ tight \in BOOLEAN
    BY <1>3, <1>6 DEF TaskInsert, IsTight
  <2>2. /\ EditedFrom(e, copy[t], o, tight)
        /\ IsAhead(e.pos, o, target)
        /\ ~tight => e.next = copy[t].next
    BY <1>3, <2>1, InsertedFrom
  <2>3. /\ copy' = [copy EXCEPT ![t] = e]
        /\ wrote' = [wrote EXCEPT ![t] = @ \cup {o} \cup IF tight THEN copy[t].held ELSE {}]
        /\ counted' = IF tight THEN counted \cup {t} ELSE counted
        /\ renumbered' = IF tight THEN renumbered \cup {t} ELSE renumbered
        /\ asked' \subseteq asked \cup {<<t, o, target>>}
    BY <1>6 DEF TaskInsert
  <2> HIDE DEF tight, e
  <2>4. /\ counted' \in {counted, counted \cup {t}}
        /\ t \in counted' \/ e.next = copy[t].next
        /\ tight => t \in counted'
    BY <2>2, <2>3
  <2>5. \A a \in asked' : \/ a \in asked
                          \/ /\ a[1] = t /\ a[2] = o
                             /\ a[3] \in copy[t].held /\ IsAhead(e.pos, o, a[3])
    BY <2>2, <2>3
  <2> QED BY <1>1, <2>1, <2>2, <2>3, <2>4, <2>5, PlacingKeeps
<1> QED BY <1>2, <1>4, <1>5, <1>6

\* merge_space lets a commit pass only when every row, and the block's own, has
\* one writer: what the committed rows are.
LEMMA MergedRows ==
  ASSUME EInv, phase = "epoch", ~Overlap
  PROVE  /\ \A t \in Tasks, o \in Ops : o \in wrote[t] => RowOf(o) = copy[t]
         /\ \A o \in Ops : (\A t \in Tasks : o \notin wrote[t]) => RowOf(o) = block
         /\ \A t \in counted : MergedNext = copy[t].next
         /\ counted = {} => MergedNext = block.next
         /\ Merged \in RowSets
         /\ \A o \in Ops : (o \in Merged.held <=> o \in RowOf(o).held) /\ Merged.pos[o] = RowOf(o).pos[o]
         /\ Merged.next = MergedNext
<1>1. /\ block \in RowSets /\ copy \in [Tasks -> RowSets] /\ wrote \in [Tasks -> SUBSET Ops]
      /\ counted \subseteq Tasks
  BY DEF EInv, RowsTyped
<1>2. \A t, u \in Tasks : t # u => wrote[t] \cap wrote[u] = {}
  BY DEF Overlap
<1>3. ASSUME NEW t \in counted, NEW u \in counted PROVE t = u
  <2> SUFFICES ASSUME t # u PROVE FALSE
    OBVIOUS
  <2>1. IsFiniteSet(counted) /\ Cardinality(counted) \in Nat
    BY <1>1, BaseAssumption, FS_Subset, FS_CardinalityType
  <2>2. Cardinality({t}) = 1 /\ IsFiniteSet({t})
    BY FS_Singleton
  <2>3. Cardinality({t} \cup {u}) = 2
    BY <2>2, FS_AddElement
  <2>4. {t} \cup {u} \subseteq counted
    OBVIOUS
  <2>5. Cardinality({t} \cup {u}) <= Cardinality(counted)
    BY <2>1, <2>4, FS_Subset
  <2> QED BY <2>1, <2>3, <2>5 DEF Overlap
<1>4. ASSUME NEW t \in Tasks, NEW o \in Ops, o \in wrote[t] PROVE RowOf(o) = copy[t]
  <2>1. \A u \in Tasks : o \in wrote[u] => u = t
    BY <1>2, <1>4
  <2>2. (CHOOSE u \in Tasks : o \in wrote[u]) = t
    BY <1>4, <2>1
  <2> QED BY <1>4, <2>2 DEF RowOf
<1>5. \A o \in Ops : (\A t \in Tasks : o \notin wrote[t]) => RowOf(o) = block
  BY DEF RowOf
<1>6. \A o \in Ops : RowOf(o) \in RowSets
  BY <1>1, <1>4, <1>5
<1>7. ASSUME NEW t \in counted PROVE MergedNext = copy[t].next
  <2>1. (CHOOSE u \in counted : TRUE) = t
    BY <1>3
  <2> QED BY <2>1 DEF MergedNext
<1>8. counted = {} => MergedNext = block.next
  BY DEF MergedNext
<1>9. MergedNext \in Nat
  <2>1. block.next \in Nat /\ \A t \in Tasks : copy[t].next \in Nat
    BY <1>1 DEF RowSets
  <2> QED BY <1>1, <1>7, <1>8, <2>1
<1>10. /\ Merged \in RowSets
       /\ \A o \in Ops : (o \in Merged.held <=> o \in RowOf(o).held) /\ Merged.pos[o] = RowOf(o).pos[o]
       /\ Merged.next = MergedNext
  <2>1. \A o \in Ops : RowOf(o).pos[o] \in Nat
    BY <1>6 DEF RowSets
  <2>2. [o \in Ops |-> RowOf(o).pos[o]] \in [Ops -> Nat]
    BY <2>1
  <2> QED BY <1>9, <2>2 DEF Merged, Rows, RowSets
<1> QED BY <1>4, <1>5, <1>7, <1>8, <1>10

\* The commit keeps what each task placed, and the highest counter.
LEMMA CommitKeeps ==
  ASSUME EInv, Commit
  PROVE  EInv'
<1>1. /\ phase = "epoch" /\ phase' = "after" /\ ~Overlap /\ block' = Merged
      /\ copy' = copy /\ wrote' = wrote /\ counted' = counted /\ renumbered' = renumbered
      /\ asked' = asked
  BY DEF Commit
<1>2. /\ \A t \in Tasks, o \in Ops : o \in wrote[t] => RowOf(o) = copy[t]
      /\ \A o \in Ops : (\A t \in Tasks : o \notin wrote[t]) => RowOf(o) = block
      /\ \A t \in counted : MergedNext = copy[t].next
      /\ counted = {} => MergedNext = block.next
      /\ block' \in RowSets
      /\ \A o \in Ops : (o \in block'.held <=> o \in RowOf(o).held) /\ block'.pos[o] = RowOf(o).pos[o]
      /\ block'.next = MergedNext
  BY <1>1, MergedRows
<1>3. /\ block \in RowSets /\ copy \in [Tasks -> RowSets] /\ wrote \in [Tasks -> SUBSET Ops]
      /\ counted \subseteq Tasks /\ renumbered \subseteq counted
      /\ \A t \in Tasks : copy[t].held \subseteq Ops /\ copy[t].pos \in [Ops -> Nat] /\ copy[t].next \in Nat
      /\ block.held \subseteq Ops /\ block.pos \in [Ops -> Nat] /\ block.next \in Nat
  BY DEF EInv, RowsTyped, RowSets
<1>4. RowsTyped'
  BY <1>1, <1>2, <1>3 DEF RowsTyped
<1>5. AskedKept' /\ \A t \in Tasks : Beyond(copy'[t])
  BY <1>1 DEF EInv, AskedKept
<1>6. CommittedKept'
  <2> SUFFICES ASSUME NEW a \in asked, \A t \in Tasks \ {a[1]} : a[3] \notin wrote[t]
               PROVE  {a[2], a[3]} \subseteq block'.held /\ IsAhead(block'.pos, a[2], a[3])
    BY <1>1 DEF CommittedKept
  <2>1. /\ a[1] \in Tasks /\ a[2] \in wrote[a[1]]
        /\ {a[2], a[3]} \subseteq copy[a[1]].held
        /\ IsAhead(copy[a[1]].pos, a[2], a[3])
    BY DEF EInv, AskedKept
  <2>2. a[2] \in Ops /\ a[3] \in Ops
    BY <1>3, <2>1
  <2>3. a[2] \in block'.held /\ block'.pos[a[2]] = copy[a[1]].pos[a[2]]
    BY <1>2, <2>1, <2>2
  <2>4. a[3] \in block'.held /\ block'.pos[a[3]] = copy[a[1]].pos[a[3]]
    <3>1. CASE a[3] \in wrote[a[1]]
      BY <1>2, <2>1, <2>2, <3>1
    <3>2. CASE a[3] \notin wrote[a[1]]
      <4>1. RowOf(a[3]) = block
        BY <1>2, <2>2, <3>2
      <4>2. a[3] \in block.held /\ copy[a[1]].pos[a[3]] = block.pos[a[3]]
        BY <1>1, <2>1, <2>2, <3>2 DEF EInv, Unwritten
      <4> QED BY <1>2, <2>2, <4>1, <4>2
    <3> QED BY <3>1, <3>2
  <2> QED BY <2>1, <2>3, <2>4 DEF IsAhead
<1>7. ASSUME renumbered = {} PROVE Beyond(block')
  <2>1. ASSUME NEW t \in Tasks PROVE copy[t].next <= MergedNext /\ block.next <= MergedNext
    <3>0. Unwritten(t) /\ block.next <= copy[t].next
      BY <1>1, <1>7 DEF EInv, Unwritten
    <3>1. CASE t \in counted
      BY <1>2, <1>3, <3>0, <3>1
    <3>2. CASE t \notin counted
      <4>1. copy[t].next = block.next
        BY <3>0, <3>2 DEF Unwritten
      <4>2. CASE counted = {}
        BY <1>2, <1>3, <4>1, <4>2
      <4>3. ASSUME NEW u \in counted PROVE copy[t].next <= MergedNext /\ block.next <= MergedNext
        <5>1. u \in Tasks /\ block.next <= copy[u].next
          BY <1>1, <1>3, <1>7 DEF EInv, Unwritten
        <5> QED BY <1>2, <4>1, <5>1
      <4> QED BY <4>2, <4>3
    <3> QED BY <3>1, <3>2
  <2>2. block.next <= MergedNext
    <3>1. CASE Tasks = {}
      BY <1>2, <1>3, <3>1
    <3>2. CASE Tasks # {}
      BY <2>1, <3>2
    <3> QED BY <3>1, <3>2
  <2>3. MergedNext \in Nat
    BY <1>2 DEF RowSets
  <2> SUFFICES ASSUME NEW x \in block'.held PROVE block'.pos[x] < MergedNext
    BY <1>2 DEF Beyond
  <2>4. x \in Ops /\ x \in RowOf(x).held /\ block'.pos[x] = RowOf(x).pos[x]
    BY <1>2 DEF RowSets
  <2>5. \A m, n, o \in Nat : m < n /\ n <= o => m < o
    OBVIOUS
  <2>6. ASSUME NEW t \in Tasks, x \in wrote[t] PROVE block'.pos[x] < MergedNext
    <3>1. x \in copy[t].held /\ block'.pos[x] = copy[t].pos[x]
      BY <1>2, <2>4, <2>6
    <3>2. copy[t].pos[x] < copy[t].next
      BY <3>1 DEF EInv, Beyond
    <3> QED BY <1>3, <2>1, <2>3, <2>4, <2>5, <3>1, <3>2
  <2>7. CASE \A t \in Tasks : x \notin wrote[t]
    <3>1. x \in block.held /\ block'.pos[x] = block.pos[x]
      BY <1>2, <2>4, <2>7
    <3>2. block.pos[x] < block.next
      BY <1>1, <3>1 DEF EInv, Beyond
    <3> QED BY <1>3, <2>2, <2>3, <2>4, <2>5, <3>1, <3>2
  <2> QED BY <2>6, <2>7
<1> QED BY <1>1, <1>4, <1>5, <1>6, <1>7, Zenon DEF EInv

\* The context appends to the committed rows, of which two may share a position.
LEMMA ContextAppendKeeps ==
  ASSUME EInv, NEW o \in Ops, ContextAppend(o)
  PROVE  EInv' /\ (renumbered = {} => AheadOf(block'.held, block'.pos, o) = block.held)
<1>1. /\ phase = "after" /\ phase' = phase /\ block' = Appended(block, o) /\ o \notin block.held
      /\ copy' = copy /\ wrote' = wrote /\ counted' = counted /\ renumbered' = renumbered
      /\ asked' = asked
  BY DEF ContextAppend
<1> DEFINE r == Renumbered(block.held, block.pos)
<1>2. block \in RowSets /\ block.held \in SUBSET Ops /\ block.pos \in [Ops -> Nat] /\ block.next \in Nat
  BY DEF EInv, RowsTyped, RowSets
<1>3. block'.held = block.held \cup {o}
  BY <1>1 DEF Appended, Rows
<1>4. block' \in RowSets /\ \A x, y \in block.held : IsAhead(block.pos, x, y) => IsAhead(block'.pos, x, y)
  <2>0. Stride \in Nat /\ Stride >= 2
    BY StrideAssumption
  <2>1. CASE HasRoom(block.next)
    <3>1. block' = [held |-> block.held \cup {o}, pos |-> [block.pos EXCEPT ![o] = block.next],
                    next |-> block.next + Stride]
      BY <1>1, <2>1 DEF Appended, Rows, AppendPositions, AppendNext
    <3>2. [block.pos EXCEPT ![o] = block.next] \in [Ops -> Nat] /\ block.next + Stride \in Nat
      BY <1>2, <2>0
    <3>3. block' \in RowSets
      BY <1>2, <3>1, <3>2 DEF RowSets
    <3>4. \A x \in block.held : block'.pos[x] = block.pos[x]
      BY <1>1, <1>2, <3>1
    <3> QED BY <3>3, <3>4 DEF IsAhead
  <2>2. CASE ~HasRoom(block.next)
    <3>1. block' = [held |-> block.held \cup {o}, pos |-> [r EXCEPT ![o] = NextAfter(block.held)],
                    next |-> NextAfter(block.held) + Stride]
      BY <1>1, <2>2 DEF Appended, Rows, AppendPositions, AppendNext
    <3>2. /\ r \in [Ops -> Nat] /\ NextAfter(block.held) \in Nat
          /\ \A x, y \in block.held : IsAhead(block.pos, x, y) => r[x] + Stride <= r[y]
      BY <1>2, RenumberedKeeps
    <3> HIDE DEF r
    <3>3. [r EXCEPT ![o] = NextAfter(block.held)] \in [Ops -> Nat] /\ NextAfter(block.held) + Stride \in Nat
      BY <2>0, <3>2
    <3>4. block' \in RowSets
      BY <1>2, <3>1, <3>3 DEF RowSets
    <3>5. \A x \in block.held : block'.pos[x] = r[x]
      BY <1>1, <1>2, <3>1, <3>2
    <3>6. \A x, y \in block.held : r[x] + Stride <= r[y] => r[x] < r[y]
      BY <1>2, <2>0, <3>2
    <3>7. \A x, y \in block.held : IsAhead(block.pos, x, y) => block'.pos[x] < block'.pos[y]
      BY <3>2, <3>5, <3>6
    <3> QED BY <3>4, <3>7 DEF IsAhead
  <2> QED BY <2>1, <2>2
<1>5. CommittedKept'
  <2> SUFFICES ASSUME NEW a \in asked, \A t \in Tasks \ {a[1]} : a[3] \notin wrote[t]
               PROVE  {a[2], a[3]} \subseteq block'.held /\ IsAhead(block'.pos, a[2], a[3])
    BY <1>1 DEF CommittedKept
  <2>1. {a[2], a[3]} \subseteq block.held /\ IsAhead(block.pos, a[2], a[3])
    BY <1>1 DEF EInv, CommittedKept
  <2> QED BY <1>3, <1>4, <2>1
<1>6. ASSUME renumbered = {}
      PROVE  Beyond(block') /\ AheadOf(block'.held, block'.pos, o) = block.held
  <2>1. Beyond(block)
    BY <1>1, <1>6 DEF EInv
  <2>2. EditedFrom(block', block, o, ~HasRoom(block.next)) /\ \A x \in block.held : block'.pos[x] < block'.pos[o]
    BY <1>1, <1>2, <2>1, AppendedFrom
  <2>3. Beyond(block')
    BY <2>2 DEF EditedFrom
  <2>4. ~IsAhead(block'.pos, o, o)
    <3>1. block'.pos[o] \in Nat /\ o \in Nat
      BY <1>4, OpsAssumption DEF RowSets
    <3> QED BY <3>1 DEF IsAhead
  <2>5. \A x \in block.held : IsAhead(block'.pos, x, o)
    BY <2>2 DEF IsAhead
  <2> QED BY <1>1, <1>3, <2>3, <2>4, <2>5 DEF AheadOf
<1>7. RowsTyped'
  BY <1>1, <1>4 DEF EInv, RowsTyped
<1>8. AskedKept' /\ \A t \in Tasks : Beyond(copy'[t])
  BY <1>1 DEF EInv, AskedKept
<1>9. phase' = "after" /\ phase' # "epoch"
  BY <1>1
<1>10. EInv'
  BY <1>1, <1>5, <1>6, <1>7, <1>8, <1>9, Zenon DEF EInv
<1> QED BY <1>6, <1>10

\* Every step keeps the invariant.
LEMMA NextKeeps == EInv /\ [Next]_vars => EInv'
<1> SUFFICES ASSUME EInv, [Next]_vars PROVE EInv'
  OBVIOUS
<1>1. ASSUME NEW t \in Tasks, TaskEdit(t) PROVE EInv'
  BY <1>1, TaskEditKeeps
<1>2. CASE Commit
  BY <1>2, CommitKeeps
<1>3. CASE Refuse
  <2>1. /\ phase' = "refused" /\ phase' # "epoch" /\ phase' # "after"
        /\ block' = block /\ copy' = copy /\ wrote' = wrote /\ counted' = counted
        /\ renumbered' = renumbered /\ asked' = asked
    BY <1>3 DEF Refuse
  <2>2. RowsTyped' /\ AskedKept' /\ \A t \in Tasks : Beyond(copy'[t])
    BY <2>1 DEF EInv, RowsTyped, AskedKept
  <2> QED BY <2>1, <2>2, Zenon DEF EInv
<1>4. ASSUME NEW o \in Minted[0], ContextAppend(o) PROVE EInv'
  BY <1>4, BaseAssumption, ContextAppendKeeps
<1>5. CASE UNCHANGED vars
  BY <1>5 DEF vars, EInv, RowsTyped, AskedKept, CommittedKept, Unwritten
<1> QED BY <1>1, <1>2, <1>3, <1>4, <1>5 DEF Next

\* Edits, commit and appends keep the invariant of the rows.
THEOREM BlockEpochInvariant == Spec => []EInv
BY InitPlaced, NextKeeps, PTL DEF Spec

\* insert_op_before (pass.rs), across the commit: what a task placed before a
\* target is ahead of it, where no other task wrote the target's row, for any
\* number of tasks and edits.
THEOREM BlockEpochBefore == Spec => []CommittedBeforeUnlessRenumbered
<1>1. EInv => CommittedBeforeUnlessRenumbered
  BY DEF EInv, CommittedKept, CommittedBeforeUnlessRenumbered, IsKept
<1> QED BY <1>1, BlockEpochInvariant, PTL

\* Block::append after an epoch in which no task renumbered the block puts the op
\* behind every op the block holds, whichever tasks placed them.
THEOREM BlockEpochAppend == Spec => AppendGoesLastUnlessRenumbered
<1> DEFINE Last == \A o \in Minted[0] : ContextAppend(o) /\ renumbered = {} =>
                     AheadOf(block'.held, block'.pos, o) = block.held
<1>1. EInv /\ [Next]_vars => [Last]_vars
  BY BaseAssumption, ContextAppendKeeps
<1> QED BY <1>1, BlockEpochInvariant, PTL DEF Spec, AppendGoesLastUnlessRenumbered
=============================================================================
