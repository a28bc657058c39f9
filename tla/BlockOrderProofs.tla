-------------------------- MODULE BlockOrderProofs --------------------------
(* A block edited by one context keeps its ops in the order the edits say,  *)
(* for every set of ops, every STRIDE from two and every width of the       *)
(* counter that has room for the ops: BlockOrder implements OpOrder.  The   *)
(* inductive invariant is TypeOK /\ PositionsSpread.                        *)
EXTENDS BlockOrder, FiniteSetTheorems, WellFoundedInduction, TLAPS

-----------------------------------------------------------------------------
(* Facts about natural numbers. *)

\* Every set of naturals that has a member has a least one: the induction the
\* proofs about counters and indices of the code rest on.
LEMMA LeastNatural ==
  ASSUME NEW S \in SUBSET Nat, S # {}
  PROVE  \E n \in S : \A m \in S : n <= m
<1> DEFINE R == OpToRel(<, Nat)
<1>1. IsWellFoundedOn(R, Nat)
  BY NatLessThanWellFounded
<1>2. PICK n \in S : \A m \in S : ~ (<<m, n>> \in R)
  <2> HIDE DEF R
  <2> QED BY <1>1, WFMin
<1>3. ASSUME NEW m \in S PROVE n <= m
  <2>1. m \in Nat /\ n \in Nat
    OBVIOUS
  <2>2. ~ (m < n)
    BY <1>2, <2>1 DEF OpToRel
  <2> QED BY <2>1, <2>2
<1> QED BY <1>3

\* Multiples of different numbers are a multiple apart: why ranks times STRIDE
\* leave gaps, and chunk indices of different rounds do not meet.
LEMMA MultiplesApart ==
  ASSUME NEW c \in Nat, NEW x \in Nat, NEW y \in Nat, x < y
  PROVE  x * c \in Nat /\ y * c \in Nat /\ x * c + c <= y * c
<1>1. PICK w \in Nat : y = x + 1 + w
  <2>1. y - (x + 1) \in Nat /\ y = x + 1 + (y - (x + 1))
    OBVIOUS
  <2> QED BY <2>1
<1>2. y * c = x * c + c + w * c
  BY <1>1
<1>3. w * c \in Nat /\ x * c \in Nat
  OBVIOUS
<1> QED BY <1>2, <1>3

-----------------------------------------------------------------------------

IInv == TypeOK /\ PositionsSpread

Placings == [Ops -> Nat]

-----------------------------------------------------------------------------
(* The order positions give. *)

\* Sorting by position and id orders any set of ops strictly.
LEMMA AheadIsOrder ==
  ASSUME NEW h \in SUBSET Ops, NEW p \in Placings
  PROVE  /\ \A x, y, z \in Ops : IsAhead(p, x, y) /\ IsAhead(p, y, z) => IsAhead(p, x, z)
         /\ \A x \in Ops : ~IsAhead(p, x, x)
         /\ \A x, y \in Ops : x = y \/ IsAhead(p, x, y) \/ IsAhead(p, y, x)
<1>1. \A x \in Ops : p[x] \in Nat /\ x \in Nat
  BY OpsAssumption DEF Placings
<1> QED
  BY <1>1 DEF IsAhead

\* The neighbour position insert_held starts from: no op ahead is beyond it,
\* and it is 0 or the position of one.
LEMMA BelowSpec ==
  ASSUME NEW h \in SUBSET Ops, NEW p \in Placings, NEW t \in Ops
  PROVE  /\ Below(h, p, t) \in Nat
         /\ \A x \in AheadOf(h, p, t) : p[x] <= Below(h, p, t)
         /\ Below(h, p, t) = 0 \/ \E x \in AheadOf(h, p, t) : Below(h, p, t) = p[x]
<1> DEFINE A == AheadOf(h, p, t)
           U == {u \in Nat : \A x \in A : p[x] <= u}
<1>1. A \subseteq Ops /\ \A x \in A : p[x] \in Nat /\ p[x] <= p[t]
  BY DEF AheadOf, IsAhead, Placings
<1>2. p[t] \in U
  BY <1>1 DEF Placings
<1> HIDE DEF A
<1>3. PICK u \in U : \A v \in U : u <= v
  BY <1>2, LeastNatural
<1>4. u \in {0} \cup {p[x] : x \in A}
  <2> SUFFICES ASSUME u # 0, \A x \in A : p[x] # u PROVE FALSE
    BY <1>3
  <2>1. u - 1 \in Nat /\ \A x \in A : p[x] <= u - 1
    BY <1>1, <1>3
  <2> QED
    BY <1>3, <2>1
<1>5. \E low \in {0} \cup {p[x] : x \in A} : \A x \in A : p[x] <= low
  BY <1>3, <1>4
<1>6. /\ Below(h, p, t) \in {0} \cup {p[x] : x \in A}
      /\ \A x \in A : p[x] <= Below(h, p, t)
  BY <1>5 DEF Below, A
<1> QED
  BY <1>1, <1>6 DEF A

-----------------------------------------------------------------------------
(* Renumbering. *)

\* The rank of an op in an order of the held ops.
LEMMA RankSpec ==
  ASSUME NEW h \in SUBSET Ops, NEW b, OO!IsOrder(h, b)
  PROVE  /\ \A x \in h : Cardinality(b[x]) \in Nat /\ Cardinality(b[x]) < Cardinality(h)
         /\ \A x, y \in h : x \in b[y] => Cardinality(b[x]) < Cardinality(b[y])
         /\ Cardinality(h) \in Nat /\ Cardinality(h) <= Cardinality(Ops)
         /\ Cardinality(Ops) \in Nat
<1>1. /\ IsFiniteSet(h) /\ Cardinality(h) \in Nat /\ Cardinality(h) <= Cardinality(Ops)
      /\ Cardinality(Ops) \in Nat
  BY OpsAssumption, FS_Subset, FS_CardinalityType
<1>2. \A x \in h : b[x] \subseteq h /\ x \notin b[x] /\ IsFiniteSet(b[x])
  BY <1>1, FS_Subset DEF OO!IsOrder
<1>3. ASSUME NEW S, IsFiniteSet(S), NEW T \in SUBSET S, T # S
      PROVE  Cardinality(T) \in Nat /\ Cardinality(S) \in Nat /\ Cardinality(T) < Cardinality(S)
  <2>1. /\ Cardinality(T) <= Cardinality(S) /\ Cardinality(T) # Cardinality(S)
        /\ IsFiniteSet(T)
    BY <1>3, FS_Subset
  <2>2. Cardinality(T) \in Nat /\ Cardinality(S) \in Nat
    BY <1>3, <2>1, FS_CardinalityType
  <2> QED
    BY <2>1, <2>2
<1>4. \A x \in h : Cardinality(b[x]) \in Nat /\ Cardinality(b[x]) < Cardinality(h)
  BY <1>1, <1>2, <1>3
<1>5. ASSUME NEW x \in h, NEW y \in h, x \in b[y]
      PROVE  Cardinality(b[x]) < Cardinality(b[y])
  <2>1. b[x] \subseteq b[y]
    BY <1>2, <1>5 DEF OO!IsOrder
  <2>2. b[x] # b[y]
    BY <1>2, <1>5
  <2> QED
    BY <1>2, <1>3, <2>1, <2>2
<1> QED
  BY <1>1, <1>4, <1>5

\* set_held gives every op its rank times STRIDE: the order it was given, gaps
\* of STRIDE, and everything short of the counter it leaves.
LEMMA SpreadSpec ==
  ASSUME NEW h \in SUBSET Ops, NEW p \in Placings, NEW b, OO!IsOrder(h, b)
  PROVE  /\ Spread(h, p, b) \in Placings
         /\ NextAfter(h) \in Nat /\ NextAfter(h) >= Stride /\ NextAfter(h) < MaxPosition - 2 * Stride
         /\ \A x \in h : Spread(h, p, b)[x] >= Stride /\ Spread(h, p, b)[x] < NextAfter(h)
         /\ \A x, y \in h : x \in b[y] => Spread(h, p, b)[x] + Stride <= Spread(h, p, b)[y]
         /\ \A x \in Ops \ h : Spread(h, p, b)[x] = p[x]
<1> DEFINE s == Spread(h, p, b)
           c(x) == Cardinality(b[x]) + 1
<1>1. \A x \in h : s[x] = c(x) * Stride
  BY DEF Spread
<1>2. /\ \A x \in h : c(x) \in Nat /\ c(x) >= 1 /\ c(x) < Cardinality(h) + 1
      /\ \A x, y \in h : x \in b[y] => c(x) < c(y)
      /\ Cardinality(h) \in Nat /\ Cardinality(h) <= Cardinality(Ops)
      /\ Cardinality(Ops) \in Nat
  <2>1. /\ \A x \in h : Cardinality(b[x]) \in Nat /\ Cardinality(b[x]) < Cardinality(h)
        /\ \A x, y \in h : x \in b[y] => Cardinality(b[x]) < Cardinality(b[y])
        /\ Cardinality(h) \in Nat /\ Cardinality(h) <= Cardinality(Ops)
        /\ Cardinality(Ops) \in Nat
    BY RankSpec, Zenon
  <2> QED
    BY <2>1
<1>3. Stride \in Nat /\ Stride >= 2
  BY StrideAssumption
<1> HIDE DEF c
<1>4. NextAfter(h) \in Nat /\ NextAfter(h) >= Stride /\ NextAfter(h) < MaxPosition - 2 * Stride
  <2>1. NextAfter(h) <= (Cardinality(Ops) + 1) * Stride /\ NextAfter(h) \in Nat
    <3>1. CASE Cardinality(h) = Cardinality(Ops)
      BY <1>2, <1>3, <3>1 DEF NextAfter
    <3>2. CASE Cardinality(h) + 1 < Cardinality(Ops) + 1
      BY <1>2, <1>3, <3>2, MultiplesApart DEF NextAfter
    <3> QED
      BY <1>2, <3>1, <3>2
  <2>2. (Cardinality(Ops) + 1) * Stride \in Nat
    BY <1>2, <1>3
  <2>3. 0 * Stride + Stride <= NextAfter(h)
    BY <1>2, <1>3, MultiplesApart DEF NextAfter
  <2> QED
    BY <1>3, <2>1, <2>2, <2>3, StrideAssumption
<1>5. ASSUME NEW x \in h
      PROVE  s[x] \in Nat /\ s[x] >= Stride /\ s[x] + Stride <= NextAfter(h)
  <2>1. c(x) * Stride \in Nat /\ c(x) * Stride + Stride <= (Cardinality(h) + 1) * Stride
    BY <1>2, <1>3, MultiplesApart
  <2>2. 0 * Stride + Stride <= c(x) * Stride
    BY <1>2, <1>3, MultiplesApart
  <2> QED
    BY <1>1, <1>3, <2>1, <2>2 DEF NextAfter
<1>6. ASSUME NEW x \in h, NEW y \in h, x \in b[y]
      PROVE  s[x] + Stride <= s[y]
  BY <1>1, <1>2, <1>3, <1>6, MultiplesApart
<1>7. \A x \in Ops \ h : s[x] = p[x]
  BY DEF Spread
<1>8. s \in Placings
  <2>1. \A x \in Ops : s[x] \in Nat
    BY <1>5, <1>7 DEF Placings
  <2>2. s = [x \in Ops |-> s[x]]
    BY DEF Spread
  <2> QED
    BY <2>1, <2>2 DEF Placings
<1> QED
  BY <1>3, <1>4, <1>5, <1>6, <1>7, <1>8

\* Sorting by position gives an order of the held ops.
LEMMA OrderIsOrder ==
  ASSUME NEW h \in SUBSET Ops, NEW p \in Placings
  PROVE  OO!IsOrder(h, Order(h, p))
BY AheadIsOrder DEF OO!IsOrder, Order, AheadOf

\* Positions that agree with an order read back as that order.
LEMMA OrderReads ==
  ASSUME NEW h \in SUBSET Ops, NEW p \in Placings, NEW b, OO!IsOrder(h, b),
         \A x, y \in h : x \in b[y] => IsAhead(p, x, y)
  PROVE  Order(h, p) = b
<1>1. ASSUME NEW y \in h PROVE AheadOf(h, p, y) = b[y]
  <2>1. b[y] \subseteq AheadOf(h, p, y)
    BY DEF AheadOf, OO!IsOrder
  <2>2. ASSUME NEW x \in AheadOf(h, p, y) PROVE x \in b[y]
    <3>1. x \in h /\ IsAhead(p, x, y)
      BY <2>2 DEF AheadOf
    <3>2. x # y /\ ~IsAhead(p, y, x)
      BY <3>1, AheadIsOrder
    <3> QED
      BY <3>1, <3>2 DEF OO!IsOrder
  <2> QED
    BY <2>1, <2>2
<1>2. b = [y \in Ops |-> b[y]] /\ \A y \in Ops \ h : b[y] = {}
  BY DEF OO!IsOrder
<1> QED
  BY <1>1, <1>2 DEF Order

\* set_held reads back as the order it was given.
LEMMA SpreadReads ==
  ASSUME NEW h \in SUBSET Ops, NEW p \in Placings, NEW b, OO!IsOrder(h, b)
  PROVE  Order(h, Spread(h, p, b)) = b
<1>1. /\ Spread(h, p, b) \in Placings
      /\ \A x, y \in h : x \in b[y] => Spread(h, p, b)[x] + Stride <= Spread(h, p, b)[y]
  BY SpreadSpec, Zenon
<1>2. \A x, y \in h : x \in b[y] => IsAhead(Spread(h, p, b), x, y)
  BY <1>1, StrideAssumption DEF IsAhead, Placings
<1> QED
  BY <1>1, <1>2, OrderReads

\* What append_held and insert_held rely on after renumbering: the order is the
\* same, the counter is beyond every op, and neighbours are STRIDE apart.
LEMMA RenumberedSpec ==
  ASSUME NEW h \in SUBSET Ops, NEW p \in Placings
  PROVE  /\ Renumbered(h, p) \in Placings
         /\ Order(h, Renumbered(h, p)) = Order(h, p)
         /\ NextAfter(h) \in Nat /\ NextAfter(h) >= Stride /\ NextAfter(h) < MaxPosition - 2 * Stride
         /\ \A x \in h : Renumbered(h, p)[x] >= Stride /\ Renumbered(h, p)[x] < NextAfter(h)
         /\ \A x, y \in h : x \in AheadOf(h, Renumbered(h, p), y) =>
              Renumbered(h, p)[x] + Stride <= Renumbered(h, p)[y]
         /\ \A x \in Ops \ h : Renumbered(h, p)[x] = p[x]
<1> DEFINE r == Renumbered(h, p)
           b == Order(h, p)
<1>1. OO!IsOrder(h, b) /\ r = Spread(h, p, b)
  BY OrderIsOrder DEF Renumbered
<1> HIDE DEF r, b
<1>2. Order(h, r) = b
  BY <1>1, SpreadReads
<1>3. \A y \in h : AheadOf(h, r, y) = b[y]
  BY <1>2 DEF Order
<1>4. /\ r \in Placings
      /\ NextAfter(h) \in Nat /\ NextAfter(h) >= Stride /\ NextAfter(h) < MaxPosition - 2 * Stride
      /\ \A x \in h : r[x] >= Stride /\ r[x] < NextAfter(h)
      /\ \A x, y \in h : x \in b[y] => r[x] + Stride <= r[y]
      /\ \A x \in Ops \ h : r[x] = p[x]
  BY <1>1, SpreadSpec, Zenon
<1> QED
  BY <1>2, <1>3, <1>4, Zenon DEF r, b

-----------------------------------------------------------------------------
(* Placing one op. *)

\* What the edits of OpOrder make of an order b.
GoesLast(h, b, o, c) == c = [x \in Ops |-> IF x = o THEN h \ {o} ELSE b[x] \ {o}]
GoesBefore(b, o, t, c) ==
  c = [x \in Ops |->
         IF x = o THEN b[t] \ {o}
         ELSE IF x = t \/ t \in b[x] THEN b[x] \cup {o}
         ELSE b[x] \ {o}]
GoesFor(b, old, new, c) ==
  c = [x \in Ops |->
         IF x = new THEN b[old] \ {new}
         ELSE IF x = old THEN {}
         ELSE IF old \in b[x] THEN (b[x] \ {old}) \cup {new}
         ELSE b[x] \ {new}]
GoesAway(b, o, c) == c = [x \in Ops |-> IF x = o THEN {} ELSE b[x] \ {o}]

\* An op placed beyond every other goes behind them all.
LEMMA PlaceLast ==
  ASSUME NEW h \in SUBSET Ops, NEW p \in Placings, NEW o \in Ops, NEW n \in Nat,
         \A x \in h : p[x] < n,
         NEW g, g = h \cup {o}, NEW q, q = [p EXCEPT ![o] = n]
  PROVE  GoesLast(h, Order(h, p), o, Order(g, q))
<1>1. q \in Placings /\ q[o] = n /\ \A x \in Ops \ {o} : q[x] = p[x]
  BY DEF Placings
<1>2. \A x \in Ops : p[x] \in Nat
  BY DEF Placings
<1>3. /\ ~IsAhead(q, o, o)
      /\ \A x \in h \ {o} : IsAhead(q, x, o) /\ ~IsAhead(q, o, x)
      /\ \A x, y \in h \ {o} : IsAhead(q, x, y) <=> IsAhead(p, x, y)
  BY <1>1, <1>2, OpsAssumption DEF IsAhead
<1>4. AheadOf(g, q, o) = h \ {o}
  BY <1>3 DEF AheadOf
<1>5. \A x \in h \ {o} : AheadOf(g, q, x) = AheadOf(h, p, x) \ {o}
  BY <1>3 DEF AheadOf
<1> QED
  BY <1>4, <1>5 DEF Order, GoesLast

\* A position between t's and the one below parts the held ops into those
\* ahead of t and the others, and is taken by none.
LEMMA Between ==
  ASSUME NEW h \in SUBSET Ops, NEW p \in Placings, NEW t \in h, NEW n \in Nat,
         Below(h, p, t) < n, n < p[t]
  PROVE  /\ \A x \in AheadOf(h, p, t) : x \in h /\ p[x] < n
         /\ \A x \in h \ AheadOf(h, p, t) : p[x] > n
<1>1. \A x \in Ops : p[x] \in Nat
  BY DEF Placings
<1>2. \A x \in AheadOf(h, p, t) : x \in h /\ p[x] < n
  <2>1. Below(h, p, t) \in Nat /\ \A x \in AheadOf(h, p, t) : p[x] <= Below(h, p, t)
    BY BelowSpec, Zenon
  <2>2. \A x \in AheadOf(h, p, t) : x \in h
    BY DEF AheadOf
  <2> QED
    BY <1>1, <2>1, <2>2
<1>3. ASSUME NEW x \in h, x \notin AheadOf(h, p, t)
      PROVE  p[x] > n
  <2>1. x = t \/ IsAhead(p, t, x)
    BY <1>3, AheadIsOrder DEF AheadOf
  <2> QED
    BY <1>1, <2>1 DEF IsAhead
<1> QED
  BY <1>2, <1>3

\* An op placed between t and the position below it goes immediately before t.
LEMMA PlaceBefore ==
  ASSUME NEW h \in SUBSET Ops, NEW p \in Placings, NEW t \in h,
         NEW o \in Ops \ {t}, NEW n \in Nat,
         Below(h, p, t) < n, n < p[t],
         NEW g, g = h \cup {o}, NEW q, q = [p EXCEPT ![o] = n]
  PROVE  GoesBefore(Order(h, p), o, t, Order(g, q))
<1>1. q \in Placings /\ q[o] = n /\ \A x \in Ops \ {o} : q[x] = p[x]
  BY DEF Placings
<1>2. \A x \in Ops : p[x] \in Nat
  BY DEF Placings
<1>3. \A x \in AheadOf(h, p, t) : x \in h /\ p[x] < n
  BY Between, Zenon
<1>4. \A x \in h \ AheadOf(h, p, t) : p[x] > n
  BY Between, Zenon
<1>5. /\ ~IsAhead(q, o, o)
      /\ \A x \in h \ {o} : IsAhead(q, x, o) <=> x \in AheadOf(h, p, t)
      /\ \A x \in h \ {o} : IsAhead(q, o, x) <=> x \notin AheadOf(h, p, t)
  BY <1>1, <1>2, <1>3, <1>4, OpsAssumption DEF IsAhead
<1>6. \A x, y \in h \ {o} : IsAhead(q, x, y) <=> IsAhead(p, x, y)
  BY <1>1 DEF IsAhead
<1>7. AheadOf(g, q, o) = AheadOf(h, p, t) \ {o}
  BY <1>3, <1>5 DEF AheadOf
<1>8. \A x \in h : (x = t \/ t \in AheadOf(h, p, x)) <=> x \notin AheadOf(h, p, t)
  BY AheadIsOrder DEF AheadOf
<1>9. \A x \in h \ {o} : AheadOf(g, q, x) =
        IF x \notin AheadOf(h, p, t) THEN AheadOf(h, p, x) \cup {o}
        ELSE AheadOf(h, p, x) \ {o}
  <2> DEFINE A == AheadOf(h, p, t)
  <2> HIDE DEF A
  <2>1. \A x \in h \ {o} : IsAhead(q, o, x) <=> x \notin A
    BY <1>5 DEF A
  <2>2. \A x \in h \ {o} : AheadOf(g, q, x) =
          IF x \notin A THEN AheadOf(h, p, x) \cup {o} ELSE AheadOf(h, p, x) \ {o}
    BY <1>6, <2>1 DEF AheadOf
  <2> QED
    BY <2>2 DEF A
<1> QED
  BY <1>7, <1>8, <1>9 DEF Order, GoesBefore

\* An op moved to between itself and the position below it stays where it is.
LEMMA PlaceSame ==
  ASSUME NEW h \in SUBSET Ops, NEW p \in Placings, NEW t \in h, NEW n \in Nat,
         Below(h, p, t) < n, n < p[t], NEW q, q = [p EXCEPT ![t] = n]
  PROVE  Order(h, q) = Order(h, p)
<1>1. q \in Placings /\ q[t] = n /\ \A x \in Ops \ {t} : q[x] = p[x]
  BY DEF Placings
<1>2. \A x \in Ops : p[x] \in Nat
  BY DEF Placings
<1>3. \A x \in AheadOf(h, p, t) : x \in h /\ p[x] < n
  BY Between, Zenon
<1>4. \A x \in h \ AheadOf(h, p, t) : p[x] > n
  BY Between, Zenon
<1>5. \A x \in h : x \in AheadOf(h, p, t) <=> IsAhead(p, x, t)
  BY DEF AheadOf
<1>6. \A x, y \in h : IsAhead(p, x, y) => IsAhead(q, x, y)
  <2> SUFFICES ASSUME NEW x \in h, NEW y \in h, IsAhead(p, x, y) PROVE IsAhead(q, x, y)
    OBVIOUS
  <2>1. x # y
    BY AheadIsOrder
  <2>2. CASE x = t
    <3>1. y \notin AheadOf(h, p, t)
      BY <1>5, <2>2, AheadIsOrder
    <3> QED
      BY <1>1, <1>2, <1>4, <2>1, <2>2, <3>1 DEF IsAhead
  <2>3. CASE y = t
    BY <1>1, <1>2, <1>3, <1>5, <2>1, <2>3 DEF IsAhead
  <2>4. CASE x # t /\ y # t
    BY <1>1, <2>4 DEF IsAhead
  <2> QED
    BY <2>2, <2>3, <2>4
<1>7. \A x, y \in h : x \in Order(h, p)[y] => IsAhead(q, x, y)
  BY <1>6 DEF Order, AheadOf
<1> QED
  BY <1>1, <1>7, OrderIsOrder, OrderReads

\* Removing an op leaves the others as they were.
LEMMA PlaceNone ==
  ASSUME NEW h \in SUBSET Ops, NEW p \in Placings, NEW o \in h, NEW g, g = h \ {o}
  PROVE  GoesAway(Order(h, p), o, Order(g, p))
<1>1. \A x \in h \ {o} : AheadOf(g, p, x) = AheadOf(h, p, x) \ {o}
  BY DEF AheadOf
<1> QED
  BY <1>1 DEF Order, GoesAway

\* An op at the position of another, which leaves and shared it with no third,
\* takes its place.
LEMMA PlaceFor ==
  ASSUME NEW h \in SUBSET Ops, NEW p \in Placings, NEW old \in h, NEW new \in Ops \ {old},
         \A x \in h \ {old} : p[x] # p[old],
         NEW g, g = (h \ {old}) \cup {new}, NEW q, q = [p EXCEPT ![new] = p[old]]
  PROVE  GoesFor(Order(h, p), old, new, Order(g, q))
<1>1. q \in Placings /\ q[new] = p[old] /\ \A x \in Ops \ {new} : q[x] = p[x]
  BY DEF Placings
<1>2. \A x \in Ops : p[x] \in Nat
  BY DEF Placings
<1>3. /\ ~IsAhead(q, new, new)
      /\ \A x \in h \ {old, new} : IsAhead(q, x, new) <=> IsAhead(p, x, old)
      /\ \A x \in h \ {old, new} : IsAhead(q, new, x) <=> IsAhead(p, old, x)
  BY <1>1, <1>2, OpsAssumption DEF IsAhead
<1>4. \A x, y \in h \ {new} : IsAhead(q, x, y) <=> IsAhead(p, x, y)
  BY <1>1 DEF IsAhead
<1>5. ~IsAhead(p, old, old)
  BY AheadIsOrder
<1>6. AheadOf(g, q, new) = AheadOf(h, p, old) \ {new}
  BY <1>3, <1>5 DEF AheadOf
<1>7. \A x \in h \ {old, new} : AheadOf(g, q, x) =
        IF old \in AheadOf(h, p, x) THEN (AheadOf(h, p, x) \ {old}) \cup {new}
        ELSE AheadOf(h, p, x) \ {new}
  BY <1>3, <1>4 DEF AheadOf
<1> QED
  BY <1>6, <1>7 DEF Order, GoesFor

-----------------------------------------------------------------------------
(* The edits. *)

\* Facts every edit starts from.
LEMMA Typed ==
  ASSUME IInv
  PROVE  /\ held \in SUBSET Ops /\ pos \in Placings
         /\ next \in Nat /\ 0 < next /\ next <= MaxPosition
         /\ \A x \in held : 0 < pos[x] /\ pos[x] < next
         /\ \A x, y \in held : x # y => pos[x] # pos[y]
         /\ Stride \in Nat /\ Stride >= 2 /\ MaxPosition \in Nat
BY StrideAssumption DEF IInv, TypeOK, PositionsSpread, Placings

\* Positions of held ops short of a counter within bounds, no two the same,
\* make the invariant, when the other positions are within bounds.
LEMMA Invariantly ==
  ASSUME held' \in SUBSET Ops, pos' \in Placings, next' \in Nat, 0 < next', next' <= MaxPosition,
         \A x \in Ops : pos'[x] <= MaxPosition,
         \A x \in held' : 0 < pos'[x] /\ pos'[x] < next',
         \A x, y \in held' : x # y => pos'[x] # pos'[y]
  PROVE  IInv'
<1>1. pos' \in [Ops -> 0 .. MaxPosition]
  BY StrideAssumption DEF Placings
<1> QED
  BY <1>1, StrideAssumption DEF IInv, TypeOK, PositionsSpread

\* The initial, empty block.
LEMMA InitMaps == Init => IInv /\ OO!Init
<1> SUFFICES ASSUME Init PROVE IInv /\ OO!Init
  OBVIOUS
<1>1. Stride < MaxPosition
  <2>1. OO!IsOrder({}, [o \in Ops |-> {}])
    BY DEF OO!IsOrder
  <2>2. [o \in Ops |-> 0] \in Placings
    BY DEF Placings
  <2>3. NextAfter({}) < MaxPosition - 2 * Stride /\ NextAfter({}) \in Nat
    BY <2>1, <2>2, SpreadSpec, Zenon
  <2>4. NextAfter({}) = Stride
    BY FS_EmptySet, StrideAssumption DEF NextAfter
  <2> QED
    BY <2>3, <2>4, StrideAssumption
<1>2. IInv
  BY <1>1, StrideAssumption DEF Init, IInv, TypeOK, PositionsSpread
<1>3. OO!Init
  BY DEF Init, OO!Init, Order
<1> QED
  BY <1>2, <1>3

\* What an edit works on, as it is or renumbered: the same order, held ops at
\* different positions short of the counter.
IsGround(q, n) ==
  /\ q \in Placings /\ n \in Nat /\ 0 < n /\ n <= MaxPosition
  /\ Order(held, q) = Order(held, pos)
  /\ \A x \in held : 0 < q[x] /\ q[x] < n
  /\ \A x \in Ops \ held : q[x] = pos[x]
  /\ \A x, y \in held : x # y => q[x] # q[y]

\* The positions as they are.
LEMMA GroundAsIs ==
  ASSUME IInv
  PROVE  IsGround(pos, next)
BY Typed DEF IsGround

\* The positions renumbered, with room for an op between any two and behind all.
LEMMA GroundRenumbered ==
  ASSUME IInv, NEW q, q = Renumbered(held, pos), NEW n, n = NextAfter(held)
  PROVE  /\ IsGround(q, n)
         /\ n < MaxPosition - 2 * Stride
         /\ \A t \in held : q[t] - Below(held, q, t) >= 2
<1>1. /\ held \in SUBSET Ops /\ pos \in Placings
      /\ Stride \in Nat /\ Stride >= 2 /\ MaxPosition \in Nat
  BY Typed
<1>2. /\ q \in Placings /\ n \in Nat /\ n >= Stride /\ n < MaxPosition - 2 * Stride
      /\ Order(held, q) = Order(held, pos)
      /\ \A x \in held : q[x] >= Stride /\ q[x] < n
      /\ \A x, y \in held : x \in AheadOf(held, q, y) => q[x] + Stride <= q[y]
      /\ \A x \in Ops \ held : q[x] = pos[x]
  BY <1>1, RenumberedSpec, Zenon
<1>3. \A x, y \in held : x # y => x \in AheadOf(held, q, y) \/ y \in AheadOf(held, q, x)
  BY <1>1, <1>2, AheadIsOrder DEF AheadOf
<1>4. \A x \in held : q[x] \in Nat
  BY <1>1, <1>2 DEF Placings
<1>5. IsGround(q, n)
  BY <1>1, <1>2, <1>3, <1>4 DEF IsGround
<1>6. ASSUME NEW t \in held PROVE q[t] - Below(held, q, t) >= 2
  <2>1. /\ Below(held, q, t) \in Nat
        /\ Below(held, q, t) = 0 \/ \E x \in AheadOf(held, q, t) : Below(held, q, t) = q[x]
    BY <1>1, <1>2, BelowSpec, Zenon
  <2>2. \A x \in AheadOf(held, q, t) : x \in held /\ q[x] + Stride <= q[t]
    BY <1>2 DEF AheadOf
  <2>3. CASE Below(held, q, t) = 0
    BY <1>1, <1>2, <1>4, <2>3
  <2>4. CASE \E x \in AheadOf(held, q, t) : Below(held, q, t) = q[x]
    BY <1>1, <1>4, <2>2, <2>4
  <2> QED
    BY <2>1, <2>3, <2>4
<1> QED
  BY <1>2, <1>5, <1>6

\* Block::append puts the op behind all others, also when the counter has run
\* out of room.
LEMMA AppendMaps ==
  ASSUME IInv, NEW o \in Ops, Append(o)
  PROVE  IInv' /\ OO!Append(o)
<1> DEFINE q == IF HasRoom(next) THEN pos ELSE Renumbered(held, pos)
           n == IF HasRoom(next) THEN next ELSE NextAfter(held)
<1>1. held' = held \cup {o} /\ pos' = [q EXCEPT ![o] = n] /\ next' = n + Stride
  BY Zenon DEF Append, AppendPositions, AppendNext
<1>2. /\ q \in Placings /\ n \in Nat /\ 0 < n /\ n < MaxPosition - 2 * Stride
      /\ Order(held, q) = Order(held, pos)
      /\ \A x \in held : 0 < q[x] /\ q[x] < n
      /\ \A x \in Ops \ held : q[x] = pos[x]
      /\ \A x, y \in held : x # y => q[x] # q[y]
  BY GroundAsIs, GroundRenumbered DEF IsGround, HasRoom
<1> HIDE DEF q, n
<1>3. held \in SUBSET Ops /\ Stride \in Nat /\ MaxPosition \in Nat /\ Stride >= 2
  BY Typed
<1>4. pos' \in Placings /\ pos'[o] = n /\ \A x \in Ops \ {o} : pos'[x] = q[x]
  BY <1>1, <1>2 DEF Placings
<1>5. \A x \in Ops : pos[x] <= MaxPosition /\ q[x] \in Nat
  BY <1>2 DEF IInv, TypeOK, Placings
<1>6. \A x \in Ops : pos'[x] <= MaxPosition
  BY <1>2, <1>3, <1>4, <1>5
<1>7. /\ \A x \in held' : 0 < pos'[x] /\ pos'[x] < next'
      /\ next' \in Nat /\ 0 < next' /\ next' <= MaxPosition
  <2>1. n \in Nat /\ n + Stride \in Nat /\ n + Stride <= MaxPosition /\ n < n + Stride
    BY <1>2, <1>3
  <2> QED
    BY <1>1, <1>2, <1>3, <1>4, <1>5, <2>1
<1>8. \A x, y \in held' : x # y => pos'[x] # pos'[y]
  BY <1>1, <1>2, <1>3, <1>4, <1>5
<1>9. IInv'
  BY <1>1, <1>3, <1>4, <1>6, <1>7, <1>8, Invariantly
<1>10. OO!Append(o)
  <2>1. held \in SUBSET Ops /\ q \in Placings /\ n \in Nat /\ \A x \in held : q[x] < n
    BY <1>2, <1>3
  <2>2. GoesLast(held, Order(held, q), o, Order(held', pos'))
    BY <1>1, <2>1, PlaceLast
  <2> QED
    BY <1>1, <1>2, <2>2 DEF OO!Append, GoesLast
<1> QED
  BY <1>9, <1>10

\* Block::insert at the index of an op puts the op immediately before it, also
\* when no position is free there.
LEMMA InsertMaps ==
  ASSUME IInv, NEW o \in Ops, NEW t \in Ops, Insert(o, t)
  PROVE  IInv' /\ (OO!InsertBefore(o, t) \/ UNCHANGED OO!vars)
<1> DEFINE q == RoomPositions(held, pos, t)
           m == InsertNext(held, pos, next, t)
           low == Below(held, q, t)
           n == Midway(held, q, t)
<1>1. t \in held /\ held' = held \cup {o} /\ pos' = [q EXCEPT ![o] = n] /\ next' = m
  BY DEF Insert, InsertPositions
<1>2. /\ held \in SUBSET Ops /\ MaxPosition \in Nat
      /\ \A x \in Ops : pos[x] \in Nat /\ pos[x] <= MaxPosition
  BY Typed DEF IInv, TypeOK, Placings
<1>3. IsGround(q, m) /\ q[t] - low >= 2
  <2>1. CASE IsTight(held, pos, t)
    BY <1>1, <2>1, GroundRenumbered DEF RoomPositions, InsertNext
  <2>2. CASE ~IsTight(held, pos, t)
    <3>1. q = pos /\ m = next /\ ~(q[t] - low < 2)
      BY <2>2 DEF RoomPositions, InsertNext, IsTight
    <3>2. low \in Nat
      <4>1. pos \in Placings
        BY Typed
      <4> QED
        BY <1>1, <1>2, <3>1, <4>1, BelowSpec
    <3> QED
      BY <1>1, <1>2, <3>1, <3>2, GroundAsIs
  <2> QED
    BY <2>1, <2>2
<1>4. q \in Placings /\ q[t] \in Nat /\ low \in Nat
  <2>1. q \in Placings
    BY <1>3 DEF IsGround
  <2> QED
    BY <1>1, <1>2, <2>1, BelowSpec DEF Placings
<1>5. n = low + (q[t] - low) \div 2
  BY DEF Midway
<1> HIDE DEF q, m, low, n
<1>6. n \in Nat /\ low < n /\ n < q[t]
  BY <1>3, <1>4, <1>5
<1>7. \A x \in held : q[x] # n
  <2>1. Below(held, q, t) < n
    BY <1>6 DEF low
  <2>2. /\ \A x \in AheadOf(held, q, t) : x \in held /\ q[x] < n
        /\ \A x \in held \ AheadOf(held, q, t) : q[x] > n
    BY <1>1, <1>2, <1>4, <1>6, <2>1, Between, Zenon
  <2>3. \A x \in held : q[x] \in Nat
    BY <1>2, <1>4 DEF Placings
  <2> QED
    BY <1>6, <2>2, <2>3
<1>8. IInv'
  <2>1. pos' \in Placings /\ pos'[o] = n /\ \A x \in Ops \ {o} : pos'[x] = q[x]
    BY <1>1, <1>4, <1>6 DEF Placings
  <2>2. /\ \A x \in held : 0 < q[x] /\ q[x] < m
        /\ \A x \in Ops \ held : q[x] = pos[x]
        /\ \A x, y \in held : x # y => q[x] # q[y]
        /\ m \in Nat /\ 0 < m /\ m <= MaxPosition
        /\ \A x \in Ops : q[x] \in Nat
    BY <1>3, <1>4 DEF IsGround, Placings
  <2>3. \A x \in Ops : q[x] <= MaxPosition
    BY <1>2, <2>2
  <2>4. 0 < n /\ n < m /\ n <= MaxPosition
    BY <1>1, <1>2, <1>4, <1>6, <2>2
  <2>5. \A x \in held' : 0 < pos'[x] /\ pos'[x] < next'
    BY <1>1, <1>2, <2>1, <2>2, <2>4
  <2>6. \A x, y \in held' : x # y => pos'[x] # pos'[y]
    BY <1>1, <1>2, <1>7, <2>1, <2>2
  <2>7. \A x \in Ops : pos'[x] <= MaxPosition
    BY <2>1, <2>3, <2>4
  <2>8. held' \in SUBSET Ops /\ next' \in Nat /\ 0 < next' /\ next' <= MaxPosition
    BY <1>1, <1>2, <2>2
  <2> QED
    BY <2>1, <2>5, <2>6, <2>7, <2>8, Invariantly
<1>9. Order(held, q) = Order(held, pos) /\ Below(held, q, t) < n
  BY <1>3, <1>6 DEF IsGround, low
<1>10. CASE o = t
  <2>1. Order(held, pos') = Order(held, q)
    <3>1. pos' = [q EXCEPT ![t] = n] /\ held \in SUBSET Ops /\ q \in Placings /\ t \in held
      BY <1>1, <1>2, <1>4, <1>10
    <3>2. n \in Nat /\ Below(held, q, t) < n /\ n < q[t]
      BY <1>6, <1>9
    <3> QED
      BY <3>1, <3>2, PlaceSame, ZenonT(30)
  <2> QED
    BY <1>1, <1>8, <1>9, <1>10, <2>1 DEF OO!vars
<1>11. CASE o # t
  <2>1. GoesBefore(Order(held, q), o, t, Order(held', pos'))
    BY <1>1, <1>2, <1>4, <1>6, <1>9, <1>11, PlaceBefore
  <2> QED
    BY <1>1, <1>8, <1>9, <1>11, <2>1 DEF OO!InsertBefore, GoesBefore
<1> QED
  BY <1>10, <1>11

\* Block::replace_op puts the new op where the old one was.
LEMMA ReplaceMaps ==
  ASSUME IInv, NEW old \in Ops, NEW new \in Ops, Replace(old, new)
  PROVE  IInv' /\ (OO!Replace(old, new) \/ UNCHANGED OO!vars)
<1>1. /\ old \in held /\ held' = (held \ {old}) \cup {new}
      /\ pos' = [pos EXCEPT ![new] = pos[old]] /\ next' = next
  BY DEF Replace
<1>2. /\ held \in SUBSET Ops /\ pos \in Placings
      /\ next \in Nat /\ 0 < next /\ next <= MaxPosition
      /\ \A x \in held : 0 < pos[x] /\ pos[x] < next
      /\ \A x, y \in held : x # y => pos[x] # pos[y]
      /\ \A x \in Ops : pos[x] <= MaxPosition
  BY Typed DEF IInv, TypeOK
<1>3. pos' \in Placings /\ pos'[new] = pos[old] /\ \A x \in Ops \ {new} : pos'[x] = pos[x]
  BY <1>1, <1>2 DEF Placings
<1>4. IInv'
  BY <1>1, <1>2, <1>3, Invariantly
<1>5. CASE old = new
  <2>1. held' = held /\ pos' = pos
    BY <1>1, <1>2, <1>5 DEF Placings
  <2> QED
    BY <1>4, <2>1 DEF OO!vars
<1>6. CASE old # new
  <2>1. GoesFor(Order(held, pos), old, new, Order(held', pos'))
    BY <1>1, <1>2, <1>6, PlaceFor
  <2> QED
    BY <1>1, <1>4, <1>6, <2>1 DEF OO!Replace, GoesFor
<1> QED
  BY <1>5, <1>6

\* Block::remove_op, and erasing a held op, leave the others in their order.
LEMMA RemoveMaps ==
  ASSUME IInv, NEW o \in Ops, Remove(o)
  PROVE  IInv' /\ OO!Remove(o)
<1>1. o \in held /\ held' = held \ {o} /\ pos' = pos /\ next' = next
  BY DEF Remove
<1>2. held \in SUBSET Ops /\ pos \in Placings
  BY Typed
<1>3. IInv'
  BY <1>1 DEF IInv, TypeOK, PositionsSpread
<1>4. GoesAway(Order(held, pos), o, Order(held', pos))
  BY <1>1, <1>2, PlaceNone
<1> QED
  BY <1>1, <1>3, <1>4 DEF OO!Remove, GoesAway

\* Block::set_ops reads back as the order it was given.
LEMMA SetOpsMaps ==
  ASSUME IInv, NEW b, SetOps(b)
  PROVE  IInv' /\ OO!Reorder
<1>1. OO!IsOrder(held, b) /\ pos' = Spread(held, pos, b) /\ next' = NextAfter(held) /\ held' = held
  BY DEF SetOps
<1>2. /\ held \in SUBSET Ops /\ pos \in Placings
      /\ Stride \in Nat /\ Stride >= 2 /\ MaxPosition \in Nat
      /\ \A x \in Ops : pos[x] <= MaxPosition
  BY Typed DEF IInv, TypeOK
<1>3. /\ pos' \in Placings
      /\ next' \in Nat /\ next' >= Stride /\ next' < MaxPosition - 2 * Stride
      /\ \A x \in held : pos'[x] >= Stride /\ pos'[x] < next'
      /\ \A x, y \in held : x \in b[y] => pos'[x] + Stride <= pos'[y]
      /\ \A x \in Ops \ held : pos'[x] = pos[x]
  BY <1>1, <1>2, SpreadSpec, Zenon
<1>4. \A x \in Ops : pos'[x] \in Nat
  BY <1>3 DEF Placings
<1>5. \A x, y \in held : x # y => pos'[x] # pos'[y]
  <2>1. \A x, y \in held : x = y \/ x \in b[y] \/ y \in b[x]
    BY <1>1 DEF OO!IsOrder
  <2> QED
    BY <1>2, <1>3, <1>4, <2>1
<1>6. IInv'
  <2>1. \A x \in Ops : pos'[x] <= MaxPosition
    BY <1>2, <1>3, <1>4
  <2>2. \A x \in held' : 0 < pos'[x] /\ pos'[x] < next'
    BY <1>1, <1>2, <1>3, <1>4
  <2>3. held' \in SUBSET Ops /\ next' \in Nat /\ 0 < next' /\ next' <= MaxPosition
    BY <1>1, <1>2, <1>3
  <2> QED
    BY <1>1, <1>3, <1>5, <2>1, <2>2, <2>3, Invariantly
<1>7. Order(held', pos') = b
  BY <1>1, <1>2, SpreadReads
<1> QED
  BY <1>1, <1>6, <1>7 DEF OO!Reorder

-----------------------------------------------------------------------------

\* Every step keeps the invariant and is an edit of the order, or none.
LEMMA NextMaps == IInv /\ [Next]_vars => IInv' /\ [OO!Next]_(OO!vars)
<1> SUFFICES ASSUME IInv, [Next]_vars PROVE IInv' /\ [OO!Next]_(OO!vars)
  OBVIOUS
<1>1. ASSUME NEW o \in Ops, Append(o) PROVE IInv' /\ OO!Next
  BY <1>1, AppendMaps DEF OO!Next
<1>2. ASSUME NEW o \in Ops, Remove(o) PROVE IInv' /\ OO!Next
  BY <1>2, RemoveMaps DEF OO!Next
<1>3. ASSUME NEW o \in Ops, NEW t \in Ops, Insert(o, t)
      PROVE  IInv' /\ (OO!Next \/ UNCHANGED OO!vars)
  BY <1>3, InsertMaps DEF OO!Next
<1>4. ASSUME NEW o \in Ops, NEW x \in Ops, Replace(x, o)
      PROVE  IInv' /\ (OO!Next \/ UNCHANGED OO!vars)
  BY <1>4, ReplaceMaps DEF OO!Next
<1>5. ASSUME NEW b, SetOps(b) PROVE IInv' /\ OO!Next
  BY <1>5, SetOpsMaps DEF OO!Next
<1>6. CASE UNCHANGED vars
  <2>1. IInv'
    BY <1>6 DEF vars, IInv, TypeOK, PositionsSpread
  <2>2. UNCHANGED OO!vars
    BY <1>6 DEF vars, OO!vars
  <2> QED
    BY <2>1, <2>2
<1> QED
  BY <1>1, <1>2, <1>3, <1>4, <1>5, <1>6 DEF Next

\* The positions of the ops a block holds and its counter stay within a u32, for
\* every number of ops that leaves the counter room.
THEOREM BlockOrderTypeOK == Spec => []TypeOK
<1>1. IInv => TypeOK
  BY DEF IInv
<1> QED
  BY <1>1, InitMaps, NextMaps, PTL DEF Spec

\* No two ops of a block share a position and the counter is beyond them all,
\* through every renumbering.
THEOREM BlockPositionsSpread == Spec => []PositionsSpread
<1>1. IInv => PositionsSpread
  BY DEF IInv
<1> QED
  BY <1>1, InitMaps, NextMaps, PTL DEF Spec

\* The list a block reads back changes as each edit says and no other way:
\* the rows implement the order.
THEOREM BlockImplementsOpOrder == Spec => ImplementsOpOrder
BY InitMaps, NextMaps, PTL DEF Spec, ImplementsOpOrder, OO!Spec
=============================================================================
