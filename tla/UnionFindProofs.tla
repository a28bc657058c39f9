-------------------------- MODULE UnionFindProofs --------------------------
(* The forest of the union-find implements the partition, for every number *)
(* of ids and every carrier.  The inductive invariant ties every edge of   *)
(* the forest to the partition: an edge stays within a set, its delta is   *)
(* the difference of the offsets at its ends, and it points down or to a   *)
(* pinned root.                                                            *)
EXTENDS UnionFind, TLAPS

-----------------------------------------------------------------------------
(* Facts about natural numbers. *)

\* How comparisons of indices and lengths combine, for the steps that need a
\* comparison and are not otherwise about numbers.
LEMMA LessFacts ==
  \A x, y \in Nat : x < y => x <= y /\ ~(x >= y) /\ ~(y <= x) /\ x # y
OBVIOUS

LEMMA NotBelow ==
  \A x, y \in Nat : ~(x >= y) => x < y
OBVIOUS

LEMMA AtMostTransitive ==
  \A x, y, z \in Nat : (x < y /\ y <= z => x <= z) /\ (x <= y /\ y <= z => x <= z)
OBVIOUS

-----------------------------------------------------------------------------

\* What is known of one id and the edge to its parent.
Edge(i) ==
  /\ i < len => parent[i] < len
  /\ i >= len => parent[i] = i /\ ~carried[i] /\ ~pinned[i] /\ ~conflict[i]
  /\ parent[i] <= i \/ pinned[parent[i]]
  /\ pinned[i] => parent[i] = i
  /\ parent[i] = i <=> rep[i] = i
  /\ rep[parent[i]] = rep[i]
  /\ rep[rep[i]] = rep[i]
  /\ pinned[rep[i]] \/ rep[i] <= i
  /\ parent[i] = i => delta[i] = Zero /\ off[i] = Zero
  /\ off[i] = Reduce(carried[rep[i]], Plus(delta[i], off[parent[i]]))
  /\ ~carried[rep[i]] => delta[i] = Zero
  /\ ~shifted => delta[i] = Zero /\ off[i] = Zero

Forest == \A i \in Ids : Edge(i)

Flat(i) == parent[parent[i]] = parent[i]

\* Below flat_below the forest is flat; a flatten under way has still to do the
\* ids of `steps` only.
Flatness ==
  /\ pc # "flatten" => \A i \in Ids : i < flatBelow => Flat(i)
  /\ pc = "flatten" => /\ flatBelow = Nowhere
                       /\ \A i \in Ids \ steps : Flat(i)

\* Where a climb that was asked for `ask` may be.
OnTheWay(ref, ask) ==
  /\ ref.id < len
  /\ rep[ref.id] = rep[ask.id]
  /\ Reduce(carried[rep[ref.id]], Plus(ref.offset, off[ref.id])) = Placed(ask).offset
  /\ Fast(ask) => ref.offset = Zero

Climbing ==
  /\ pc \in {"idle", "flatten"} => asked = <<NoRef, NoRef>>
  /\ pc \in {"find_a", "find_b", "link"} => asked[1].id < len /\ asked[2].id < len
  /\ pc = "find_a" => OnTheWay(a, asked[1]) /\ b = asked[2]
  /\ pc = "find_b" => a = Placed(asked[1]) /\ OnTheWay(b, asked[2])
  /\ pc = "link" => a = Placed(asked[1]) /\ b = Placed(asked[2])

IInv == TypeOK /\ Forest /\ Flatness /\ Climbing

-----------------------------------------------------------------------------
\* Ids are naturals, and 0 is one of them.
LEMMA IdsFacts == Ids \subseteq Nat /\ 0 \in Ids /\ \A i \in Ids : i < MaxIds
BY MaxIdsAssumption DEF Ids

\* Positions are naturals.
LEMMA LengthsTyped == TypeOK => len \in Nat /\ flatBelow \in Nat
BY MaxIdsAssumption DEF TypeOK

\* The offset of every new edge is one.
LEMMA ZeroTyped == Zero \in Values
BY OffsetsAssumption

\* A masked offset is an offset.
LEMMA ReduceTyped ==
  ASSUME NEW c \in BOOLEAN, NEW x \in Values
  PROVE  Reduce(c, x) \in Values
BY OffsetsAssumption DEF Reduce

\* Zero is neutral on both sides.
LEMMA PlusZero == \A x \in Values : Plus(x, Zero) = x /\ Plus(Zero, x) = x
BY OffsetsAssumption

\* A shift added last is a shift added first.
LEMMA PlusSwap ==
  ASSUME NEW x \in Values, NEW y \in Values, NEW z \in Values
  PROVE  Plus(x, Plus(y, z)) = Plus(y, Plus(x, z))
<1>1. Plus(x, Plus(y, z)) = Plus(Plus(x, y), z) /\ Plus(y, Plus(x, z)) = Plus(Plus(y, x), z)
  BY OffsetsAssumption
<1>2. Plus(x, y) = Plus(y, x)
  BY OffsetsAssumption
<1> QED
  BY <1>1, <1>2

\* The offset of a reference above the parent of an edge, from one above its end.
LEMMA PlusAlong ==
  ASSUME NEW x \in Values, NEW d \in Values, NEW o \in Values, NEW c \in BOOLEAN
  PROVE  Reduce(c, Plus(Plus(x, d), o)) = Reduce(c, Plus(x, Reduce(c, Plus(d, o))))
BY OffsetsAssumption DEF Reduce

\* A representative is its own place.
LEMMA PlacedTyped ==
  ASSUME TypeOK, NEW ref \in Refs
  PROVE  Placed(ref) \in Refs
<1>1. ref.id \in Ids /\ ref.offset \in Values
  BY DEF Refs
<1>2. rep[ref.id] \in Ids /\ off[ref.id] \in Values
  BY <1>1 DEF TypeOK
<1>3. Plus(ref.offset, off[ref.id]) \in Values /\ carried[rep[ref.id]] \in BOOLEAN
  BY <1>1, <1>2, OffsetsAssumption DEF TypeOK
<1> QED
  BY <1>2, <1>3, ReduceTyped DEF Placed, Refs

-----------------------------------------------------------------------------
\* The empty forest satisfies the invariant.
LEMMA InitInv == Init => IInv
<1> SUFFICES ASSUME Init PROVE IInv
  OBVIOUS
<1>1. NoRef \in Refs
  BY IdsFacts, OffsetsAssumption DEF NoRef, Refs
<1>2. TypeOK
  <2>1. len \in 0..MaxIds /\ flatBelow \in 0..MaxIds /\ calls \in 0..MaxCalls
    BY MaxIdsAssumption, MaxCallsAssumption DEF Init, Nowhere
  <2>2. parent \in [Ids -> Ids] /\ rep \in [Ids -> Ids]
    BY DEF Init
  <2>3. delta \in [Ids -> Values] /\ off \in [Ids -> Values]
    BY ZeroTyped DEF Init
  <2>4. carried \in [Ids -> BOOLEAN] /\ pinned \in [Ids -> BOOLEAN] /\ conflict \in [Ids -> BOOLEAN]
    BY DEF Init
  <2>5. a \in Refs /\ b \in Refs /\ asked \in Refs \X Refs /\ steps \in SUBSET Ids
    BY <1>1 DEF Init
  <2>6. shifted \in BOOLEAN /\ pc \in {"idle", "find_a", "find_b", "link", "flatten"}
    BY DEF Init
  <2> QED
    BY <2>1, <2>2, <2>3, <2>4, <2>5, <2>6 DEF TypeOK
<1>3. Forest
  BY IdsFacts, PlusZero, OffsetsAssumption DEF Init, Forest, Edge, Reduce
<1>4. Flatness /\ Climbing
  BY DEF Init, Flatness, Climbing, Flat
<1> QED
  BY <1>2, <1>3, <1>4 DEF IInv

\* clear leaves the empty forest.
LEMMA ClearInv == IInv /\ Clear => IInv'
<1> SUFFICES ASSUME IInv, Clear PROVE IInv'
  OBVIOUS
<1>2. TypeOK'
  <2>1. len' \in 0..MaxIds /\ flatBelow' \in 0..MaxIds /\ calls' \in 0..MaxCalls
    BY MaxIdsAssumption, MaxCallsAssumption DEF Clear, Nowhere
  <2>2. parent' \in [Ids -> Ids] /\ rep' \in [Ids -> Ids]
    BY DEF Clear
  <2>3. delta' \in [Ids -> Values] /\ off' \in [Ids -> Values]
    BY ZeroTyped DEF Clear
  <2>4. /\ carried' \in [Ids -> BOOLEAN] /\ pinned' \in [Ids -> BOOLEAN]
        /\ conflict' \in [Ids -> BOOLEAN] /\ shifted' \in BOOLEAN
    BY DEF Clear
  <2> QED
    BY <2>1, <2>2, <2>3, <2>4 DEF TypeOK, Clear, loopvars, IInv
<1>3. Forest'
  BY IdsFacts, PlusZero, OffsetsAssumption DEF Clear, Forest, Edge, Reduce
<1>4. (Flatness /\ Climbing)'
  BY DEF IInv, Clear, Flatness, Climbing, Flat, loopvars
<1> QED
  BY <1>2, <1>3, <1>4 DEF IInv

\* Minting an id changes no edge, and no call is under way.
LEMMA PushInv == \A carrier, pin \in BOOLEAN : IInv /\ Push(carrier, pin) => IInv'
<1> SUFFICES ASSUME NEW carrier \in BOOLEAN, NEW pin \in BOOLEAN, IInv, Push(carrier, pin)
             PROVE  IInv'
  OBVIOUS
<1>1. len \in Ids /\ len' = len + 1 /\ len' \in 0..MaxIds
  BY MaxIdsAssumption DEF IInv, TypeOK, Push, Ids
<1>2. /\ carried' = [carried EXCEPT ![len] = carrier]
      /\ pinned' = [pinned EXCEPT ![len] = pin]
      /\ UNCHANGED <<parent, delta, conflict, shifted, flatBelow, rep, off, calls>>
      /\ UNCHANGED loopvars /\ pc = "idle"
  BY DEF Push
<1>3. TypeOK'
  <2>1. carried' \in [Ids -> BOOLEAN] /\ pinned' \in [Ids -> BOOLEAN]
    BY <1>2 DEF IInv, TypeOK
  <2> QED
    BY <1>1, <1>2, <2>1 DEF IInv, TypeOK, loopvars
<1>4. parent[len] = len /\ rep[len] = len
  BY <1>1, IdsFacts DEF IInv, Forest, Edge
<1>5. Forest'
  <2> SUFFICES ASSUME NEW i \in Ids PROVE Edge(i)'
    BY DEF Forest
  <2>1. Edge(i) /\ Edge(parent[i]) /\ i \in Nat /\ parent[i] \in Ids /\ rep[i] \in Ids /\ len \in Nat
    BY <1>1, IdsFacts DEF IInv, TypeOK, Forest
  <2>2. CASE i = len
    BY <1>1, <1>2, <1>4, <2>1, <2>2, PlusZero, ZeroTyped DEF Edge, IInv, TypeOK, Reduce
  <2>3. CASE i # len
    <3>1. parent[i] # len /\ rep[i] # len
      BY <1>4, <2>1, <2>3 DEF IInv, TypeOK, Forest, Edge
    <3>2. /\ carried'[i] = carried[i] /\ carried'[rep[i]] = carried[rep[i]]
          /\ pinned'[i] = pinned[i] /\ pinned'[parent[i]] = pinned[parent[i]]
          /\ pinned'[rep[i]] = pinned[rep[i]]
      BY <1>1, <1>2, <2>1, <2>3, <3>1 DEF IInv, TypeOK
    <3>3. /\ i < len' => i < len
          /\ i >= len' => i >= len
          /\ parent[i] < len => parent[i] < len'
      <4>1. len \in Nat /\ len' = len + 1 /\ i \in Nat /\ parent[i] \in Nat
        BY <1>1, <2>1, IdsFacts
      <4> QED
        BY <4>1, <2>3
    <3> QED
      BY <1>2, <2>1, <3>2, <3>3 DEF Edge
  <2> QED BY <2>2, <2>3
<1>6. (Flatness /\ Climbing)'
  BY <1>2 DEF IInv, Flatness, Climbing, Flat, loopvars
<1> QED
  BY <1>3, <1>5, <1>6 DEF IInv

\* Growing changes no edge: an id that did not exist was its own parent.
LEMMA ExtendToInv == \A n \in Extents : IInv /\ ExtendTo(n) => IInv'
<1> SUFFICES ASSUME NEW n \in Extents, IInv, ExtendTo(n)
             PROVE  IInv'
  OBVIOUS
<1>1. len \in Nat /\ len' = n /\ n \in 0..MaxIds /\ n \in Nat /\ len <= n
  BY MaxIdsAssumption, ExtentsAssumption DEF IInv, TypeOK, ExtendTo
<1>2. /\ UNCHANGED <<parent, delta, carried, pinned, conflict, shifted, flatBelow, rep, off, calls>>
      /\ UNCHANGED loopvars /\ pc = "idle"
  BY DEF ExtendTo
<1>3. TypeOK'
  BY <1>1, <1>2 DEF IInv, TypeOK, loopvars
<1>5. Forest'
  <2> SUFFICES ASSUME NEW i \in Ids PROVE Edge(i)'
    BY DEF Forest
  <2>1. Edge(i) /\ i \in Nat /\ parent[i] \in Nat
    BY IdsFacts DEF IInv, TypeOK, Forest
  <2> QED
    BY <1>1, <1>2, <2>1 DEF Edge
<1>6. (Flatness /\ Climbing)'
  BY <1>2 DEF IInv, Flatness, Climbing, Flat, loopvars
<1> QED
  BY <1>3, <1>5, <1>6 DEF IInv

\* The vectors and the history stay: the forest does.
LEMMA ForestKept ==
  ASSUME Forest, UNCHANGED ufvars, UNCHANGED <<rep, off>>
  PROVE  Forest'
BY DEF Forest, Edge, ufvars

\* A union begins at the references it was given.
LEMMA UnionInv == \A x, y \in Refs : IInv /\ Union(x, y) => IInv'
<1> SUFFICES ASSUME NEW x \in Refs, NEW y \in Refs, IInv, Union(x, y)
             PROVE  IInv'
  OBVIOUS
<1>1. TypeOK'
  <2>1. calls' \in 0..MaxCalls
    BY MaxCallsAssumption DEF IInv, TypeOK, Union
  <2> QED
    BY <2>1 DEF IInv, TypeOK, Union, ufvars
<1>2. Forest'
  BY ForestKept DEF IInv, Union
<1>3. Flatness'
  BY DEF IInv, Flatness, Flat, Union, ufvars
<1>4. Climbing'
  BY DEF Climbing, OnTheWay, Placed, Fast, Union, ufvars
<1> QED
  BY <1>1, <1>2, <1>3, <1>4 DEF IInv

\* find climbs to the representative and adds up the offset of the reference.
LEMMA ClimbOnTheWay ==
  ASSUME TypeOK, Forest, NEW ref \in Refs, NEW ask \in Refs,
         OnTheWay(ref, ask), parent[ref.id] # ref.id
  PROVE  Climbed(ref, ask) \in Refs /\ OnTheWay(Climbed(ref, ask), ask)
<1> DEFINE i == ref.id
           p == parent[i]
<1>1. i \in Ids /\ ref.offset \in Values /\ i \in Nat
  BY IdsFacts DEF Refs
<1>2. p \in Ids /\ delta[i] \in Values /\ off[p] \in Values /\ off[i] \in Values
      /\ carried[rep[i]] \in BOOLEAN
  BY <1>1 DEF TypeOK
<1>3. Edge(i)
  BY <1>1 DEF Forest
<1>4. p < len /\ rep[p] = rep[ask.id]
  BY <1>3 DEF Edge, OnTheWay
<1>5. CASE Fast(ask)
  <2>1. Climbed(ref, ask) = [id |-> p, offset |-> ref.offset] /\ ref.offset = Zero
    BY <1>5 DEF Climbed, OnTheWay
  <2>2. off[i] = Zero /\ off[p] = Zero
    <3>1. Edge(p) /\ ~shifted
      BY <1>2, <1>5 DEF Forest, Fast
    <3> QED
      BY <1>3, <3>1 DEF Edge
  <2> DEFINE up == [id |-> p, offset |-> ref.offset]
  <2>3. up \in Refs /\ up.id = p /\ up.offset = ref.offset
    BY <1>1, <1>2 DEF Refs
  <2>4. rep[p] = rep[i] /\ rep[i] = rep[ask.id]
    BY <1>3 DEF Edge, OnTheWay
  <2>5. Reduce(carried[rep[p]], Plus(ref.offset, off[p])) = Placed(ask).offset
    BY <2>2, <2>4 DEF OnTheWay
  <2> HIDE DEF up
  <2>6. OnTheWay(up, ask)
    BY <1>4, <2>1, <2>3, <2>5 DEF OnTheWay
  <2> QED
    BY <2>1, <2>3, <2>6 DEF up
<1>6. CASE ~Fast(ask)
  <2>1. Climbed(ref, ask) = [id |-> p, offset |-> Plus(ref.offset, delta[i])]
    BY <1>6 DEF Climbed
  <2>2. Plus(ref.offset, delta[i]) \in Values
    BY <1>1, <1>2, OffsetsAssumption
  <2>3. rep[p] = rep[i] /\ off[i] = Reduce(carried[rep[i]], Plus(delta[i], off[p]))
    BY <1>3 DEF Edge
  <2>4. Reduce(carried[rep[i]], Plus(Plus(ref.offset, delta[i]), off[p]))
        = Reduce(carried[rep[i]], Plus(ref.offset, off[i]))
    BY <1>1, <1>2, <2>3, PlusAlong
  <2> QED
    BY <1>2, <1>4, <1>6, <2>1, <2>2, <2>3, <2>4 DEF OnTheWay, Refs
<1> QED
  BY <1>5, <1>6

\* What find returns at a representative is the place of the reference.
LEMMA FoundPlaced ==
  ASSUME TypeOK, Forest, NEW ref \in Refs, NEW ask \in Refs,
         OnTheWay(ref, ask), parent[ref.id] = ref.id
  PROVE  Found(ref) = Placed(ask)
<1>1. ref.id \in Ids /\ ref.offset \in Values /\ Edge(ref.id)
  BY DEF Refs, Forest
<1>2. rep[ref.id] = ref.id /\ off[ref.id] = Zero
  BY <1>1 DEF Edge
<1>3. Plus(ref.offset, off[ref.id]) = ref.offset
  BY <1>1, <1>2, PlusZero
<1> QED
  BY <1>2, <1>3 DEF Found, OnTheWay, Placed

\* The first find of a union.
LEMMA FindAInv == IInv /\ FindA => IInv'
<1> SUFFICES ASSUME IInv, FindA PROVE IInv'
  OBVIOUS
<1>1. /\ pc = "find_a" /\ a \in Refs /\ b \in Refs /\ asked[1] \in Refs /\ asked[2] \in Refs
      /\ TypeOK /\ Forest /\ OnTheWay(a, asked[1]) /\ b = asked[2]
      /\ asked[1].id < len /\ asked[2].id < len
  BY DEF IInv, TypeOK, Climbing, FindA
<1>2. /\ UNCHANGED ufvars /\ UNCHANGED <<rep, off>>
      /\ UNCHANGED <<b, asked, steps, calls>>
  BY DEF FindA
<1>3. Forest'
  BY <1>1, <1>2, ForestKept
<1>4. Placed(asked[1]) \in Refs
  BY <1>1, PlacedTyped
<1>5. CASE parent[a.id] # a.id
  <2>1. a' = Climbed(a, asked[1]) /\ pc' = pc
    BY <1>5 DEF FindA
  <2>2. a' \in Refs /\ OnTheWay(a', asked[1])
    BY <1>1, <1>5, <2>1, ClimbOnTheWay
  <2>3. TypeOK'
    BY <1>2, <2>1, <2>2 DEF IInv, TypeOK, ufvars
  <2>4. Climbing'
    BY <1>1, <1>2, <2>1, <2>2 DEF Climbing, OnTheWay, Placed, Fast, ufvars
  <2>5. Flatness'
    BY <1>2, <2>1 DEF IInv, Flatness, Flat, ufvars
  <2> QED
    BY <1>3, <2>3, <2>4, <2>5 DEF IInv
<1>6. CASE parent[a.id] = a.id
  <2>1. a' = Found(a) /\ pc' = "find_b"
    BY <1>6 DEF FindA
  <2>2. a' = Placed(asked[1])
    BY <1>1, <1>6, <2>1, FoundPlaced
  <2>3. TypeOK'
    BY <1>2, <1>4, <2>1, <2>2 DEF IInv, TypeOK, ufvars
  <2>4. OnTheWay(b, asked[2])
    BY <1>1 DEF OnTheWay, Placed, Fast
  <2>5. Climbing'
    BY <1>1, <1>2, <2>1, <2>2, <2>4 DEF Climbing, OnTheWay, Placed, Fast, ufvars
  <2>6. Flatness'
    BY <1>1, <1>2, <2>1 DEF IInv, Flatness, Flat, ufvars
  <2> QED
    BY <1>3, <2>3, <2>5, <2>6 DEF IInv
<1> QED
  BY <1>5, <1>6

\* The second find of a union.
LEMMA FindBInv == IInv /\ FindB => IInv'
<1> SUFFICES ASSUME IInv, FindB PROVE IInv'
  OBVIOUS
<1>1. /\ pc = "find_b" /\ a \in Refs /\ b \in Refs /\ asked[1] \in Refs /\ asked[2] \in Refs
      /\ TypeOK /\ Forest /\ OnTheWay(b, asked[2]) /\ a = Placed(asked[1])
      /\ asked[1].id < len /\ asked[2].id < len
  BY DEF IInv, TypeOK, Climbing, FindB
<1>2. /\ UNCHANGED ufvars /\ UNCHANGED <<rep, off>>
      /\ UNCHANGED <<a, asked, steps, calls>>
  BY DEF FindB
<1>3. Forest'
  BY <1>1, <1>2, ForestKept
<1>4. Placed(asked[2]) \in Refs
  BY <1>1, PlacedTyped
<1>5. CASE parent[b.id] # b.id
  <2>1. b' = Climbed(b, asked[2]) /\ pc' = pc
    BY <1>5 DEF FindB
  <2>2. b' \in Refs /\ OnTheWay(b', asked[2])
    BY <1>1, <1>5, <2>1, ClimbOnTheWay
  <2>3. TypeOK'
    BY <1>2, <2>1, <2>2 DEF IInv, TypeOK, ufvars
  <2>4. Climbing'
    BY <1>1, <1>2, <2>1, <2>2 DEF Climbing, OnTheWay, Placed, Fast, ufvars
  <2>5. Flatness'
    BY <1>2, <2>1 DEF IInv, Flatness, Flat, ufvars
  <2> QED
    BY <1>3, <2>3, <2>4, <2>5 DEF IInv
<1>6. CASE parent[b.id] = b.id
  <2>1. b' = Found(b) /\ pc' = "link"
    BY <1>6 DEF FindB
  <2>2. b' = Placed(asked[2])
    BY <1>1, <1>6, <2>1, FoundPlaced
  <2>3. TypeOK'
    BY <1>2, <1>4, <2>1, <2>2 DEF IInv, TypeOK, ufvars
  <2>5. Climbing'
    BY <1>1, <1>2, <2>1, <2>2 DEF Climbing, Placed, ufvars
  <2>6. Flatness'
    BY <1>1, <1>2, <2>1 DEF IInv, Flatness, Flat, ufvars
  <2> QED
    BY <1>3, <2>3, <2>5, <2>6 DEF IInv
<1> QED
  BY <1>5, <1>6

\* The places of the references that union was asked for are two representatives.
LEMMA PlacedIsRoot ==
  ASSUME TypeOK, Forest, NEW x \in Refs, x.id < len
  PROVE  LET r == Placed(x).id IN r \in Ids /\ r < len /\ parent[r] = r /\ rep[r] = r
<1> DEFINE i == x.id
           r == rep[i]
<1>1. i \in Ids /\ Placed(x).id = r
  BY DEF Refs, Placed
<1>2. r \in Ids /\ len \in Nat
  BY <1>1, MaxIdsAssumption DEF TypeOK
<1>3. Edge(i) /\ Edge(r)
  BY <1>1, <1>2 DEF Forest
<1>4. rep[r] = r /\ parent[r] = r
  BY <1>2, <1>3 DEF Edge
<1>5. r < len
  <2>1. i \in Nat /\ r \in Nat
    BY <1>1, <1>2, IdsFacts
  <2>2. r >= len => ~pinned[r]
    BY <1>3 DEF Edge
  <2>3. pinned[r] \/ r <= i
    BY <1>3 DEF Edge
  <2> QED
    BY <1>2, <2>1, <2>2, <2>3
<1> QED
  BY <1>1, <1>2, <1>4, <1>5

\* What both references have come to when union compares them.
LEMMA AtTheLink ==
  ASSUME IInv, pc = "link"
  PROVE  /\ a \in Refs /\ b \in Refs
         /\ \A r \in {a.id, b.id} : r \in Ids /\ r < len /\ parent[r] = r /\ rep[r] = r
<1>1. /\ TypeOK /\ Forest /\ asked[1] \in Refs /\ asked[2] \in Refs
      /\ asked[1].id < len /\ asked[2].id < len
      /\ a = Placed(asked[1]) /\ b = Placed(asked[2]) /\ a \in Refs /\ b \in Refs
  BY DEF IInv, TypeOK, Climbing
<1> QED
  BY <1>1, PlacedIsRoot

\* The references are already equal.
LEMMA SameInv == IInv /\ Same => IInv'
<1> SUFFICES ASSUME IInv, Same PROVE IInv'
  OBVIOUS
<1>1. NoRef \in Refs
  BY IdsFacts, ZeroTyped DEF NoRef, Refs
<1>2. TypeOK'
  BY <1>1 DEF IInv, TypeOK, Same, Return, ufvars
<1>3. Forest'
  BY ForestKept DEF IInv, Same
<1>4. (Flatness /\ Climbing)'
  BY DEF IInv, Flatness, Flat, Climbing, Same, Return, ufvars
<1> QED
  BY <1>2, <1>3, <1>4 DEF IInv

\* A contradiction marks representatives and merges nothing.
LEMMA ContradictionInv == IInv /\ Contradiction => IInv'
<1> SUFFICES ASSUME IInv, Contradiction PROVE IInv'
  OBVIOUS
<1>1. NoRef \in Refs
  BY IdsFacts, ZeroTyped DEF NoRef, Refs
<1>2. /\ pc = "link" /\ pc' = "idle" /\ a' = NoRef /\ b' = NoRef /\ asked' = <<NoRef, NoRef>>
      /\ UNCHANGED <<len, parent, delta, carried, pinned, shifted, flatBelow, rep, off>>
      /\ UNCHANGED <<steps, calls>>
      /\ conflict' = [conflict EXCEPT ![a.id] = TRUE, ![b.id] = TRUE]
  BY DEF Contradiction, Return
<1>3. TypeOK'
  <2>1. conflict' \in [Ids -> BOOLEAN]
    BY <1>2 DEF IInv, TypeOK
  <2> QED
    BY <1>1, <1>2, <2>1 DEF IInv, TypeOK
<1>4. Forest'
  <2> SUFFICES ASSUME NEW i \in Ids PROVE Edge(i)'
    BY DEF Forest
  <2>1. Edge(i) /\ i \in Nat /\ len \in Nat
    BY IdsFacts, MaxIdsAssumption DEF IInv, TypeOK, Forest
  <2>2. a.id < len /\ b.id < len /\ a.id \in Nat /\ b.id \in Nat
    BY <1>2, AtTheLink, IdsFacts
  <2>3. i >= len => conflict'[i] = conflict[i]
    <3>1. conflict \in [Ids -> BOOLEAN]
      BY DEF IInv, TypeOK
    <3>2. i >= len => i # a.id /\ i # b.id
      BY <2>1, <2>2
    <3> QED
      BY <1>2, <3>1, <3>2
  <2> QED
    BY <1>2, <2>1, <2>3 DEF Edge
<1>5. (Flatness /\ Climbing)'
  BY <1>2 DEF IInv, Flatness, Flat, Climbing
<1> QED
  BY <1>3, <1>4, <1>5 DEF IInv

\* Merging two sets: the absorbed representative becomes a child of the survivor.
LEMMA MergeForest ==
  ASSUME TypeOK, Forest, NEW s \in Refs, NEW t \in Refs, s.id # t.id,
         s.id < len, parent[s.id] = s.id, rep[s.id] = s.id,
         t.id < len, parent[t.id] = t.id, rep[t.id] = t.id,
         ~pinned[t.id], pinned[s.id] \/ s.id < t.id,
         Merge(s, t)
  PROVE  /\ Forest'
         /\ delta' \in [Ids -> Values] /\ off' \in [Ids -> Values]
<1> DEFINE mask == carried[s.id] \/ carried[t.id]
           shift == Reduce(mask, Minus(s.offset, t.offset))
<1>1. /\ parent' = [parent EXCEPT ![t.id] = s.id]
      /\ delta' = [delta EXCEPT ![t.id] = shift]
      /\ carried' = [carried EXCEPT ![s.id] = mask]
      /\ conflict' = [conflict EXCEPT ![s.id] = conflict[s.id] \/ conflict[t.id]]
      /\ shifted' = (shifted \/ shift # Zero)
      /\ rep' = [i \in Ids |-> IF i < len /\ rep[i] = t.id THEN s.id ELSE rep[i]]
      /\ off' = [i \in Ids |-> IF i < len /\ rep[i] = t.id
                               THEN Reduce(mask, Plus(shift, off[i])) ELSE off[i]]
      /\ len' = len /\ pinned' = pinned
  BY DEF Merge
<1>2. s.id \in Ids /\ t.id \in Ids /\ mask \in BOOLEAN
  BY DEF Refs, TypeOK
<1>3. shift \in Values /\ (~mask => shift = Zero)
  <2>1. Minus(s.offset, t.offset) \in Values
    BY OffsetsAssumption DEF Refs
  <2> QED
    BY <1>2, <2>1, ReduceTyped DEF Reduce
<1> HIDE DEF mask, shift
<1>4. \A i \in Ids : Reduce(mask, Plus(shift, off[i])) \in Values
  <2> SUFFICES ASSUME NEW i \in Ids PROVE Reduce(mask, Plus(shift, off[i])) \in Values
    OBVIOUS
  <2>1. off[i] \in Values
    BY DEF TypeOK
  <2>2. Plus(shift, off[i]) \in Values
    BY <1>3, <2>1, OffsetsAssumption
  <2> QED
    BY <1>2, <2>2, ReduceTyped
<1>5. delta' \in [Ids -> Values] /\ off' \in [Ids -> Values]
  BY <1>1, <1>3, <1>4 DEF TypeOK
<1>6. off[s.id] = Zero /\ off[t.id] = Zero
  BY <1>2 DEF Forest, Edge
<1>7. Forest'
  <2> SUFFICES ASSUME NEW i \in Ids PROVE Edge(i)'
    BY DEF Forest
  <2> DEFINE p == parent[i]
  <2>1. /\ p \in Ids /\ rep[i] \in Ids /\ i \in Nat /\ p \in Nat /\ rep[i] \in Nat
        /\ s.id \in Nat /\ t.id \in Nat /\ len \in Nat
        /\ delta[i] \in Values /\ off[i] \in Values /\ off[p] \in Values
    <3>1. p \in Ids /\ rep[i] \in Ids /\ len \in Nat
      BY MaxIdsAssumption DEF TypeOK
    <3>2. delta[i] \in Values /\ off[i] \in Values /\ off[p] \in Values
      BY <3>1 DEF TypeOK
    <3> QED
      BY <1>2, <3>1, <3>2, IdsFacts
  <2>2. Edge(i) /\ Edge(p)
    BY <2>1 DEF Forest
  <2>3. ASSUME rep[i] = t.id PROVE i < len /\ p < len
    <3>1. ~(t.id >= len)
      BY <2>1, LessFacts, Zenon
    <3>2. ~(i >= len)
      BY <2>2, <2>3, <3>1, Zenon DEF Edge
    <3>3. i < len
      BY <2>1, <3>2, NotBelow, Zenon
    <3> QED BY <2>2, <3>3, Zenon DEF Edge
  <2>4. rep'[s.id] = s.id /\ rep'[t.id] = s.id /\ off'[s.id] = Zero
    BY <1>1, <1>2, <1>6
  <2>5. CASE rep[i] # t.id
    <3>1. i # t.id /\ p # t.id /\ rep[p] # t.id
      BY <2>2, <2>5 DEF Edge
    <3>2. /\ parent'[i] = p /\ delta'[i] = delta[i] /\ rep'[i] = rep[i] /\ off'[i] = off[i]
          /\ off'[p] = off[p] /\ rep'[p] = rep[i] /\ rep'[rep[i]] = rep[i]
      BY <1>1, <2>1, <2>2, <2>5, <3>1 DEF TypeOK, Edge
    <3>3. i >= len => carried'[i] = carried[i] /\ conflict'[i] = conflict[i]
      BY <1>1, <1>2, <2>1 DEF TypeOK
    <3>4. ~carried[rep[i]] => delta[i] = Zero /\ off[i] = Zero /\ off[p] = Zero
      BY <2>2 DEF Edge, Reduce
    <3>5. carried'[rep[i]] # carried[rep[i]] => ~carried[rep[i]]
      <4>1. CASE rep[i] = s.id
        BY <1>1, <1>2, <4>1 DEF TypeOK, mask
      <4>2. CASE rep[i] # s.id
        BY <1>1, <1>2, <2>1, <4>2 DEF TypeOK
      <4> QED BY <4>1, <4>2
    <3>6. off[i] = Reduce(carried'[rep[i]], Plus(delta[i], off[p]))
      <4>1. CASE ~carried[rep[i]]
        BY <3>4, <4>1, PlusZero, ZeroTyped DEF Reduce
      <4>2. CASE carried'[rep[i]] = carried[rep[i]]
        BY <2>2, <4>2 DEF Edge
      <4> QED BY <3>5, <4>1, <4>2
    <3>7. ~carried'[rep[i]] => delta[i] = Zero
      BY <2>2, <3>4, <3>5 DEF Edge
    <3>8. ~shifted' => ~shifted
      BY <1>1
    <3> QED
      BY <1>1, <2>1, <2>2, <3>2, <3>3, <3>6, <3>7, <3>8 DEF Edge
  <2>6. CASE rep[i] = t.id /\ i # t.id
    <3>1. p # i /\ rep[p] = t.id /\ i # s.id /\ i < len /\ p < len /\ ~pinned[i]
      BY <2>2, <2>3, <2>6 DEF Edge
    <3>2. /\ parent'[i] = p /\ delta'[i] = delta[i] /\ rep'[i] = s.id
          /\ off'[i] = Reduce(mask, Plus(shift, off[i]))
          /\ off'[p] = Reduce(mask, Plus(shift, off[p])) /\ rep'[p] = s.id
          /\ carried'[s.id] = mask
      BY <1>1, <1>2, <2>1, <2>6, <3>1 DEF TypeOK
    <3>3. ~carried[t.id] => delta[i] = Zero /\ off[i] = Zero /\ off[p] = Zero
      BY <2>2, <2>6 DEF Edge, Reduce
    <3>4. off'[i] = Reduce(mask, Plus(delta[i], off'[p]))
      <4>1. CASE ~mask
        BY <3>2, <4>1 DEF Reduce
      <4>2. CASE mask /\ ~carried[t.id]
        BY <1>3, <3>2, <3>3, <4>2, PlusZero, ZeroTyped DEF Reduce
      <4>3. CASE mask /\ carried[t.id]
        <5>1. off[i] = Plus(delta[i], off[p])
          BY <2>2, <2>6, <4>3 DEF Edge, Reduce
        <5>2. Plus(shift, Plus(delta[i], off[p])) = Plus(delta[i], Plus(shift, off[p]))
          BY <1>3, <2>1, PlusSwap
        <5> QED
          BY <3>2, <4>3, <5>1, <5>2 DEF Reduce
      <4> QED BY <4>1, <4>2, <4>3
    <3>5. ~shifted' => delta[i] = Zero /\ off'[i] = Zero
      BY <1>1, <2>2, <3>2, PlusZero, ZeroTyped DEF Edge, Reduce
    <3>6. ~mask => delta[i] = Zero
      BY <3>3 DEF mask
    <3>7. pinned[s.id] \/ s.id <= i
      <4>1. t.id <= i
        BY <2>2, <2>6, Zenon DEF Edge
      <4>2. s.id < t.id => s.id <= i
        BY <2>1, <4>1, AtMostTransitive, Zenon
      <4> QED BY <4>2, Zenon
    <3>8. p <= i \/ pinned[p]
      BY <2>2 DEF Edge
    <3>9. i < len' /\ ~(i >= len') /\ parent'[i] < len'
      <4>1. parent'[i] = p /\ len' = len
        BY <1>1, <3>2
      <4>2. ~(i >= len)
        BY <2>1, <3>1, LessFacts, Zenon
      <4> QED BY <3>1, <4>1, <4>2, Zenon
    <3>10. parent'[i] <= i \/ pinned'[parent'[i]]
      BY <1>1, <3>2, <3>8
    <3>11. ~pinned'[i] /\ parent'[i] # i /\ rep'[i] # i
      BY <1>1, <3>1, <3>2
    <3>12. rep'[parent'[i]] = rep'[i] /\ rep'[rep'[i]] = rep'[i]
      BY <2>4, <3>2
    <3>13. pinned'[rep'[i]] \/ rep'[i] <= i
      BY <1>1, <3>2, <3>7
    <3>14. /\ off'[i] = Reduce(carried'[rep'[i]], Plus(delta'[i], off'[parent'[i]]))
           /\ ~carried'[rep'[i]] => delta'[i] = Zero
           /\ ~shifted' => delta'[i] = Zero /\ off'[i] = Zero
      BY <3>2, <3>4, <3>5, <3>6
    <3> QED
      BY <3>9, <3>10, <3>11, <3>12, <3>13, <3>14 DEF Edge
  <2>7. CASE i = t.id
    <3>1. /\ parent'[i] = s.id /\ delta'[i] = shift /\ rep'[i] = s.id
          /\ off'[i] = Reduce(mask, Plus(shift, Zero)) /\ carried'[s.id] = mask
      BY <1>1, <1>2, <1>6, <2>7 DEF TypeOK
    <3>2. Plus(shift, Zero) = shift
      BY <1>3, PlusZero
    <3>3. ~shifted' => shift = Zero /\ off'[i] = Zero
      BY <1>1, <3>1, <3>2 DEF Reduce
    <3>4. pinned[s.id] \/ s.id <= i
      <4>1. s.id < t.id => s.id <= i
        BY <2>1, <2>7, LessFacts, Zenon
      <4> QED BY <4>1, Zenon
    <3>5. i < len' /\ ~(i >= len') /\ parent'[i] < len'
      <4>1. parent'[i] = s.id /\ len' = len
        BY <1>1, <3>1
      <4>2. ~(t.id >= len)
        BY <2>1, LessFacts, Zenon
      <4> QED BY <2>7, <4>1, <4>2, Zenon
    <3>6. parent'[i] <= i \/ pinned'[parent'[i]]
      BY <1>1, <3>1, <3>4
    <3>7. ~pinned'[i] /\ parent'[i] # i /\ rep'[i] # i
      BY <1>1, <2>7, <3>1
    <3>8. rep'[parent'[i]] = rep'[i] /\ rep'[rep'[i]] = rep'[i]
      BY <2>4, <3>1
    <3>9. pinned'[rep'[i]] \/ rep'[i] <= i
      BY <1>1, <3>1, <3>4
    <3>10. /\ off'[i] = Reduce(carried'[rep'[i]], Plus(delta'[i], off'[parent'[i]]))
           /\ ~carried'[rep'[i]] => delta'[i] = Zero
           /\ ~shifted' => delta'[i] = Zero /\ off'[i] = Zero
      BY <1>3, <2>4, <3>1, <3>3
    <3> QED
      BY <3>5, <3>6, <3>7, <3>8, <3>9, <3>10 DEF Edge
  <2> QED
    BY <2>5, <2>6, <2>7
<1> QED
  BY <1>5, <1>7

\* Link merges the set of the larger representative, or of the one that is no
\* zero, into the other.
LEMMA LinkInv == IInv /\ Link => IInv'
<1> SUFFICES ASSUME NEW s \in {a, b}, NEW t \in {a, b}, s.id # t.id,
                    ~pinned[t.id], pinned[s.id] \/ s.id < t.id, Merge(s, t),
                    IInv, pc = "link", Return
             PROVE  IInv'
  <2> SUFFICES ASSUME IInv, Link PROVE IInv'
    OBVIOUS
  <2>1. pc = "link" /\ Return /\ a.id # b.id /\ ~(pinned[a.id] /\ pinned[b.id])
    BY DEF Link
  <2>2. CASE (pinned[a.id] \/ (~pinned[b.id] /\ a.id < b.id)) /\ Merge(a, b)
    BY <2>1, <2>2
  <2>3. CASE ~(pinned[a.id] \/ (~pinned[b.id] /\ a.id < b.id)) /\ Merge(b, a)
    <3>1. a.id \in Nat /\ b.id \in Nat
      BY <2>1, AtTheLink, IdsFacts
    <3>2. pinned[b.id] \/ b.id < a.id
      BY <2>1, <2>3, <3>1
    <3> QED
      BY <2>1, <2>3, <3>2
  <2> QED
    BY <2>2, <2>3 DEF Link
<1>1. /\ s \in Refs /\ t \in Refs
      /\ s.id \in Ids /\ s.id < len /\ parent[s.id] = s.id /\ rep[s.id] = s.id
      /\ t.id \in Ids /\ t.id < len /\ parent[t.id] = t.id /\ rep[t.id] = t.id
  BY AtTheLink
<1>2. TypeOK /\ Forest
  BY DEF IInv
<1>3. Forest' /\ delta' \in [Ids -> Values] /\ off' \in [Ids -> Values]
  BY <1>1, <1>2, MergeForest
<1>4. NoRef \in Refs
  BY IdsFacts, ZeroTyped DEF NoRef, Refs
<1>5. TypeOK'
  <2>1. parent' \in [Ids -> Ids] /\ rep' \in [Ids -> Ids]
    BY <1>1, <1>2 DEF Merge, TypeOK
  <2>2. carried' \in [Ids -> BOOLEAN] /\ conflict' \in [Ids -> BOOLEAN]
    BY <1>1, <1>2 DEF Merge, TypeOK
  <2>3. flatBelow' \in 0..MaxIds
    <3>1. t.id \in 0..MaxIds
      BY <1>1, MaxIdsAssumption DEF Ids
    <3> QED
      BY <1>2, <3>1 DEF Merge, TypeOK
  <2>4. shifted' \in BOOLEAN /\ len' = len /\ pinned' = pinned
    BY DEF Merge
  <2> QED
    BY <1>2, <1>3, <1>4, <2>1, <2>2, <2>3, <2>4 DEF TypeOK, Return
<1>6. Flatness'
  <2>1. pc' = "idle"
    BY DEF Return
  <2> SUFFICES ASSUME NEW i \in Ids, i < flatBelow' PROVE Flat(i)'
    BY <2>1 DEF Flatness
  <2>2. i \in Nat /\ parent[i] \in Ids /\ t.id \in Nat /\ flatBelow \in Nat
    <3>1. parent[i] \in Ids
      BY <1>2 DEF TypeOK
    <3> QED
      BY <1>1, <1>2, <3>1, IdsFacts, LengthsTyped
  <2>3. i < t.id /\ i < flatBelow
    BY <2>2 DEF Merge
  <2>4. Flat(i) /\ Edge(i)
    BY <1>2, <2>3 DEF IInv, Flatness, Forest
  <2>5. parent[i] # t.id
    <3>1. ~pinned[t.id] /\ ~(t.id <= i)
      BY <1>1, <2>2, <2>3, LessFacts, Zenon
    <3> QED BY <2>4, <3>1, Zenon DEF Edge
  <2>6. parent'[i] = parent[i] /\ parent'[parent[i]] = parent[parent[i]]
    BY <1>1, <1>2, <2>2, <2>3, <2>5 DEF Merge, TypeOK
  <2> QED
    BY <2>4, <2>6 DEF Flat
<1>7. Climbing'
  BY DEF Climbing, Return
<1> QED
  BY <1>3, <1>5, <1>6, <1>7 DEF IInv

\* flatten lists every id that is not flat.
LEMMA FlattenInv == IInv /\ Flatten => IInv'
<1> SUFFICES ASSUME IInv, Flatten PROVE IInv'
  OBVIOUS
<1>1. /\ pc = "idle" /\ pc' = "flatten" /\ flatBelow' = Nowhere
      /\ steps' = {i \in Ids : flatBelow <= i /\ i < len /\ parent[parent[i]] # parent[i]}
      /\ UNCHANGED <<len, parent, delta, carried, pinned, conflict, shifted, rep, off>>
      /\ UNCHANGED <<a, b, asked, calls>>
  BY DEF Flatten
<1>2. TypeOK'
  <2>1. flatBelow' \in 0..MaxIds
    BY <1>1, MaxIdsAssumption DEF Nowhere
  <2> QED
    BY <1>1, <2>1 DEF IInv, TypeOK
<1>3. Forest'
  BY <1>1 DEF IInv, Forest, Edge
<1>4. Flatness'
  <2> SUFFICES ASSUME NEW i \in Ids, i \notin steps' PROVE Flat(i)
    BY <1>1 DEF Flatness, Flat
  <2>1. i \in Nat /\ len \in Nat /\ flatBelow \in Nat /\ Edge(i)
    BY IdsFacts, MaxIdsAssumption DEF IInv, TypeOK, Forest
  <2>2. i < flatBelow \/ i >= len \/ parent[parent[i]] = parent[i]
    BY <1>1, <2>1
  <2> QED
    BY <1>1, <2>1, <2>2 DEF IInv, Flatness, Flat, Edge
<1>5. Climbing'
  BY <1>1 DEF Climbing, IInv
<1> QED
  BY <1>2, <1>3, <1>4, <1>5 DEF IInv

\* The grandparent that a step of flatten takes is a representative: the parent
\* was done before, or it is a zero, or the id was a representative itself.
LEMMA GrandparentIsRoot ==
  ASSUME IInv, NEW i \in Ids, FlattenStep(i)
  PROVE  LET root == parent[parent[i]]
         IN  /\ root \in Ids /\ parent[root] = root /\ rep[root] = root /\ rep[i] = root
             /\ rep[parent[i]] = root
<1> DEFINE p == parent[i]
           root == parent[p]
<1>1. p \in Ids /\ root \in Ids /\ i \in Nat /\ p \in Nat
  BY IdsFacts DEF IInv, TypeOK
<1>2. Edge(i) /\ Edge(p) /\ Edge(root)
  BY <1>1 DEF IInv, Forest
<1>3. parent[root] = root
  <2>1. CASE p \notin steps
    BY <1>1, <2>1 DEF IInv, Flatness, Flat, FlattenStep
  <2>2. CASE p \in steps
    <3>1. i <= p
      BY <2>2 DEF FlattenStep
    <3>2. p = i \/ pinned[p]
      <4>1. p <= i => p = i
        BY <1>1, <3>1
      <4> QED BY <1>2, <4>1 DEF Edge
    <3> QED
      BY <1>2, <3>2 DEF Edge
  <2> QED
    BY <2>1, <2>2
<1> QED
  BY <1>1, <1>2, <1>3 DEF Edge

\* A step of flatten points one id at its representative.
LEMMA FlattenStepInv == \A i \in Ids : IInv /\ FlattenStep(i) => IInv'
<1> SUFFICES ASSUME NEW i \in Ids, IInv, FlattenStep(i) PROVE IInv'
  OBVIOUS
<1> DEFINE p == parent[i]
           root == parent[p]
           sum == Reduce(carried[root], Plus(delta[i], delta[p]))
<1>1. /\ root \in Ids /\ parent[root] = root /\ rep[root] = root /\ rep[i] = root /\ rep[p] = root
  BY GrandparentIsRoot
<1>2. /\ pc = "flatten" /\ steps' = steps \ {i}
      /\ parent' = [parent EXCEPT ![i] = root]
      /\ delta' = IF shifted THEN [delta EXCEPT ![i] = sum] ELSE delta
      /\ UNCHANGED <<len, carried, pinned, conflict, shifted, flatBelow, pc, a, b, asked, calls, rep, off>>
  BY DEF FlattenStep
<1>3. /\ p \in Ids /\ delta[i] \in Values /\ delta[p] \in Values /\ carried[root] \in BOOLEAN
      /\ Edge(i) /\ Edge(p) /\ Edge(root)
  BY <1>1 DEF IInv, TypeOK, Forest
<1>4. sum \in Values
  <2>1. Plus(delta[i], delta[p]) \in Values
    BY <1>3, OffsetsAssumption
  <2> QED
    BY <1>3, <2>1, ReduceTyped
<1>5. off[root] = Zero /\ (shifted => off[i] = sum)
  <2>1. off[root] = Zero
    BY <1>1, <1>3 DEF Edge
  <2>2. off[p] = Reduce(carried[root], delta[p])
    BY <1>1, <1>3, <2>1, PlusZero DEF Edge
  <2>3. off[i] = Reduce(carried[root], Plus(delta[i], off[p]))
    BY <1>1, <1>3 DEF Edge
  <2> QED
    BY <2>1, <2>2, <2>3 DEF Reduce
<1>6. TypeOK'
  <2>1. parent' \in [Ids -> Ids]
    BY <1>1, <1>2 DEF IInv, TypeOK
  <2>2. delta' \in [Ids -> Values]
    BY <1>2, <1>4 DEF IInv, TypeOK
  <2> QED
    BY <1>2, <2>1, <2>2 DEF IInv, TypeOK
<1>7. parent'[i] = root /\ \A j \in Ids \ {i} : parent'[j] = parent[j] /\ delta'[j] = delta[j]
  BY <1>2 DEF IInv, TypeOK
<1>8. delta'[i] = IF shifted THEN sum ELSE delta[i]
  BY <1>2 DEF IInv, TypeOK
<1> HIDE DEF sum
<1>9. Forest'
  <2> SUFFICES ASSUME NEW j \in Ids PROVE Edge(j)'
    BY DEF Forest
  <2>1. Edge(j)
    BY DEF IInv, Forest
  <2>2. CASE j # i
    BY <1>2, <1>7, <2>1, <2>2 DEF Edge
  <2>3. CASE j = i
    <3>1. i \in Nat /\ p \in Nat /\ root \in Nat /\ len \in Nat
      BY <1>1, <1>3, IdsFacts, LengthsTyped DEF IInv
    <3>2. root <= i \/ pinned[root]
      <4>1. root <= p /\ p <= i => root <= i
        BY <3>1
      <4>2. pinned[p] => root = p
        BY <1>3 DEF Edge
      <4> QED BY <1>3, <4>1, <4>2 DEF Edge
    <3>3. i < len => root < len
      BY <1>3, <3>1 DEF Edge
    <3>4. root = i <=> rep[i] = i
      BY <1>1
    <3>5. p = i => root = i
      OBVIOUS
    <3>6. off[i] = Reduce(carried[root], Plus(delta'[i], off[root]))
      <4>1. delta'[i] \in Values
        BY <1>3, <1>4, <1>8
      <4>2. Plus(delta'[i], off[root]) = delta'[i]
        BY <1>5, <4>1, PlusZero
      <4>3. CASE shifted
        BY <1>5, <1>8, <4>2, <4>3 DEF sum, Reduce
      <4>4. CASE ~shifted
        BY <1>3, <1>8, <4>2, <4>4 DEF Edge, Reduce
      <4> QED BY <4>3, <4>4
    <3>7. ~carried[root] => delta'[i] = Zero
      BY <1>1, <1>3, <1>8 DEF sum, Reduce, Edge
    <3>8. root = i => delta'[i] = Zero /\ off[i] = Zero
      BY <1>1, <1>3, <1>5, <1>8 DEF Edge
    <3>9. ~shifted => delta'[i] = Zero /\ off[i] = Zero
      BY <1>3, <1>8 DEF Edge
    <3>10. (i >= len => root = i) /\ (pinned[i] => root = i)
      BY <1>3 DEF Edge
    <3> QED
      BY <1>1, <1>2, <1>7, <2>1, <2>3, <3>2, <3>3, <3>4, <3>6, <3>7, <3>8, <3>9, <3>10 DEF Edge
  <2> QED
    BY <2>2, <2>3
<1>10. Flatness'
  <2> SUFFICES ASSUME NEW j \in Ids, j \notin steps' PROVE Flat(j)'
    BY <1>2 DEF IInv, Flatness
  <2>1. CASE j = i
    BY <1>1, <1>7, <2>1 DEF Flat
  <2>2. CASE j # i
    <3>1. Flat(j) /\ parent[j] \in Ids
      BY <1>2, <2>2 DEF IInv, Flatness, TypeOK
    <3>2. parent[j] = i => root = i
      BY <3>1 DEF Flat
    <3> QED
      BY <1>7, <2>2, <3>1, <3>2 DEF Flat
  <2> QED BY <2>1, <2>2
<1>11. Climbing'
  BY <1>2 DEF Climbing, IInv
<1> QED
  BY <1>6, <1>9, <1>10, <1>11 DEF IInv

\* flatten ends with every id flat.
LEMMA FlattenDoneInv == IInv /\ FlattenDone => IInv'
<1> SUFFICES ASSUME IInv, FlattenDone PROVE IInv'
  OBVIOUS
<1>1. TypeOK'
  BY DEF IInv, TypeOK, FlattenDone, ufvars
<1>2. Forest'
  BY ForestKept DEF IInv, FlattenDone
<1>3. Flatness' /\ Climbing'
  BY DEF IInv, Flatness, Flat, Climbing, FlattenDone, ufvars
<1> QED
  BY <1>1, <1>2, <1>3 DEF IInv

\* A stuttering step.
LEMMA StutterInv == IInv /\ UNCHANGED vars => IInv'
<1> SUFFICES ASSUME IInv, UNCHANGED vars PROVE IInv'
  OBVIOUS
<1>1. UNCHANGED ufvars /\ UNCHANGED loopvars /\ UNCHANGED <<calls, rep, off>>
  BY DEF vars
<1>2. TypeOK'
  BY <1>1 DEF IInv, TypeOK, ufvars, loopvars
<1>3. Forest'
  BY <1>1, ForestKept DEF IInv
<1>4. Flatness' /\ Climbing'
  BY <1>1 DEF IInv, Flatness, Flat, Climbing, OnTheWay, Placed, Fast, ufvars, loopvars
<1> QED
  BY <1>2, <1>3, <1>4 DEF IInv

\* The forest, its flatness and every climb stay in step with the partition.
THEOREM ForestInvariant == Spec => []IInv
<1>1. IInv /\ [Next]_vars => IInv'
  <2> SUFFICES ASSUME IInv, [Next]_vars PROVE IInv'
    OBVIOUS
  <2>1. ASSUME NEW carrier \in BOOLEAN, NEW pin \in BOOLEAN, Push(carrier, pin) PROVE IInv'
    BY <2>1, PushInv
  <2>2. ASSUME NEW n \in Extents, ExtendTo(n) PROVE IInv'
    BY <2>2, ExtendToInv
  <2>3. ASSUME NEW x \in Refs, NEW y \in Refs, Union(x, y) PROVE IInv'
    BY <2>3, UnionInv
  <2>4. ASSUME NEW i \in Ids, FlattenStep(i) PROVE IInv'
    BY <2>4, FlattenStepInv
  <2>5. CASE Loop
    BY <2>4, <2>5, FindAInv, FindBInv, SameInv, ContradictionInv, LinkInv, FlattenDoneInv DEF Loop
  <2> QED
    BY <2>1, <2>2, <2>3, <2>5, ClearInv, FlattenInv, StutterInv DEF Next
<1> QED
  BY <1>1, InitInv, PTL DEF Spec

\* UnionFind's vectors keep their types.
THEOREM UnionFindTypeOK == Spec => []TypeOK
BY ForestInvariant, PTL DEF IInv

\* find, with and without adding offsets up, arrives where the equalities place
\* the reference, however the forest came about.
THEOREM FindIsRight == Spec => []FoundIsPlaced
<1>1. IInv => FoundIsPlaced
  BY DEF IInv, Climbing, FoundIsPlaced
<1> QED
  BY <1>1, ForestInvariant, PTL

\* The representative of a set is its zero, or else its smallest id.
THEOREM RepresentativeFixed == Spec => []RepresentativeOfTheSet
<1>1. IInv => RepresentativeOfTheSet
  BY DEF IInv, Forest, Edge, RepresentativeOfTheSet, Live
<1> QED
  BY <1>1, ForestInvariant, PTL

\* Below flat_below `parents` and `deltas` are the map to the representatives.
THEOREM FlatIsTheMap == Spec => []MapBelowFlat
<1>1. IInv => MapBelowFlat
  <2> SUFFICES ASSUME IInv, pc # "flatten", NEW i \in Live, i < flatBelow
               PROVE  /\ parent[i] = rep[i]
                      /\ (IF shifted THEN delta[i] ELSE Zero) = off[i]
    BY DEF MapBelowFlat
  <2>1. i \in Ids /\ parent[i] \in Ids /\ delta[i] \in Values
    BY DEF IInv, TypeOK, Live
  <2>2. Flat(i) /\ Edge(i) /\ Edge(parent[i])
    BY <2>1 DEF IInv, Flatness, Forest
  <2>3. parent[i] = rep[i] /\ off[parent[i]] = Zero
    BY <2>2 DEF Edge, Flat
  <2>4. Plus(delta[i], Zero) = delta[i]
    BY <2>1, PlusZero
  <2> QED
    BY <2>2, <2>3, <2>4 DEF Edge, Reduce
<1> QED
  BY <1>1, ForestInvariant, PTL

\* A merge of the forest is an absorption of the partition.
LEMMA MergeAbsorbs ==
  ASSUME NEW s, NEW t, Merge(s, t)
  PROVE  P!Absorb(s.id, s.offset, t.id, t.offset)
BY DEF Merge, P!Absorb, P!Ids, Ids, P!Reduce, Reduce

\* The references that a union compares, as the partition sees them.
LEMMA AskedPlaced ==
  ASSUME IInv, pc = "link"
  PROVE  /\ asked[1] \in Refs /\ asked[2] \in Refs
         /\ rep[asked[1].id] = a.id /\ rep[asked[2].id] = b.id
         /\ P!Place(asked[1]) = a.offset /\ P!Place(asked[2]) = b.offset
<1>1. /\ asked[1] \in Refs /\ asked[2] \in Refs
      /\ a = Placed(asked[1]) /\ b = Placed(asked[2])
  BY DEF IInv, TypeOK, Climbing
<1> QED
  BY <1>1 DEF Placed, P!Place, P!Reduce, Reduce

\* The comparison and what follows from it are one step of the partition.
LEMMA LinkEquates ==
  ASSUME IInv, Same \/ Contradiction \/ Link
  PROVE  P!Equate
<1>1. /\ pc = "link" /\ asked' = P!Nothing
      /\ rep[asked[1].id] = a.id /\ rep[asked[2].id] = b.id
      /\ P!Place(asked[1]) = a.offset /\ P!Place(asked[2]) = b.offset
      /\ a.id \in Ids /\ b.id \in Ids
  BY AskedPlaced, AtTheLink DEF Same, Contradiction, Link, Return, P!Nothing, P!NoRef, NoRef
<1>2. CASE Same
  BY <1>1, <1>2 DEF Same, ufvars, P!Equate
<1>3. CASE Contradiction
  <2>1. P!Contradict(a.id, b.id)
    <3>1. conflict \in [Ids -> BOOLEAN]
      BY DEF IInv, TypeOK
    <3>2. conflict' = [i \in Ids |-> conflict[i] \/ i = a.id \/ i = b.id]
      BY <1>1, <1>3, <3>1 DEF Contradiction
    <3> QED
      BY <1>3, <3>2 DEF Contradiction, P!Contradict, P!Ids, Ids
  <2> QED
    BY <1>1, <1>3, <2>1 DEF Contradiction, P!Equate
<1>4. CASE Link
  <2>1. a.id # b.id /\ ~(pinned[a.id] /\ pinned[b.id])
    BY <1>4 DEF Link
  <2>2. CASE (pinned[a.id] \/ (~pinned[b.id] /\ a.id < b.id)) /\ Merge(a, b)
    <3>1. P!Survivor(a.id, b.id) = a.id /\ P!Absorb(a.id, a.offset, b.id, b.offset)
      BY <2>2, MergeAbsorbs DEF P!Survivor
    <3> QED
      BY <1>1, <2>1, <3>1 DEF P!Equate
  <2>3. CASE ~(pinned[a.id] \/ (~pinned[b.id] /\ a.id < b.id)) /\ Merge(b, a)
    <3>1. P!Survivor(a.id, b.id) = b.id /\ P!Absorb(b.id, b.offset, a.id, a.offset)
      BY <2>3, MergeAbsorbs DEF P!Survivor
    <3> QED
      BY <1>1, <2>1, <3>1 DEF P!Equate
  <2> QED
    BY <1>4, <2>2, <2>3 DEF Link
<1> QED
  BY <1>2, <1>3, <1>4

\* Every step of the forest is a step of the partition or leaves it alone.
LEMMA StepSimulated == IInv /\ [Next]_vars => [P!Next]_(P!pvars)
<1> SUFFICES ASSUME IInv, [Next]_vars, ~UNCHANGED P!pvars PROVE P!Next
  OBVIOUS
<1>1. ASSUME NEW carrier \in BOOLEAN, NEW pin \in BOOLEAN, Push(carrier, pin) PROVE P!Next
  <2>1. P!Mint(carrier, pin)
    BY <1>1 DEF Push, P!Mint, loopvars
  <2> QED
    BY <2>1 DEF P!Next
<1>2. ASSUME NEW n \in Extents, ExtendTo(n) PROVE P!Next
  <2>1. n \in len..MaxIds /\ n \in 0..MaxIds
    BY <1>2, ExtentsAssumption, LengthsTyped, MaxIdsAssumption DEF ExtendTo, IInv
  <2>2. P!Grow(n)
    BY <1>2, <2>1 DEF ExtendTo, P!Grow, loopvars
  <2> QED
    BY <2>1, <2>2 DEF P!Next
<1>3. ASSUME Clear PROVE P!Next
  BY <1>3 DEF Clear, loopvars, P!Next, P!Forget, P!Ids, Ids
<1>4. ASSUME Same \/ Contradiction \/ Link PROVE P!Next
  BY <1>4, LinkEquates DEF P!Next
<1>5. ASSUME NEW x \in Refs, NEW y \in Refs, Union(x, y) PROVE P!Next
  <2>1. asked = P!Nothing
    BY <1>5 DEF Union, IInv, Climbing, P!Nothing, P!NoRef, NoRef
  <2>2. P!Ask(x, y) /\ x \in P!Refs /\ y \in P!Refs
    BY <1>5, <2>1 DEF Union, ufvars, P!Ask, P!Refs, P!Ids, Refs, Ids
  <2> QED
    BY <2>2 DEF P!Next
<1>6. ASSUME NEW i \in Ids, FlattenStep(i) PROVE FALSE
  BY <1>6 DEF FlattenStep, P!pvars
<1>7. ASSUME FindA \/ FindB \/ Flatten \/ FlattenDone \/ UNCHANGED vars PROVE FALSE
  BY <1>7 DEF FindA, FindB, Flatten, FlattenDone, P!pvars, ufvars, loopvars, vars
<1> QED
  BY <1>1, <1>2, <1>3, <1>4, <1>5, <1>6, <1>7 DEF Next, Loop

\* The union-find implements the partition that relabels whole sets.
THEOREM ForestImplementsPartition == Spec => ImplementsPartition
<1>1. Init => P!Init
  BY DEF Init, P!Init, P!Ids, Ids, P!Nothing, P!NoRef, NoRef
<1> QED
  BY <1>1, StepSimulated, ForestInvariant, PTL DEF Spec, ImplementsPartition, P!Spec

-----------------------------------------------------------------------------
\* After a merge the reference of the absorbed set lies where the other does.
LEMMA MergeEquates ==
  ASSUME TypeOK, Forest, NEW x \in Refs, NEW y \in Refs, x.id < len, y.id < len,
         Masked(x), Masked(y), Placed(x).id # Placed(y).id, Merge(Placed(x), Placed(y))
  PROVE  Placed(x)' = Placed(y)'
<1> DEFINE s == rep[x.id]
           t == rep[y.id]
           c == carried[s]
           d == carried[t]
           mask == c \/ d
           u == Plus(x.offset, off[x.id])
           shift == Reduce(mask, Minus(Reduce(c, u), Reduce(d, Plus(y.offset, off[y.id]))))
<1>1. /\ x.id \in Ids /\ y.id \in Ids /\ x.offset \in Values /\ y.offset \in Values
      /\ s \in Ids /\ t \in Ids /\ off[x.id] \in Values /\ off[y.id] \in Values
      /\ c \in BOOLEAN /\ d \in BOOLEAN /\ s # t
  BY DEF Refs, TypeOK, Placed
<1>2. u \in Values
  BY <1>1, OffsetsAssumption
<1>3. /\ carried'[s] = mask /\ rep'[x.id] = s /\ rep'[y.id] = s
      /\ off'[x.id] = off[x.id] /\ off'[y.id] = Reduce(mask, Plus(shift, off[y.id]))
  BY <1>1 DEF Merge, Placed, TypeOK
<1>4. (c \/ off[x.id] = Zero) /\ (d \/ off[y.id] = Zero)
  <2>1. Edge(x.id) /\ Edge(y.id)
    BY <1>1 DEF Forest
  <2> QED
    BY <2>1 DEF Edge, Reduce
<1>5. (c \/ u = Zero) /\ (d \/ (y.offset = Zero /\ off[y.id] = Zero))
  <2>1. (c \/ x.offset = Zero) /\ (d \/ y.offset = Zero)
    BY DEF Masked
  <2>2. x.offset = Zero /\ off[x.id] = Zero => u = Zero
    BY PlusZero, ZeroTyped
  <2> QED BY <1>4, <2>1, <2>2
<1>6. Reduce(mask, Plus(y.offset, Reduce(mask, Plus(shift, off[y.id])))) = Reduce(mask, u)
  <2> DEFINE v == y.offset
             o == off[y.id]
             w == Reduce(d, Plus(v, o))
  <2>0. v \in Values /\ o \in Values
    BY <1>1
  <2> HIDE DEF c, d, u, v, o, s, t
  <2>1. CASE ~mask
    BY <2>1 DEF Reduce, v, o
  <2>2. CASE mask
    <3>1. Plus(v, o) \in Values /\ (v = Zero /\ o = Zero => Plus(v, o) = Zero)
      BY <2>0, PlusZero, ZeroTyped, OffsetsAssumption
    <3>2. w = Plus(v, o)
      BY <1>5, <3>1 DEF Reduce, v, o
    <3>3. Reduce(c, u) = u
      BY <1>5 DEF Reduce
    <3>4. shift = Minus(u, w)
      BY <2>2, <3>3 DEF Reduce, v, o
    <3> HIDE DEF mask, shift, w
    <3>5. w \in Values
      BY <3>1, <3>2
    <3>6. Minus(u, w) \in Values /\ Plus(Minus(u, w), w) = u
      BY <1>2, <3>5, OffsetsAssumption
    <3>7. Plus(v, Plus(shift, o)) = Plus(shift, Plus(v, o))
      BY <2>0, <3>4, <3>6, PlusSwap
    <3>8. Plus(v, Plus(shift, o)) = u
      BY <3>2, <3>4, <3>6, <3>7
    <3> QED
      BY <2>2, <3>8 DEF Reduce, v, o
  <2> QED
    BY <2>1, <2>2
<1> QED
  BY <1>3, <1>6 DEF Placed

\* union makes equal what it was called with.
THEOREM UnionMakesEqual == Spec => UnionEquates
<1> DEFINE A == Same \/ Link =>
                  \A x \in {asked[1]}, y \in {asked[2]} :
                    Masked(x) /\ Masked(y) => Placed(x)' = Placed(y)'
<1>1. IInv => A
  <2> SUFFICES ASSUME NEW x \in {asked[1]}, NEW y \in {asked[2]}, IInv, Same \/ Link,
                      Masked(x), Masked(y)
               PROVE  Placed(x)' = Placed(y)'
    OBVIOUS
  <2>1. /\ TypeOK /\ Forest /\ pc = "link" /\ x \in Refs /\ y \in Refs /\ x.id < len /\ y.id < len
        /\ a = Placed(x) /\ b = Placed(y)
    BY DEF IInv, TypeOK, Climbing, Same, Link
  <2>2. CASE Same
    BY <2>1, <2>2 DEF Same, Placed, ufvars
  <2>3. CASE Link
    <3>1. Merge(a, b) \/ Merge(b, a)
      BY <2>3 DEF Link
    <3>2. a.id # b.id
      BY <2>3 DEF Link
    <3> QED
      BY <2>1, <3>1, <3>2, MergeEquates
  <2> QED
    BY <2>2, <2>3
<1> QED
  BY <1>1, ForestInvariant, PTL DEF UnionEquates
=============================================================================
