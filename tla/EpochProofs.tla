---------------------------- MODULE EpochProofs ----------------------------
(* The epoch of core/src/store.rs for any number of tasks, edits, epochs,  *)
(* ops and chunks, and every layout of rows over them.                     *)
(*                                                                         *)
(* The inductive invariant says what a task's store is against the base it *)
(* was cloned from: the rows, values and counts it did not write are the   *)
(* base's (Kept), and a row it wrote in another partition is the base's    *)
(* with the task's replacements, when it replaces no value twice (Reached, *)
(* Once).  In the first epoch every read is of a live value, is noticed    *)
(* where use lists are looked up, and an erased value was replaced (Sound, *)
(* Noticed); a version a pass settled at is current only over the rows it  *)
(* was taken from (Marked).                                                *)
(*                                                                         *)
(* What a commit makes of the stores is found by induction over the tasks: *)
(* the replay and the counts of merge are recursive functions, and the     *)
(* lemmas Iterated and Induction give the values they go through.          *)
EXTENDS Epoch, FiniteSetTheorems, WellFoundedInduction, TLAPS

\* Every set of naturals that has a member has a least one: the induction the
\* proofs about counters and indices of the code rest on.
LEMMA LeastNatural ==
  ASSUME NEW S \in SUBSET Nat, S # {}
  PROVE  \E n \in S : \A m \in S : n <= m
<1> DEFINE R == OpToRel(<, Nat)
<1>1. IsWellFoundedOn(R, Nat)
  BY NatLessThanWellFounded, Zenon
<1>2. PICK n \in S : \A m \in S : ~ (<<m, n>> \in R)
  <2> HIDE DEF R
  <2> QED BY <1>1, WFMin, Zenon
<1>3. ASSUME NEW m \in S PROVE n <= m
  <2>1. m \in Nat /\ n \in Nat
    BY Zenon
  <2>2. ~ (m < n)
    BY <1>2, <2>1, Zenon DEF OpToRel
  <2> QED BY <2>1, <2>2
<1> QED BY <1>3, Zenon

\* What the edits of a task may replace, and by what.
Olds(k) == {Res[o] : o \in ReplacesOps[k]} \cup {r[1] : r \in ReplacesUses[k]}
News(k) == {Res[o] : o \in MakesOps[k]} \cup {r[2] : r \in ReplacesUses[k]}

\* No task replaces a value that another replaces, or puts in the place of one.
Unchained == \A j, k \in Tasks : j # k => Olds(j) \cap (Olds(k) \cup News(k)) = {}

\* A task puts one value in the place of a value, and does not replace that in turn other
\* than with the op that defines it.
ReplacesOnce ==
  \A k \in Tasks : \A r \in ReplacesUses[k] :
    /\ \A o \in ReplacesOps[k] : Res[o] # r[1]
    /\ \A s \in ReplacesUses[k] : s[1] # r[2] /\ (s[1] = r[1] => s = r)

Rows == [live : BOOLEAN, operand : Values, cell : Cells]

IsStore(d) ==
  /\ d = [op |-> d.op, made |-> d.made, value |-> d.value, foreign |-> d.foreign,
          wrote |-> d.wrote, wroteValue |-> d.wroteValue, map |-> d.map,
          retargets |-> d.retargets, edits |-> d.edits, total |-> d.total,
          bumped |-> d.bumped, settled |-> d.settled]
  /\ d.op \in [Ops -> Rows] /\ d.made \in SUBSET Ops
  /\ d.value \in [Values -> BOOLEAN]
  /\ d.foreign \in [ValueChunks -> SUBSET Parts]
  /\ d.wrote \in SUBSET Ops /\ d.wroteValue \in SUBSET Values
  /\ d.map \in [Values -> Values] /\ d.retargets \in BOOLEAN
  /\ d.edits \in [Parts -> Nat] /\ d.total \in Nat /\ d.bumped \in SUBSET Parts
  /\ d.settled = [p \in Parts |-> d.settled[p]]

\* A store whose writes since the epoch began are listed.
Unwritten(d) ==
  /\ \A o \in Ops : o \notin d.wrote => d.op[o] = db.op[o]
  /\ \A v \in Values : v \notin d.wroteValue => d.value[v] = db.value[v]

\* The counts moved where they are said to have, and nowhere else.
Counted(d) ==
  /\ db.total <= d.total
  /\ \A p \in Parts :
       /\ db.edits[p] <= d.edits[p]
       /\ p \in d.bumped <=> d.edits[p] # db.edits[p]

\* What was made and erased, and what replaced.
Made(k, d) ==
  /\ db.made \subseteq d.made /\ d.made \subseteq db.made \cup MakesOps[k]
  /\ \A o \in Ops : d.op[o].live \/ d.value[Res[o]] \/ Res[o] \in d.wroteValue => o \in d.made
  /\ \A v \in d.wroteValue : \E o \in MakesOps[k] \cup ReplacesOps[k] : v = Res[o]

Moves(k, d) == \A v \in Values : d.map[v] # v => v \in Olds(k) /\ d.map[v] \in News(k)

Kept(k, d) == IsStore(d) /\ Unwritten(d) /\ Counted(d) /\ Made(k, d) /\ Moves(k, d)

Erased(d, v) == v \in d.wroteValue /\ ~d.value[v]
Gone(d, o) == o \in d.made /\ ~d.op[o].live

\* The rows of other partitions that a task wrote are rows it only replaced uses in.
Reached(k, d) ==
  \A o \in d.wrote : OpOwner[o] # Targets[k] =>
    /\ d.retargets /\ o \in db.made
    /\ d.op[o].live /\ db.op[o].live /\ d.op[o].cell = db.op[o].cell
    /\ d.op[o].operand = d.map[db.op[o].operand]
    /\ OpOwner[o] \in Readers(d, d.op[o].operand)

\* A value that can still be replaced is mapped to itself, or to what it is replaced by.
Once(k, d) ==
  /\ \A o \in ReplacesOps[k] : d.map[Res[o]] = Res[o] \/ Gone(d, o)
  /\ \A r \in ReplacesUses[k] : d.map[r[1]] \in {r[1], r[2]} \/ Erased(d, r[2])

\* Every row that reads a value is where the value's use lists are read.
Noticed(d) == \A o \in Ops : d.op[o].live => OpOwner[o] \in Readers(d, d.op[o].operand)

\* What is read, or put in the place of a value, is live, and what is erased was replaced.
Sound(d) ==
  /\ ReadsLive(d)
  /\ \A v \in Values : d.map[v] # v => d.value[d.map[v]]
  /\ \A v \in Values : Erased(d, v) => d.map[v] # v

\* A function whose version is the one a pass settled at has the rows it had then.
Marked(d) ==
  \A p \in Parts : d.settled[p].at =>
    /\ p # 0 /\ d.settled[p].version \in Nat /\ d.settled[p].version <= Version(d, p)
    /\ d.settled[p].version = Version(d, p) => d.settled[p].rows = RowsOf(d, p)

TaskInv(k, d) ==
  /\ Kept(k, d)
  /\ ReplacesOnce => Reached(k, d) /\ Once(k, d)
  /\ epoch = 0 => Noticed(d) /\ Sound(d) /\ Marked(d)

BaseInv ==
  /\ IsStore(db)
  /\ db.wrote = {} /\ db.wroteValue = {} /\ db.map = Identity /\ db.bumped = {} /\ ~db.retargets
  /\ \A o \in Ops : db.op[o].live \/ db.value[Res[o]] => o \in db.made
  /\ epoch = 0 => ReadsLive(db) /\ Noticed(db) /\ Marked(db)

IInv ==
  /\ layout \in Layouts /\ epoch \in Nat
  /\ BaseInv
  /\ task = [k \in Tasks |-> task[k]]
  /\ \A k \in Tasks : TaskInv(k, task[k])

-----------------------------------------------------------------------------
\* A recursion over 1..m, as a function that satisfies its equations.
Iterates(g, a, step, m) == g[0] = a /\ \A n \in 1 .. m : g[n] = step[n][g[n - 1]]

\* Stepping from `a` through the functions of `step` gives such a function.
LEMMA Iterated ==
  ASSUME NEW M \in Nat, NEW S, NEW a \in S, NEW step \in [1 .. M -> [S -> S]]
  PROVE  \E g \in [0 .. M -> S] : Iterates(g, a, step, M)
<1> DEFINE Bad == {m \in 0 .. M : ~ \E g \in [0 .. m -> S] : Iterates(g, a, step, m)}
<1>1. SUFFICES ASSUME Bad # {} PROVE FALSE
  <2>1. M \in 0 .. M
    OBVIOUS
  <2> QED BY <1>1, <2>1, Zenon
<1>2. Bad \in SUBSET Nat
  OBVIOUS
<1>3. PICK m \in Bad : \A k \in Bad : m <= k
  <2> HIDE DEF Bad
  <2> QED BY <1>1, <1>2, LeastNatural, Zenon
<1>4. m \in 0 .. M /\ ~ \E g \in [0 .. m -> S] : Iterates(g, a, step, m)
  BY <1>3, Zenon
<1>5. m # 0
  <2>1. [i \in 0 .. 0 |-> a] \in [0 .. 0 -> S] /\ Iterates([i \in 0 .. 0 |-> a], a, step, 0)
    BY DEF Iterates
  <2> QED BY <1>4, <2>1, Zenon
<1>6. m \in Nat /\ m - 1 \in 0 .. M /\ ~(m <= m - 1) /\ m \in 1 .. M
  BY <1>4, <1>5
<1>7. m - 1 \notin Bad
  <2> HIDE DEF Bad
  <2> QED BY <1>3, <1>6, Zenon
<1>8. PICK g \in [0 .. (m - 1) -> S] : Iterates(g, a, step, m - 1)
  BY <1>6, <1>7, Zenon
<1> DEFINE h == [i \in 0 .. m |-> IF i = m THEN step[m][g[m - 1]] ELSE g[i]]
<1>9. h \in [0 .. m -> S]
  <2>1. g[m - 1] \in S
    BY <1>6, <1>8
  <2>2. step[m][g[m - 1]] \in S
    BY <1>6, <2>1, Zenon
  <2> QED BY <1>6, <1>8, <2>2
<1>10. Iterates(h, a, step, m)
  BY <1>6, <1>8 DEF Iterates
<1> QED BY <1>4, <1>9, <1>10, Zenon

\* A set that has 0, and each number of 1..m whose predecessor it has, has all of 0..m.
LEMMA Induction ==
  ASSUME NEW m \in Nat, NEW S, 0 \in S, \A n \in 1 .. m : n - 1 \in S => n \in S
  PROVE  \A n \in 0 .. m : n \in S
<1> DEFINE Bad == (0 .. m) \ S
<1>1. SUFFICES ASSUME Bad # {} PROVE FALSE
  BY <1>1, Zenon
<1>2. PICK n \in Bad : \A k \in Bad : n <= k
  <2>1. Bad \in SUBSET Nat
    OBVIOUS
  <2> HIDE DEF Bad
  <2> QED BY <1>1, <2>1, LeastNatural, Zenon
<1>3. n \in 1 .. m
  BY <1>2
<1>4. n - 1 \notin Bad
  BY <1>2, <1>3
<1> QED BY <1>2, <1>3, <1>4

-----------------------------------------------------------------------------
\* The constants.
LEMMA TaskNumbers == Len(MakesOps) \in Nat /\ Tasks = 1 .. Len(MakesOps)
BY IdsAssumption DEF Tasks

\* What the assumptions on layouts say of the one the run is about.
LEMMA Laid ==
  ASSUME layout \in Layouts
  PROVE  /\ OpOwner \in [Ops -> Parts] /\ ValueOwner \in [Values -> Parts]
         /\ Targets \in [Tasks -> Parts]
         /\ \A k \in Tasks :
              /\ ReplacesOps[k] \subseteq Ops /\ MakesOps[k] \subseteq Ops
              /\ \A o \in MakesOps[k] \cup ReplacesOps[k] : OpOwner[o] = Targets[k]
              /\ ReplacesUses[k] \subseteq Values \X Values
         /\ BaseReads \subseteq [BaseOps -> {Res[o] : o \in BaseOps}]
<1>1. \A k \in Tasks : MakesOps[k] \subseteq Ops
  BY IdsAssumption, TaskNumbers
<1> QED BY <1>1, LayoutsAssumption, Zenon DEF OpOwner, ValueOwner, Targets, ReplacesOps, ReplacesUses, BaseReads

\* Every op defines a value, in a chunk.
LEMMA Results == \A o \in Ops : Res[o] \in Values /\ ValueChunkOf[Res[o]] \in ValueChunks
BY Zenon DEF Values, ValueChunks

\* Every value is in a chunk.
LEMMA ChunksOfValues == \A v \in Values : ValueChunkOf[v] \in ValueChunks
BY Zenon DEF ValueChunks

-----------------------------------------------------------------------------
\* What each edit leaves of a store.

\* The counts of `moved` go up, and of no other partition.
Grew(d, e, moved) ==
  /\ d.total <= e.total
  /\ e.bumped = d.bumped \cup moved
  /\ \A p \in Parts : d.edits[p] <= e.edits[p] /\ (e.edits[p] # d.edits[p] <=> p \in moved)
  /\ e.settled = d.settled

\* Every reader that is known stays known.
Notes(d, e) == \A w \in Values : Readers(d, w) \subseteq Readers(e, w)

CountsOps(d, e, ops) ==
  /\ IsStore(e)
  /\ e.op = d.op /\ e.made = d.made /\ e.value = d.value /\ e.foreign = d.foreign
  /\ e.wrote = d.wrote /\ e.wroteValue = d.wroteValue
  /\ e.map = d.map /\ e.retargets = d.retargets
  /\ Grew(d, e, {OpOwner[o] : o \in ops})

SetsOperand(d, e, ops, v) ==
  /\ IsStore(e)
  /\ e.made = d.made /\ e.value = d.value /\ e.wroteValue = d.wroteValue
  /\ e.map = d.map /\ e.retargets = d.retargets
  /\ e.wrote = d.wrote \cup ops
  /\ \A o \in Ops :
       /\ e.op[o].live = d.op[o].live /\ e.op[o].cell = d.op[o].cell
       /\ o \in ops => e.op[o].operand = v
       /\ o \notin ops => e.op[o] = d.op[o]
  /\ Notes(d, e) /\ \A o \in ops : OpOwner[o] \in Readers(e, v)
  /\ Grew(d, e, {OpOwner[o] : o \in ops})

SetsCell(d, e, o, c) ==
  /\ IsStore(e)
  /\ e.made = d.made /\ e.value = d.value /\ e.wroteValue = d.wroteValue
  /\ e.map = d.map /\ e.retargets = d.retargets /\ e.foreign = d.foreign
  /\ e.wrote = d.wrote \cup {o}
  /\ e.op[o].live = d.op[o].live /\ e.op[o].operand = d.op[o].operand /\ e.op[o].cell = c
  /\ \A x \in Ops \ {o} : e.op[x] = d.op[x]
  /\ Grew(d, e, {OpOwner[o]})

MakesOp(d, e, o, v, c) ==
  /\ IsStore(e)
  /\ e.map = d.map /\ e.retargets = d.retargets
  /\ e.made = d.made \cup {o} /\ e.wrote = d.wrote \cup {o}
  /\ e.wroteValue = d.wroteValue \cup {Res[o]}
  /\ e.op[o] = [live |-> TRUE, operand |-> v, cell |-> c]
  /\ \A x \in Ops \ {o} : e.op[x] = d.op[x]
  /\ e.value[Res[o]] /\ \A w \in Values \ {Res[o]} : e.value[w] = d.value[w]
  /\ Notes(d, e) /\ OpOwner[o] \in Readers(e, v)
  /\ Grew(d, e, {OpOwner[o]})

MovesUses(d, e, old, new) ==
  /\ IsStore(e)
  /\ e.made = d.made /\ e.value = d.value /\ e.wroteValue = d.wroteValue
  /\ e.retargets
  /\ \A v \in Values : e.map[v] = IF v = old \/ d.map[v] = old THEN new ELSE d.map[v]
  /\ e.wrote = d.wrote \cup Uses(d, old)
  /\ \A o \in Ops :
       /\ e.op[o].live = d.op[o].live /\ e.op[o].cell = d.op[o].cell
       /\ o \in Uses(d, old) => e.op[o].operand = new
       /\ o \notin Uses(d, old) => e.op[o] = d.op[o]
  /\ Notes(d, e) /\ \A o \in Uses(d, old) : OpOwner[o] \in Readers(e, new)
  /\ Grew(d, e, {OpOwner[o] : o \in Uses(d, old)})

ErasesOp(d, e, o) ==
  /\ IsStore(e)
  /\ e.made = d.made /\ e.map = d.map /\ e.retargets = d.retargets /\ e.foreign = d.foreign
  /\ e.wrote = d.wrote \cup {o} /\ e.wroteValue = d.wroteValue \cup {Res[o]}
  /\ ~e.op[o].live /\ \A x \in Ops \ {o} : e.op[x] = d.op[x]
  /\ ~e.value[Res[o]] /\ \A w \in Values \ {Res[o]} : e.value[w] = d.value[w]
  /\ Grew(d, e, {OpOwner[o], ValueOwner[Res[o]]})

\* bump
LEMMA BumpedStore ==
  ASSUME layout \in Layouts, NEW d, IsStore(d), NEW ops \in SUBSET Ops, NEW e, e = Bumped(d, ops)
  PROVE  CountsOps(d, e, ops)
<1> DEFINE of(p) == {o \in ops : OpOwner[o] = p}
           moved == {OpOwner[o] : o \in ops}
<1>1. OpOwner \in [Ops -> Parts]
  BY Laid, Zenon
<1>2. \A S \in SUBSET Ops : Cardinality(S) \in Nat /\ (Cardinality(S) = 0 <=> S = {})
  BY IdsAssumption, FS_Subset, FS_CardinalityType, FS_EmptySet, Zenon
<1>3. \A p \in Parts : Cardinality(of(p)) \in Nat /\ (Cardinality(of(p)) = 0 <=> p \notin moved)
  <2>1. \A p : of(p) \in SUBSET Ops /\ (of(p) = {} <=> p \notin moved)
    BY <1>1, Zenon
  <2> QED BY <1>2, <2>1, Zenon
<1>4. moved \in SUBSET Parts
  BY <1>1, Zenon
<1>5. Cardinality(ops) \in Nat
  BY <1>2, Zenon
<1>6. e = [op |-> d.op, made |-> d.made, value |-> d.value, foreign |-> d.foreign,
           wrote |-> d.wrote, wroteValue |-> d.wroteValue, map |-> d.map,
           retargets |-> d.retargets, edits |-> [p \in Parts |-> d.edits[p] + Cardinality(of(p))],
           total |-> d.total + Cardinality(ops), bumped |-> d.bumped \cup moved, settled |-> d.settled]
  BY Zenon DEF Bumped, IsStore
<1> HIDE DEF of, moved
<1>7. /\ e.op = d.op /\ e.made = d.made /\ e.value = d.value /\ e.foreign = d.foreign
      /\ e.wrote = d.wrote /\ e.wroteValue = d.wroteValue
      /\ e.map = d.map /\ e.retargets = d.retargets /\ e.settled = d.settled
      /\ e.edits = [p \in Parts |-> d.edits[p] + Cardinality(of(p))]
      /\ e.total = d.total + Cardinality(ops) /\ e.bumped = d.bumped \cup moved
  BY <1>6
<1>8. /\ e.edits \in [Parts -> Nat] /\ e.total \in Nat /\ d.total <= e.total
      /\ \A p \in Parts : d.edits[p] <= e.edits[p] /\ (e.edits[p] # d.edits[p] <=> p \in moved)
  <2>1. d.edits \in [Parts -> Nat] /\ d.total \in Nat
    BY Zenon DEF IsStore
  <2> QED BY <2>1, <1>3, <1>5, <1>7
<1>9. IsStore(e)
  <2>1. e = [op |-> e.op, made |-> e.made, value |-> e.value, foreign |-> e.foreign,
          wrote |-> e.wrote, wroteValue |-> e.wroteValue, map |-> e.map,
          retargets |-> e.retargets, edits |-> e.edits, total |-> e.total,
          bumped |-> e.bumped, settled |-> e.settled]
    BY <1>6, Zenon
  <2> QED BY <2>1, <1>4, <1>7, <1>8, Zenon DEF IsStore
<1>10. Grew(d, e, moved)
  BY <1>7, <1>8, Zenon DEF Grew
<1> QED BY <1>7, <1>9, <1>10, Zenon DEF moved, CountsOps

\* set_operand on every op of `ops`.
LEMMA OperandStore ==
  ASSUME layout \in Layouts, NEW d, IsStore(d), NEW ops \in SUBSET Ops, NEW v \in Values,
         NEW e, e = WithOperand(d, ops, v)
  PROVE  SetsOperand(d, e, ops, v)
<1> DEFINE b == Bumped(d, ops)
           parts == {OpOwner[o] : o \in ops} \ {ValueOwner[v]}
<1>1. /\ IsStore(b)
      /\ b.op = d.op /\ b.made = d.made /\ b.value = d.value /\ b.foreign = d.foreign
      /\ b.wrote = d.wrote /\ b.wroteValue = d.wroteValue
      /\ b.map = d.map /\ b.retargets = d.retargets
      /\ Grew(d, b, {OpOwner[o] : o \in ops})
  <2>1. CountsOps(d, b, ops)
    BY BumpedStore, Zenon
  <2> HIDE DEF b
  <2> QED BY <2>1, Zenon DEF CountsOps
<1>2. ValueChunkOf[v] \in ValueChunks /\ parts \in SUBSET Parts
  BY Laid, ChunksOfValues
<1> HIDE DEF parts
<1>3. e = [op |-> [o \in Ops |-> IF o \in ops THEN [b.op[o] EXCEPT !.operand = v] ELSE b.op[o]],
           made |-> b.made, value |-> b.value,
           foreign |-> [b.foreign EXCEPT ![ValueChunkOf[v]] = @ \cup parts],
           wrote |-> b.wrote \cup ops, wroteValue |-> b.wroteValue, map |-> b.map,
           retargets |-> b.retargets, edits |-> b.edits,
           total |-> b.total, bumped |-> b.bumped, settled |-> b.settled]
  <2> HIDE DEF b
  <2>1. e = [b EXCEPT
     !.op = [o \in Ops |-> IF o \in ops THEN [@[o] EXCEPT !.operand = v] ELSE @[o]],
     !.wrote = @ \cup ops,
     !.foreign[ValueChunkOf[v]] = @ \cup parts]
    BY Zenon DEF WithOperand, b, parts
  <2> QED BY <1>1, <2>1, ZenonT(40) DEF IsStore
<1> HIDE DEF b
<1>4. /\ e.op = [o \in Ops |-> IF o \in ops THEN [b.op[o] EXCEPT !.operand = v] ELSE b.op[o]]
      /\ e.made = d.made /\ e.value = d.value
      /\ e.foreign = [d.foreign EXCEPT ![ValueChunkOf[v]] = @ \cup parts]
      /\ e.wrote = d.wrote \cup ops /\ e.wroteValue = d.wroteValue
      /\ e.map = d.map /\ e.retargets = d.retargets
      /\ e.edits = b.edits /\ e.total = b.total /\ e.bumped = b.bumped /\ e.settled = b.settled
  BY <1>1, <1>3
<1>5. e.op \in [Ops -> Rows]
  <2>1. b.op \in [Ops -> Rows]
    BY <1>1, Zenon DEF IsStore
  <2> QED BY <2>1, <1>4 DEF Rows
<1>6. e.foreign \in [ValueChunks -> SUBSET Parts]
  <2>1. d.foreign \in [ValueChunks -> SUBSET Parts]
    BY Zenon DEF IsStore
  <2> QED BY <1>2, <1>4, <2>1
<1>7. IsStore(e)
  <2>1. e = [op |-> e.op, made |-> e.made, value |-> e.value, foreign |-> e.foreign,
          wrote |-> e.wrote, wroteValue |-> e.wroteValue, map |-> e.map,
          retargets |-> e.retargets, edits |-> e.edits, total |-> e.total,
          bumped |-> e.bumped, settled |-> e.settled]
    BY <1>3, Zenon
  <2> QED BY <2>1, <1>1, <1>4, <1>5, <1>6, Zenon DEF IsStore
<1>8. \A w \in Values : Readers(d, w) \subseteq Readers(e, w)
  <2>1. d.foreign \in [ValueChunks -> SUBSET Parts]
    BY Zenon DEF IsStore
  <2> QED BY <1>2, <1>4, <2>1, ChunksOfValues DEF Readers
<1>9. \A o \in ops : OpOwner[o] \in Readers(e, v)
  <2>1. d.foreign \in [ValueChunks -> SUBSET Parts]
    BY Zenon DEF IsStore
  <2> QED BY <1>2, <1>4, <2>1 DEF Readers, parts
<1>10. Grew(d, e, {OpOwner[o] : o \in ops})
  BY <1>1, <1>4 DEF Grew
<1>11. \A o \in Ops : /\ e.op[o].live = d.op[o].live /\ e.op[o].cell = d.op[o].cell
                      /\ o \in ops => e.op[o].operand = v
                      /\ o \notin ops => e.op[o] = d.op[o]
  <2>1. d.op \in [Ops -> Rows]
    BY Zenon DEF IsStore
  <2> QED BY <1>1, <1>4, <2>1 DEF Rows
<1> QED BY <1>4, <1>7, <1>8, <1>9, <1>10, <1>11, Zenon DEF SetsOperand, Notes

\* set_op_attrs
LEMMA CellStore ==
  ASSUME layout \in Layouts, NEW d, IsStore(d), NEW o \in Ops, NEW c \in Cells,
         NEW e, e = WithCell(d, o, c)
  PROVE  SetsCell(d, e, o, c)
<1> DEFINE b == Bumped(d, {o})
<1>1. /\ IsStore(b)
      /\ b.op = d.op /\ b.made = d.made /\ b.value = d.value /\ b.foreign = d.foreign
      /\ b.wrote = d.wrote /\ b.wroteValue = d.wroteValue
      /\ b.map = d.map /\ b.retargets = d.retargets
      /\ Grew(d, b, {OpOwner[o]})
  <2>1. {OpOwner[x] : x \in {o}} = {OpOwner[o]} /\ {o} \in SUBSET Ops
    BY Zenon
  <2>2. CountsOps(d, b, {o})
    BY <2>1, BumpedStore, Zenon
  <2> HIDE DEF b
  <2> QED BY <2>1, <2>2, Zenon DEF CountsOps
<1>2. e = [op |-> [b.op EXCEPT ![o] = [@ EXCEPT !.cell = c]],
           made |-> b.made, value |-> b.value, foreign |-> b.foreign,
           wrote |-> b.wrote \cup {o}, wroteValue |-> b.wroteValue, map |-> b.map,
           retargets |-> b.retargets, edits |-> b.edits,
           total |-> b.total, bumped |-> b.bumped, settled |-> b.settled]
  <2> HIDE DEF b
  <2>1. e = [b EXCEPT !.op[o].cell = c, !.wrote = @ \cup {o}]
    BY Zenon DEF WithCell, b
  <2> QED BY <1>1, <2>1, ZenonT(40) DEF IsStore
<1> HIDE DEF b
<1>3. d.op \in [Ops -> Rows] /\ c \in Cells
  BY Zenon DEF IsStore
<1>4. /\ e.made = d.made /\ e.value = d.value /\ e.wroteValue = d.wroteValue
      /\ e.map = d.map /\ e.retargets = d.retargets /\ e.foreign = d.foreign
      /\ e.wrote = d.wrote \cup {o} /\ e.op = [d.op EXCEPT ![o] = [@ EXCEPT !.cell = c]]
      /\ e.edits = b.edits /\ e.total = b.total /\ e.bumped = b.bumped /\ e.settled = b.settled
  BY <1>1, <1>2
<1>5. e.op \in [Ops -> Rows]
  BY <1>3, <1>4 DEF Rows
<1>6. IsStore(e)
  <2>1. e = [op |-> e.op, made |-> e.made, value |-> e.value, foreign |-> e.foreign,
          wrote |-> e.wrote, wroteValue |-> e.wroteValue, map |-> e.map,
          retargets |-> e.retargets, edits |-> e.edits, total |-> e.total,
          bumped |-> e.bumped, settled |-> e.settled]
    BY <1>2, Zenon
  <2> QED BY <2>1, <1>1, <1>4, <1>5 DEF IsStore
<1>7. Grew(d, e, {OpOwner[o]})
  BY <1>1, <1>4, ZenonT(40) DEF Grew
<1>8. /\ e.op[o].live = d.op[o].live /\ e.op[o].operand = d.op[o].operand /\ e.op[o].cell = c
      /\ \A x \in Ops \ {o} : e.op[x] = d.op[x]
  BY <1>3, <1>4 DEF Rows
<1> QED BY <1>4, <1>6, <1>7, <1>8, Zenon DEF SetsCell

\* The fields of a store with five of them replaced.
LEMMA FiveReplaced ==
  ASSUME NEW n, NEW op, NEW made, NEW value, NEW foreign, NEW wrote, NEW wroteValue, NEW map,
         NEW retargets, NEW edits, NEW total, NEW bumped, NEW settled,
         n = [op |-> op, made |-> made, value |-> value, foreign |-> foreign, wrote |-> wrote,
              wroteValue |-> wroteValue, map |-> map, retargets |-> retargets, edits |-> edits,
              total |-> total, bumped |-> bumped, settled |-> settled],
         NEW op2, NEW wrote2, NEW made2, NEW value2, NEW wroteValue2
  PROVE  [n EXCEPT !.op = op2, !.wrote = wrote2, !.made = made2, !.value = value2,
                   !.wroteValue = wroteValue2] =
           [op |-> op2, made |-> made2, value |-> value2, foreign |-> foreign, wrote |-> wrote2,
            wroteValue |-> wroteValue2, map |-> map, retargets |-> retargets, edits |-> edits,
            total |-> total, bumped |-> bumped, settled |-> settled]
<1>1. PICK a : a = [n EXCEPT !.op = op2, !.wrote = wrote2]
  BY Zenon
<1>2. a = [op |-> op2, made |-> made, value |-> value, foreign |-> foreign, wrote |-> wrote2,
              wroteValue |-> wroteValue, map |-> map, retargets |-> retargets, edits |-> edits,
              total |-> total, bumped |-> bumped, settled |-> settled]
  BY <1>1, Zenon
<1>3. PICK b : b = [a EXCEPT !.made = made2, !.value = value2]
  BY Zenon
<1>4. b = [op |-> op2, made |-> made2, value |-> value2, foreign |-> foreign, wrote |-> wrote2,
              wroteValue |-> wroteValue, map |-> map, retargets |-> retargets, edits |-> edits,
              total |-> total, bumped |-> bumped, settled |-> settled]
  BY ONLY <1>2, <1>3, Zenon
<1>5. PICK c : c = [b EXCEPT !.wroteValue = wroteValue2]
  BY Zenon
<1>6. c = [op |-> op2, made |-> made2, value |-> value2, foreign |-> foreign, wrote |-> wrote2,
              wroteValue |-> wroteValue2, map |-> map, retargets |-> retargets, edits |-> edits,
              total |-> total, bumped |-> bumped, settled |-> settled]
  BY ONLY <1>4, <1>5
<1>7. c = [n EXCEPT !.op = op2, !.wrote = wrote2, !.made = made2, !.value = value2,
                   !.wroteValue = wroteValue2]
  BY <1>1, <1>3, <1>5, Zenon
<1> QED BY <1>6, <1>7, Zenon

\* add_operation
LEMMA NewOpStore ==
  ASSUME layout \in Layouts, NEW d, IsStore(d), NEW o \in Ops, NEW v \in Values, NEW c \in Cells,
         NEW e, e = WithOp(d, o, v, c)
  PROVE  MakesOp(d, e, o, v, c)
<1> DEFINE b == Bumped(d, {o})
           n == Noted(b, v, OpOwner[o])
<1>1. /\ IsStore(b)
      /\ b.op = d.op /\ b.made = d.made /\ b.value = d.value /\ b.foreign = d.foreign
      /\ b.wrote = d.wrote /\ b.wroteValue = d.wroteValue
      /\ b.map = d.map /\ b.retargets = d.retargets
      /\ Grew(d, b, {OpOwner[o]})
  <2>1. {OpOwner[x] : x \in {o}} = {OpOwner[o]} /\ {o} \in SUBSET Ops
    BY Zenon
  <2>2. CountsOps(d, b, {o})
    BY <2>1, BumpedStore, Zenon
  <2> HIDE DEF b
  <2> QED BY <2>1, <2>2, Zenon DEF CountsOps
<1>2. ValueChunkOf[v] \in ValueChunks /\ OpOwner[o] \in Parts /\ Res[o] \in Values
  BY Laid, ChunksOfValues, Results, Zenon
<1>3. PICK f \in [ValueChunks -> SUBSET Parts] :
        /\ n = [b EXCEPT !.foreign = f]
        /\ \A ch \in ValueChunks : d.foreign[ch] \subseteq f[ch]
        /\ OpOwner[o] \in {ValueOwner[v]} \cup f[ValueChunkOf[v]]
  <2> HIDE DEF b
  <2>1. b.foreign \in [ValueChunks -> SUBSET Parts]
    BY <1>1, Zenon DEF IsStore
  <2>2. CASE OpOwner[o] \in Readers(b, v)
    <3>1. n = [b EXCEPT !.foreign = b.foreign]
      BY <1>1, <2>2, Zenon DEF Noted, IsStore
    <3> QED BY <1>1, <2>1, <2>2, <3>1, Zenon DEF Readers
  <2>3. CASE OpOwner[o] \notin Readers(b, v)
    <3> DEFINE f == [b.foreign EXCEPT ![ValueChunkOf[v]] = @ \cup {OpOwner[o]}]
    <3>1. n = [b EXCEPT !.foreign = f]
      BY <1>1, <2>3, Zenon DEF Noted, IsStore
    <3>2. f \in [ValueChunks -> SUBSET Parts]
      BY <1>2, <2>1, Zenon
    <3>3. /\ \A ch \in ValueChunks : d.foreign[ch] \subseteq f[ch]
          /\ OpOwner[o] \in f[ValueChunkOf[v]]
      BY <1>1, <1>2, <2>1, Zenon
    <3> QED BY <3>1, <3>2, <3>3, Zenon
  <2> QED BY <2>2, <2>3, Zenon
<1>4. e = [op |-> [b.op EXCEPT ![o] = [live |-> TRUE, operand |-> v, cell |-> c]],
           made |-> b.made \cup {o}, value |-> [b.value EXCEPT ![Res[o]] = TRUE], foreign |-> f,
           wrote |-> b.wrote \cup {o}, wroteValue |-> b.wroteValue \cup {Res[o]}, map |-> b.map,
           retargets |-> b.retargets, edits |-> b.edits,
           total |-> b.total, bumped |-> b.bumped, settled |-> b.settled]
  <2> HIDE DEF b
  <2>1. e = [n EXCEPT !.op[o] = [live |-> TRUE, operand |-> v, cell |-> c],
                      !.wrote = @ \cup {o}, !.made = @ \cup {o},
                      !.value[Res[o]] = TRUE,
                      !.wroteValue = @ \cup {Res[o]}]
    BY Zenon DEF WithOp, b
  <2> HIDE DEF n
  <2>2. n = [op |-> b.op, made |-> b.made, value |-> b.value, foreign |-> f,
          wrote |-> b.wrote, wroteValue |-> b.wroteValue, map |-> b.map,
          retargets |-> b.retargets, edits |-> b.edits, total |-> b.total,
          bumped |-> b.bumped, settled |-> b.settled]
    BY <1>1, <1>3, Zenon DEF IsStore
  <2>3. n.op = b.op /\ n.wrote = b.wrote /\ n.made = b.made /\ n.value = b.value
        /\ n.wroteValue = b.wroteValue
    BY <2>2, Zenon
  <2>4. e = [n EXCEPT !.op = [b.op EXCEPT ![o] = [live |-> TRUE, operand |-> v, cell |-> c]],
                      !.wrote = b.wrote \cup {o}, !.made = b.made \cup {o},
                      !.value = [b.value EXCEPT ![Res[o]] = TRUE],
                      !.wroteValue = b.wroteValue \cup {Res[o]}]
    BY <2>1, <2>3, Zenon
  <2> QED BY ONLY <2>2, <2>4, FiveReplaced, Zenon
<1> HIDE DEF b, n
<1>5. d.op \in [Ops -> Rows] /\ d.value \in [Values -> BOOLEAN]
  BY Zenon DEF IsStore
<1>6. /\ e.op = [d.op EXCEPT ![o] = [live |-> TRUE, operand |-> v, cell |-> c]]
      /\ e.made = d.made \cup {o} /\ e.value = [d.value EXCEPT ![Res[o]] = TRUE]
      /\ e.foreign = f /\ e.wrote = d.wrote \cup {o}
      /\ e.wroteValue = d.wroteValue \cup {Res[o]}
      /\ e.map = d.map /\ e.retargets = d.retargets
      /\ e.edits = b.edits /\ e.total = b.total /\ e.bumped = b.bumped /\ e.settled = b.settled
  BY ONLY <1>1, <1>4, SMT
<1>7. e.op \in [Ops -> Rows] /\ e.value \in [Values -> BOOLEAN]
  <2>1. PICK r \in Rows : r = [live |-> TRUE, operand |-> v, cell |-> c]
    BY Zenon DEF Rows
  <2>2. e.op = [d.op EXCEPT ![o] = r] /\ e.value = [d.value EXCEPT ![Res[o]] = TRUE]
    BY <1>6, <2>1, Zenon
  <2>3. r \in Rows /\ o \in Ops /\ Res[o] \in Values
    BY <1>2, Zenon
  <2> QED BY ONLY <1>5, <2>2, <2>3, SMT
<1>8. IsStore(e)
  <2>1. e = [op |-> e.op, made |-> e.made, value |-> e.value, foreign |-> e.foreign,
          wrote |-> e.wrote, wroteValue |-> e.wroteValue, map |-> e.map,
          retargets |-> e.retargets, edits |-> e.edits, total |-> e.total,
          bumped |-> e.bumped, settled |-> e.settled]
    BY <1>4, Zenon
  <2> QED BY <2>1, <1>1, <1>2, <1>6, <1>7 DEF IsStore
<1>9. Grew(d, e, {OpOwner[o]})
  BY <1>1, <1>6, Zenon DEF Grew
<1>10. (\A w \in Values : Readers(d, w) \subseteq Readers(e, w)) /\ OpOwner[o] \in Readers(e, v)
  BY <1>3, <1>6, ChunksOfValues, Zenon DEF Readers
<1>11. /\ e.op[o] = [live |-> TRUE, operand |-> v, cell |-> c]
       /\ \A x \in Ops \ {o} : e.op[x] = d.op[x]
       /\ e.value[Res[o]] /\ \A w \in Values \ {Res[o]} : e.value[w] = d.value[w]
  BY <1>2, <1>5, <1>6, Zenon
<1> QED BY <1>6, <1>8, <1>9, <1>10, <1>11, Zenon DEF MakesOp, Notes

\* replace_value_uses
LEMMA ReplacedStore ==
  ASSUME layout \in Layouts, NEW d, IsStore(d), NEW old \in Values, NEW new \in Values,
         NEW e, e = WithUsesReplaced(d, old, new)
  PROVE  MovesUses(d, e, old, new)
<1> DEFINE b == WithOperand(d, Uses(d, old), new)
<1>1. Uses(d, old) \in SUBSET Ops
  BY Zenon DEF Uses
<1>2. /\ IsStore(b)
      /\ b.made = d.made /\ b.value = d.value /\ b.wroteValue = d.wroteValue
      /\ b.map = d.map /\ b.retargets = d.retargets
      /\ b.wrote = d.wrote \cup Uses(d, old)
      /\ \A o \in Ops : /\ b.op[o].live = d.op[o].live /\ b.op[o].cell = d.op[o].cell
                        /\ o \in Uses(d, old) => b.op[o].operand = new
                        /\ o \notin Uses(d, old) => b.op[o] = d.op[o]
      /\ Notes(d, b)
      /\ \A o \in Uses(d, old) : OpOwner[o] \in Readers(b, new)
      /\ Grew(d, b, {OpOwner[o] : o \in Uses(d, old)})
  <2>1. SetsOperand(d, b, Uses(d, old), new)
    BY <1>1, OperandStore, Zenon
  <2> HIDE DEF b
  <2> QED BY <2>1, Zenon DEF SetsOperand
<1> DEFINE m == [v \in Values |-> IF v = old \/ d.map[v] = old THEN new ELSE d.map[v]]
<1>3. e = [op |-> b.op, made |-> b.made, value |-> b.value, foreign |-> b.foreign,
           wrote |-> b.wrote, wroteValue |-> b.wroteValue, map |-> m,
           retargets |-> TRUE, edits |-> b.edits,
           total |-> b.total, bumped |-> b.bumped, settled |-> b.settled]
  <2> HIDE DEF b
  <2>1. e = [b EXCEPT !.map = [v \in Values |-> IF v = old \/ @[v] = old THEN new ELSE @[v]],
                      !.retargets = TRUE]
    BY Zenon DEF WithUsesReplaced, b
  <2>2. b = [op |-> b.op, made |-> b.made, value |-> b.value, foreign |-> b.foreign,
          wrote |-> b.wrote, wroteValue |-> b.wroteValue, map |-> b.map,
          retargets |-> b.retargets, edits |-> b.edits, total |-> b.total,
          bumped |-> b.bumped, settled |-> b.settled]
    BY <1>2, Zenon DEF IsStore
  <2>3. e = [b EXCEPT !.map = [v \in Values |-> IF v = old \/ b.map[v] = old THEN new ELSE b.map[v]],
                      !.retargets = TRUE]
    BY <2>1, <2>2, Zenon
  <2>4. m = [v \in Values |-> IF v = old \/ b.map[v] = old THEN new ELSE b.map[v]]
    BY <1>2, Zenon
  <2> HIDE DEF m
  <2>5. e = [b EXCEPT !.map = m, !.retargets = TRUE]
    BY <2>3, <2>4, Zenon
  <2> QED BY <2>2, <2>5, Zenon
<1> HIDE DEF b
<1>4. m \in [Values -> Values]
  <2>1. d.map \in [Values -> Values]
    BY Zenon DEF IsStore
  <2> QED BY <2>1, Zenon
<1>5. /\ e.op = b.op /\ e.made = b.made /\ e.value = b.value /\ e.foreign = b.foreign
      /\ e.wrote = b.wrote /\ e.wroteValue = b.wroteValue /\ e.map = m /\ e.retargets = TRUE
      /\ e.edits = b.edits /\ e.total = b.total /\ e.bumped = b.bumped /\ e.settled = b.settled
  BY <1>3
<1>6. IsStore(e)
  <2>1. e = [op |-> e.op, made |-> e.made, value |-> e.value, foreign |-> e.foreign,
          wrote |-> e.wrote, wroteValue |-> e.wroteValue, map |-> e.map,
          retargets |-> e.retargets, edits |-> e.edits, total |-> e.total,
          bumped |-> e.bumped, settled |-> e.settled]
    BY <1>3, Zenon
  <2> HIDE DEF m
  <2> QED BY <2>1, <1>2, <1>4, <1>5, ZenonT(40) DEF IsStore
<1>7. \A w : Readers(e, w) = Readers(b, w)
  BY <1>5, Zenon DEF Readers
<1>8. Grew(d, e, {OpOwner[o] : o \in Uses(d, old)})
  BY <1>2, <1>5 DEF Grew
<1>9. \A v \in Values : e.map[v] = IF v = old \/ d.map[v] = old THEN new ELSE d.map[v]
  BY <1>5
<1> HIDE DEF m
<1> QED BY <1>2, <1>5, <1>6, <1>7, <1>8, <1>9 DEF MovesUses, Notes

\* remove_operation
LEMMA ErasedStore ==
  ASSUME layout \in Layouts, NEW d, IsStore(d), NEW o \in Ops, NEW e, e = WithoutOp(d, o)
  PROVE  ErasesOp(d, e, o)
<1> DEFINE b == Bumped(d, {o})
           q == ValueOwner[Res[o]]
<1>1. /\ IsStore(b)
      /\ b.op = d.op /\ b.made = d.made /\ b.value = d.value /\ b.foreign = d.foreign
      /\ b.wrote = d.wrote /\ b.wroteValue = d.wroteValue
      /\ b.map = d.map /\ b.retargets = d.retargets
      /\ Grew(d, b, {OpOwner[o]})
  <2>1. {OpOwner[x] : x \in {o}} = {OpOwner[o]} /\ {o} \in SUBSET Ops
    BY Zenon
  <2>2. CountsOps(d, b, {o})
    BY <2>1, BumpedStore, Zenon
  <2> HIDE DEF b
  <2> QED BY <2>1, <2>2, Zenon DEF CountsOps
<1>2. Res[o] \in Values /\ q \in Parts
  BY Laid, Results, Zenon
<1>3. e = [op |-> [b.op EXCEPT ![o] = [@ EXCEPT !.live = FALSE]],
           made |-> b.made, value |-> [b.value EXCEPT ![Res[o]] = FALSE], foreign |-> b.foreign,
           wrote |-> b.wrote \cup {o}, wroteValue |-> b.wroteValue \cup {Res[o]}, map |-> b.map,
           retargets |-> b.retargets, edits |-> [b.edits EXCEPT ![q] = @ + 1],
           total |-> b.total + 1, bumped |-> b.bumped \cup {q}, settled |-> b.settled]
  <2> HIDE DEF b
  <2>1. e = [b EXCEPT !.op[o].live = FALSE, !.wrote = @ \cup {o}, !.value[Res[o]] = FALSE,
                      !.wroteValue = @ \cup {Res[o]}, !.edits[q] = @ + 1, !.total = @ + 1,
                      !.bumped = @ \cup {q}]
    BY Zenon DEF WithoutOp, b
  <2>2. b = [op |-> b.op, made |-> b.made, value |-> b.value, foreign |-> b.foreign,
          wrote |-> b.wrote, wroteValue |-> b.wroteValue, map |-> b.map,
          retargets |-> b.retargets, edits |-> b.edits, total |-> b.total,
          bumped |-> b.bumped, settled |-> b.settled]
    BY <1>1, Zenon DEF IsStore
  <2> QED BY <2>1, <2>2, ZenonT(40)
<1> HIDE DEF b, q
<1>4. /\ d.op \in [Ops -> Rows] /\ d.value \in [Values -> BOOLEAN]
      /\ b.edits \in [Parts -> Nat] /\ b.total \in Nat
      /\ d.edits \in [Parts -> Nat] /\ d.total \in Nat
  BY <1>1, Zenon DEF IsStore
<1>5. /\ e.op = [d.op EXCEPT ![o] = [@ EXCEPT !.live = FALSE]]
      /\ e.made = d.made /\ e.value = [d.value EXCEPT ![Res[o]] = FALSE]
      /\ e.foreign = d.foreign /\ e.wrote = d.wrote \cup {o}
      /\ e.wroteValue = d.wroteValue \cup {Res[o]}
      /\ e.map = d.map /\ e.retargets = d.retargets
      /\ e.edits = [b.edits EXCEPT ![q] = @ + 1] /\ e.total = b.total + 1
      /\ e.bumped = b.bumped \cup {q} /\ e.settled = b.settled
  BY <1>1, <1>3
<1>6. e.op \in [Ops -> Rows] /\ e.value \in [Values -> BOOLEAN]
  <2>1. [d.op[o] EXCEPT !.live = FALSE] \in Rows
    BY <1>4, Zenon DEF Rows
  <2>2. e.op \in [Ops -> Rows]
    BY <1>4, <1>5, <2>1
  <2> QED BY <1>2, <1>4, <1>5, <2>2, ZenonT(40)
<1>7. e.edits \in [Parts -> Nat] /\ e.total \in Nat
  BY <1>2, <1>4, <1>5
<1>8. IsStore(e)
  <2>1. e = [op |-> e.op, made |-> e.made, value |-> e.value, foreign |-> e.foreign,
          wrote |-> e.wrote, wroteValue |-> e.wroteValue, map |-> e.map,
          retargets |-> e.retargets, edits |-> e.edits, total |-> e.total,
          bumped |-> e.bumped, settled |-> e.settled]
    BY <1>3, Zenon
  <2> QED BY <2>1, <1>1, <1>2, <1>5, <1>6, <1>7 DEF IsStore
<1>9. Grew(d, e, {OpOwner[o], q})
  <2>1. d.total <= e.total
    BY <1>1, <1>4, <1>5 DEF Grew
  <2>2. \A p \in Parts : d.edits[p] <= e.edits[p] /\ (e.edits[p] # d.edits[p] <=> p \in {OpOwner[o], q})
    BY <1>1, <1>4, <1>5 DEF Grew
  <2> QED BY <1>1, <1>5, <2>1, <2>2, Zenon DEF Grew
<1>10. /\ ~e.op[o].live
       /\ \A x \in Ops \ {o} : e.op[x] = d.op[x]
       /\ ~e.value[Res[o]] /\ \A w \in Values \ {Res[o]} : e.value[w] = d.value[w]
  <2>1. e.op[o] = [d.op[o] EXCEPT !.live = FALSE] /\ d.op[o] \in Rows
    BY <1>4, <1>5, Zenon
  <2>2. ~e.op[o].live
    BY <2>1, Zenon DEF Rows
  <2>3. \A x \in Ops \ {o} : e.op[x] = d.op[x]
    BY <1>4, <1>5, Zenon
  <2>4. ~e.value[Res[o]] /\ \A w \in Values \ {Res[o]} : e.value[w] = d.value[w]
    BY <1>2, <1>4, <1>5, Zenon
  <2> QED BY <2>2, <2>3, <2>4, Zenon
<1> QED BY <1>5, <1>8, <1>9, <1>10, Zenon DEF q, ErasesOp

-----------------------------------------------------------------------------
\* Every edit keeps what is said of a store against the base.

\* Counts that go up where an edit was stay told apart from those of the base.
LEMMA GrewCounted ==
  ASSUME NEW d, NEW e, IsStore(d), IsStore(e), IsStore(db), Counted(d),
         NEW moved \in SUBSET Parts, Grew(d, e, moved)
  PROVE  Counted(e)
<1>1. /\ d.total \in Nat /\ e.total \in Nat /\ db.total \in Nat
      /\ d.edits \in [Parts -> Nat] /\ e.edits \in [Parts -> Nat] /\ db.edits \in [Parts -> Nat]
  BY Zenon DEF IsStore
<1>2. db.total <= e.total
  BY <1>1 DEF Counted, Grew
<1>3. \A p \in Parts : db.edits[p] <= e.edits[p] /\ (p \in e.bumped <=> e.edits[p] # db.edits[p])
  BY <1>1 DEF Counted, Grew
<1> QED BY <1>2, <1>3, Zenon DEF Counted

\* set_operand writes and counts the rows it changes.
LEMMA OperandKept ==
  ASSUME layout \in Layouts, IsStore(db), NEW k \in Tasks, NEW d, Kept(k, d),
         NEW ops \in SUBSET Ops, NEW v \in Values, NEW e, e = WithOperand(d, ops, v)
  PROVE  Kept(k, e)
<1>1. IsStore(d)
  BY Zenon DEF Kept
<1>2. SetsOperand(d, e, ops, v)
  BY <1>1, OperandStore, Zenon
<1>3. Unwritten(e)
  BY <1>2 DEF Kept, Unwritten, SetsOperand
<1>4. Counted(e)
  <2>1. {OpOwner[o] : o \in ops} \in SUBSET Parts
    BY Laid
  <2> QED BY <1>1, <1>2, <2>1, GrewCounted, Zenon DEF Kept, SetsOperand
<1>5. Made(k, e)
  <2>1. \A o \in Ops : e.op[o].live = d.op[o].live
    BY <1>1, <1>2, Zenon DEF IsStore, Rows, SetsOperand
  <2> QED BY <1>2, <2>1 DEF Kept, Made, SetsOperand
<1>6. Moves(k, e)
  BY <1>2, Zenon DEF Kept, Moves, SetsOperand
<1> QED BY <1>2, <1>3, <1>4, <1>5, <1>6, Zenon DEF Kept, SetsOperand

\* set_op_attrs writes and counts the row it changes.
LEMMA CellKept ==
  ASSUME layout \in Layouts, IsStore(db), NEW k \in Tasks, NEW d, Kept(k, d),
         NEW o \in Ops, NEW c \in Cells, NEW e, e = WithCell(d, o, c)
  PROVE  Kept(k, e)
<1>1. IsStore(d)
  BY Zenon DEF Kept
<1>2. SetsCell(d, e, o, c)
  BY <1>1, CellStore, Zenon
<1>3. Unwritten(e)
  BY <1>2 DEF Kept, Unwritten, SetsCell
<1>4. Counted(e)
  <2>1. {OpOwner[o]} \in SUBSET Parts
    <3>1. OpOwner[o] \in Parts
      BY Laid, Zenon
    <3> QED BY <3>1, Zenon
  <2> QED BY <1>1, <1>2, <2>1, GrewCounted, Zenon DEF Kept, SetsCell
<1>5. Made(k, e)
  <2>1. \A x \in Ops : e.op[x].live = d.op[x].live
    BY <1>1, <1>2, Zenon DEF IsStore, Rows, SetsCell
  <2> QED BY <1>2, <2>1 DEF Kept, Made, SetsCell
<1>6. Moves(k, e)
  BY <1>2, Zenon DEF Kept, Moves, SetsCell
<1> QED BY <1>2, <1>3, <1>4, <1>5, <1>6, Zenon DEF Kept, SetsCell

\* bump counts and changes no row.
LEMMA BumpedKept ==
  ASSUME layout \in Layouts, IsStore(db), NEW k \in Tasks, NEW d, Kept(k, d),
         NEW ops \in SUBSET Ops, NEW e, e = Bumped(d, ops)
  PROVE  Kept(k, e)
<1>1. IsStore(d)
  BY Zenon DEF Kept
<1>2. CountsOps(d, e, ops)
  BY <1>1, BumpedStore, Zenon
<1>3. Unwritten(e)
  BY <1>2, Zenon DEF Kept, Unwritten, CountsOps
<1>4. Counted(e)
  <2>1. {OpOwner[o] : o \in ops} \in SUBSET Parts
    BY Laid
  <2> QED BY <1>1, <1>2, <2>1, GrewCounted, Zenon DEF Kept, CountsOps
<1>5. Made(k, e) /\ Moves(k, e)
  BY <1>2, Zenon DEF Kept, Made, Moves, CountsOps
<1> QED BY <1>2, <1>3, <1>4, <1>5, Zenon DEF Kept, CountsOps

\* add_operation makes an op of the lane.
LEMMA NewOpKept ==
  ASSUME layout \in Layouts, IsStore(db), NEW k \in Tasks, NEW d, Kept(k, d),
         NEW o \in MakesOps[k], NEW v \in Values, NEW c \in Cells, NEW e, e = WithOp(d, o, v, c)
  PROVE  Kept(k, e)
<1>1. IsStore(d) /\ o \in Ops /\ Res[o] \in Values
  BY Laid, Results, Zenon DEF Kept
<1>2. MakesOp(d, e, o, v, c)
  BY <1>1, NewOpStore, Zenon
<1>3. Unwritten(e)
  BY <1>2 DEF Kept, Unwritten, MakesOp
<1>4. Counted(e)
  <2>1. {OpOwner[o]} \in SUBSET Parts
    BY <1>1, Laid
  <2> QED BY <1>1, <1>2, <2>1, GrewCounted, Zenon DEF Kept, MakesOp
<1>5. Made(k, e)
  <2>1. db.made \subseteq e.made /\ e.made \subseteq db.made \cup MakesOps[k]
    BY <1>2, Zenon DEF Kept, Made, MakesOp
  <2>2. \A x \in Ops : e.op[x].live \/ e.value[Res[x]] \/ Res[x] \in e.wroteValue => x \in e.made
    <3> SUFFICES ASSUME NEW x \in Ops, x # o,
                        e.op[x].live \/ e.value[Res[x]] \/ Res[x] \in e.wroteValue
                 PROVE  x \in d.made
      BY <1>2, Zenon DEF MakesOp
    <3>1. Res[x] # Res[o] /\ Res[x] \in Values
      BY <1>1, IdsAssumption, Results, Zenon
    <3>2. e.op[x] = d.op[x] /\ e.value[Res[x]] = d.value[Res[x]]
      BY <1>2, <3>1, Zenon DEF MakesOp
    <3>3. d.op[x].live \/ d.value[Res[x]] \/ Res[x] \in d.wroteValue
      BY <1>2, <3>1, <3>2, Zenon DEF MakesOp
    <3> QED BY <3>3, Zenon DEF Kept, Made
  <2>3. \A w \in e.wroteValue : \E x \in MakesOps[k] \cup ReplacesOps[k] : w = Res[x]
    BY <1>2, Zenon DEF Kept, Made, MakesOp
  <2> QED BY <2>1, <2>2, <2>3, Zenon DEF Made
<1>6. Moves(k, e)
  BY <1>2 DEF Kept, Moves, MakesOp
<1> QED BY <1>2, <1>3, <1>4, <1>5, <1>6, Zenon DEF Kept, MakesOp

\* replace_value_uses maps a value the task may replace to one it may put there.
LEMMA ReplacedKept ==
  ASSUME layout \in Layouts, IsStore(db), NEW k \in Tasks, NEW d, Kept(k, d),
         NEW old \in Values, NEW new \in Values, old \in Olds(k), new \in News(k),
         NEW e, e = WithUsesReplaced(d, old, new)
  PROVE  Kept(k, e)
<1>1. IsStore(d) /\ Uses(d, old) \in SUBSET Ops
  BY Zenon DEF Kept, Uses
<1>2. MovesUses(d, e, old, new)
  BY <1>1, ReplacedStore, Zenon
<1>3. Unwritten(e)
  BY <1>2 DEF Kept, Unwritten, MovesUses
<1>4. Counted(e)
  <2>1. {OpOwner[o] : o \in Uses(d, old)} \in SUBSET Parts
    BY <1>1, Laid
  <2> QED BY <1>1, <1>2, <2>1, GrewCounted, Zenon DEF Kept, MovesUses
<1>5. Made(k, e)
  <2>1. \A o \in Ops : e.op[o].live = d.op[o].live
    BY <1>1, <1>2, Zenon DEF IsStore, Rows, MovesUses
  <2> QED BY <1>2, <2>1 DEF Kept, Made, MovesUses
<1>6. Moves(k, e)
  <2> SUFFICES ASSUME NEW v \in Values, e.map[v] # v
               PROVE  v \in Olds(k) /\ e.map[v] \in News(k)
    BY Zenon DEF Moves
  <2>1. d.map[v] # v => v \in Olds(k) /\ d.map[v] \in News(k)
    BY Zenon DEF Kept, Moves
  <2> QED BY <1>2, <2>1 DEF MovesUses
<1> QED BY <1>2, <1>3, <1>4, <1>5, <1>6, Zenon DEF Kept, MovesUses

\* remove_operation erases an op the task may replace.
LEMMA ErasedKept ==
  ASSUME layout \in Layouts, IsStore(db), NEW k \in Tasks, NEW d, Kept(k, d),
         NEW o \in ReplacesOps[k], o \in d.made, NEW e, e = WithoutOp(d, o)
  PROVE  Kept(k, e)
<1>1. IsStore(d) /\ o \in Ops /\ Res[o] \in Values
  BY Laid, Results, Zenon DEF Kept
<1>2. ErasesOp(d, e, o)
  BY <1>1, ErasedStore, Zenon
<1>3. Unwritten(e)
  BY <1>2 DEF Kept, Unwritten, ErasesOp
<1>4. Counted(e)
  <2>1. {OpOwner[o], ValueOwner[Res[o]]} \in SUBSET Parts
    BY <1>1, Laid
  <2> QED BY <1>1, <1>2, <2>1, GrewCounted, Zenon DEF Kept, ErasesOp
<1>5. Made(k, e)
  <2>1. db.made \subseteq e.made /\ e.made \subseteq db.made \cup MakesOps[k]
    BY <1>2, Zenon DEF Kept, Made, ErasesOp
  <2>2. \A x \in Ops : e.op[x].live \/ e.value[Res[x]] \/ Res[x] \in e.wroteValue => x \in e.made
    <3> SUFFICES ASSUME NEW x \in Ops, x # o,
                        e.op[x].live \/ e.value[Res[x]] \/ Res[x] \in e.wroteValue
                 PROVE  x \in d.made
      BY <1>2, Zenon DEF ErasesOp
    <3>1. Res[x] # Res[o] /\ Res[x] \in Values
      BY <1>1, IdsAssumption, Results, Zenon
    <3>2. e.op[x] = d.op[x] /\ e.value[Res[x]] = d.value[Res[x]]
      BY <1>2, <3>1, Zenon DEF ErasesOp
    <3>3. d.op[x].live \/ d.value[Res[x]] \/ Res[x] \in d.wroteValue
      BY <1>2, <3>1, <3>2, Zenon DEF ErasesOp
    <3> QED BY <3>3, Zenon DEF Kept, Made
  <2>3. \A w \in e.wroteValue : \E x \in MakesOps[k] \cup ReplacesOps[k] : w = Res[x]
    BY <1>2, Zenon DEF Kept, Made, ErasesOp
  <2> QED BY <2>1, <2>2, <2>3, Zenon DEF Made
<1>6. Moves(k, e)
  BY <1>2, Zenon DEF Kept, Moves, ErasesOp
<1> QED BY <1>2, <1>3, <1>4, <1>5, <1>6, Zenon DEF Kept, ErasesOp

-----------------------------------------------------------------------------
\* Every edit keeps a task's rows recoverable from the base and its map.

\* An edit of the task's own rows `own` that replaces no use.
OwnEdit(k, d, e, own) ==
  /\ \A o \in own : o \in Ops /\ OpOwner[o] = Targets[k]
  /\ e.map = d.map /\ e.retargets = d.retargets /\ e.wrote = d.wrote \cup own
  /\ \A x \in Ops : x \notin own => e.op[x] = d.op[x]
  /\ \A x \in Ops : Gone(d, x) => Gone(e, x)
  /\ \A w \in Values : Erased(d, w) => Erased(e, w)
  /\ Notes(d, e)

\* An edit of its own rows leaves what the task wrote elsewhere as it was.
LEMMA OwnReached ==
  ASSUME layout \in Layouts, NEW k \in Tasks, NEW d, NEW e, NEW own,
         Kept(k, d), Reached(k, d), OwnEdit(k, d, e, own)
  PROVE  Reached(k, e)
<1>1. \A x \in d.wrote : x \in Ops
  BY Zenon DEF Kept, IsStore
<1>2. d.op \in [Ops -> Rows] /\ \A w \in Values : Readers(d, w) \subseteq Readers(e, w)
  BY Zenon DEF OwnEdit, Notes, Kept, IsStore
<1> SUFFICES ASSUME NEW x \in d.wrote, x \notin own, OpOwner[x] # Targets[k]
             PROVE  /\ e.retargets /\ x \in db.made
                    /\ e.op[x].live /\ db.op[x].live /\ e.op[x].cell = db.op[x].cell
                    /\ e.op[x].operand = e.map[db.op[x].operand]
                    /\ OpOwner[x] \in Readers(e, e.op[x].operand)
  BY Zenon DEF Reached, OwnEdit
<1>3. e.op[x] = d.op[x] /\ d.op[x].operand \in Values
  BY <1>1, <1>2, Zenon DEF Rows, OwnEdit
<1>4. e.retargets = d.retargets /\ e.map = d.map
  BY Zenon DEF OwnEdit
<1> QED BY <1>2, <1>3, <1>4, Zenon DEF Reached

\* An edit of its own rows leaves the replacements as they were.
LEMMA OwnOnce ==
  ASSUME layout \in Layouts, NEW k \in Tasks, NEW d, NEW e, NEW own,
         Once(k, d), OwnEdit(k, d, e, own)
  PROVE  Once(k, e)
<1>1. ReplacesOps[k] \subseteq Ops /\ \A r \in ReplacesUses[k] : r[2] \in Values
  BY Laid, Zenon
<1> QED BY <1>1 DEF Once, OwnEdit

\* set_operand on an op of the task is an edit of its own rows.
LEMMA OperandOwn ==
  ASSUME NEW k \in Tasks, NEW d, NEW e, NEW o \in Ops, NEW v,
         SetsOperand(d, e, {o}, v), OpOwner[o] = Targets[k]
  PROVE  OwnEdit(k, d, e, {o})
BY Zenon DEF SetsOperand, OwnEdit, Gone, Erased

\* So is set_op_attrs.
LEMMA CellOwn ==
  ASSUME NEW k \in Tasks, NEW d, NEW e, NEW o \in Ops, NEW c,
         SetsCell(d, e, o, c), OpOwner[o] = Targets[k]
  PROVE  OwnEdit(k, d, e, {o})
<1>1. Notes(d, e)
  BY Zenon DEF SetsCell, Notes, Readers
<1>2. \A x \in Ops : e.op[x].live = d.op[x].live
  BY Zenon DEF SetsCell
<1> QED BY <1>1, <1>2, Zenon DEF SetsCell, OwnEdit, Gone, Erased

\* So is bump, which edits none.
LEMMA CountOwn ==
  ASSUME NEW k \in Tasks, NEW d, NEW e, NEW ops, CountsOps(d, e, ops)
  PROVE  OwnEdit(k, d, e, {})
<1>1. Notes(d, e)
  BY Zenon DEF CountsOps, Notes, Readers
<1> QED BY <1>1, Zenon DEF CountsOps, OwnEdit, Gone, Erased

\* So is add_operation in the partition the task mints into.
LEMMA NewOpOwn ==
  ASSUME layout \in Layouts, NEW k \in Tasks, NEW d, NEW e, NEW o \in MakesOps[k], NEW v, NEW c,
         Kept(k, d), o \notin d.made, MakesOp(d, e, o, v, c)
  PROVE  OwnEdit(k, d, e, {o})
<1>1. o \in Ops /\ OpOwner[o] = Targets[k]
  BY Laid, Zenon
<1>2. \A x \in Ops : Gone(d, x) => Gone(e, x)
  BY Zenon DEF MakesOp, Gone
<1>3. \A w \in Values : Erased(d, w) => Erased(e, w)
  <2>1. Res[o] \notin d.wroteValue
    BY <1>1, Zenon DEF Kept, Made
  <2> QED BY <2>1, Zenon DEF MakesOp, Erased
<1>4. \A x \in Ops : x \notin {o} => e.op[x] = d.op[x]
  BY Zenon DEF MakesOp
<1> QED BY <1>1, <1>2, <1>3, <1>4, Zenon DEF MakesOp, OwnEdit

\* So is remove_operation.
LEMMA EraseOwn ==
  ASSUME layout \in Layouts, NEW k \in Tasks, NEW d, NEW e, NEW o \in ReplacesOps[k],
         ErasesOp(d, e, o)
  PROVE  OwnEdit(k, d, e, {o})
<1>1. o \in Ops /\ OpOwner[o] = Targets[k] /\ Res[o] \in Values
  BY Laid, Results, Zenon
<1>2. Notes(d, e)
  BY Zenon DEF ErasesOp, Notes, Readers
<1>3. \A x \in Ops : Gone(d, x) => Gone(e, x)
  BY Zenon DEF ErasesOp, Gone
<1>4. \A w \in Values : Erased(d, w) => Erased(e, w)
  BY Zenon DEF ErasesOp, Erased
<1> QED BY <1>1, <1>2, <1>3, <1>4, Zenon DEF ErasesOp, OwnEdit

\* Replacing the uses of a value, in the rows of other partitions too.
LEMMA MovesReached ==
  ASSUME layout \in Layouts, IsStore(db), NEW k \in Tasks, NEW d, NEW e,
         NEW old \in Values, NEW new \in Values,
         Kept(k, d), Reached(k, d), MovesUses(d, e, old, new), d.map[old] \in {old, new}
  PROVE  Reached(k, e)
<1>1. d.op \in [Ops -> Rows] /\ db.op \in [Ops -> Rows] /\ d.wrote \subseteq Ops /\ Uses(d, old) \subseteq Ops
  BY Zenon DEF Kept, IsStore, Uses
<1> SUFFICES ASSUME NEW x \in e.wrote, OpOwner[x] # Targets[k]
             PROVE  /\ e.retargets /\ x \in db.made
                    /\ e.op[x].live /\ db.op[x].live /\ e.op[x].cell = db.op[x].cell
                    /\ e.op[x].operand = e.map[db.op[x].operand]
                    /\ OpOwner[x] \in Readers(e, e.op[x].operand)
  BY Zenon DEF Reached
<1>2. x \in Ops /\ x \in d.wrote \cup Uses(d, old) /\ e.retargets
  BY <1>1, Zenon DEF MovesUses
<1>3. e.op[x].live = d.op[x].live /\ e.op[x].cell = d.op[x].cell
  BY <1>2, Zenon DEF MovesUses
<1>4. \A v \in Values : e.map[v] = IF v = old \/ d.map[v] = old THEN new ELSE d.map[v]
  BY Zenon DEF MovesUses
<1>5. /\ d.op[x].live /\ db.op[x].live /\ d.op[x].cell = db.op[x].cell /\ x \in db.made
      /\ db.op[x].operand \in Values
      /\ \/ d.op[x].operand = d.map[db.op[x].operand]
         \/ d.op[x].operand = db.op[x].operand /\ d.op[x].operand = old
  <2>1. CASE x \in d.wrote
    <3>1. /\ d.op[x].operand = d.map[db.op[x].operand] /\ d.op[x].live /\ db.op[x].live
          /\ d.op[x].cell = db.op[x].cell /\ x \in db.made
      BY <2>1, Zenon DEF Reached
    <3> QED BY <3>1, <1>1, <1>2, Zenon DEF Rows
  <2>2. CASE x \notin d.wrote
    <3>1. x \in Uses(d, old) /\ d.op[x] = db.op[x]
      BY <1>2, <2>2, Zenon DEF Kept, Unwritten
    <3>2. d.op[x].live /\ d.op[x].operand = old
      BY <3>1, Zenon DEF Uses
    <3>3. x \in d.made /\ x \notin MakesOps[k]
      BY <1>2, <3>2, Laid, Zenon DEF Kept, Made
    <3>4. x \in db.made
      BY <3>3, ZenonT(40) DEF Kept, Made
    <3> QED BY <3>1, <3>2, <3>4, Zenon
  <2> QED BY <2>1, <2>2, Zenon
<1>6. CASE x \in Uses(d, old)
  <2>1. e.op[x].operand = new /\ OpOwner[x] \in Readers(e, new)
    BY <1>2, <1>6, Zenon DEF MovesUses
  <2>2. d.op[x].operand = old
    BY <1>6, ZenonT(40) DEF Uses
  <2> QED BY <1>2, <1>3, <1>4, <1>5, <2>1, <2>2
<1>7. CASE x \notin Uses(d, old)
  <2>1. e.op[x] = d.op[x] /\ x \in d.wrote
    BY <1>2, <1>7, Zenon DEF MovesUses
  <2>2. d.op[x].operand = d.map[db.op[x].operand] /\ OpOwner[x] \in Readers(d, d.op[x].operand)
    BY <2>1, Zenon DEF Reached
  <2>3. d.op[x].operand # old
    BY <1>2, <1>5, <1>7, <2>2, Zenon DEF Uses
  <2>4. d.op[x].operand \in Values
    BY <1>1, <1>2, Zenon DEF Rows
  <2>5. OpOwner[x] \in Readers(e, d.op[x].operand)
    BY <2>2, <2>4, Zenon DEF MovesUses, Notes
  <2> QED BY <1>2, <1>3, <1>4, <1>5, <2>1, <2>2, <2>3, <2>5
<1> QED BY <1>6, <1>7, Zenon

\* Context::replace_value_uses
LEMMA MovesOnce ==
  ASSUME layout \in Layouts, ReplacesOnce, NEW k \in Tasks, NEW d, NEW e,
         NEW old \in Values, NEW new \in Values, <<old, new>> \in ReplacesUses[k],
         Once(k, d), MovesUses(d, e, old, new)
  PROVE  Once(k, e)
<1>1. \A o \in ReplacesOps[k] : o \in Ops /\ Res[o] \in Values /\ Res[o] # old
  BY Laid, Results DEF ReplacesOnce
<1>2. \A r \in ReplacesUses[k] : /\ r[1] \in Values /\ r[2] \in Values /\ r[2] # old
                                 /\ r[1] = old => r[2] = new
  <2>1. \A r \in ReplacesUses[k] : r[1] \in Values /\ r[2] \in Values
    BY Laid, Zenon
  <2>2. \A r \in ReplacesUses[k] : r[2] # old /\ (r[1] = old => r = <<old, new>>)
    BY DEF ReplacesOnce
  <2> QED BY <2>1, <2>2
<1>3. /\ \A v \in Values : e.map[v] = IF v = old \/ d.map[v] = old THEN new ELSE d.map[v]
      /\ \A o \in Ops : Gone(d, o) => Gone(e, o)
      /\ \A v \in Values : Erased(d, v) => Erased(e, v)
  BY Zenon DEF MovesUses, Gone, Erased
<1>4. \A o \in ReplacesOps[k] : e.map[Res[o]] = Res[o] \/ Gone(e, o)
  BY <1>1, <1>3, Zenon DEF Once
<1>5. \A r \in ReplacesUses[k] : e.map[r[1]] \in {r[1], r[2]} \/ Erased(e, r[2])
  BY <1>2, <1>3, Zenon DEF Once
<1> QED BY <1>4, <1>5, Zenon DEF Once

\* Context::replace_op, once the new op is built: the uses are replaced and the op erased.
LEMMA EraseOnce ==
  ASSUME layout \in Layouts, ReplacesOnce, NEW k \in Tasks, NEW b, NEW d, NEW e,
         NEW old \in ReplacesOps[k], NEW new \in Ops, old \in b.made,
         Kept(k, b), Once(k, b), MovesUses(b, d, Res[old], Res[new]), ErasesOp(d, e, old)
  PROVE  Once(k, e)
<1>1. \A o \in ReplacesOps[k] : o \in Ops /\ Res[o] \in Values
  BY Laid, Results, Zenon
<1>2. \A r \in ReplacesUses[k] : r[1] \in Values /\ r[2] \in Values /\ r[1] # Res[old]
  BY Laid DEF ReplacesOnce
<1>3. \A v \in Values : e.map[v] = IF v = Res[old] \/ b.map[v] = Res[old] THEN Res[new] ELSE b.map[v]
  BY DEF MovesUses, ErasesOp
<1>4. \A o \in Ops : Gone(b, o) \/ o = old => Gone(e, o)
  BY <1>1 DEF MovesUses, ErasesOp, Gone
<1>5. \A v \in Values : Erased(b, v) \/ v = Res[old] => Erased(e, v)
  BY <1>1, Zenon DEF MovesUses, ErasesOp, Erased
<1>6. \A o \in ReplacesOps[k] : e.map[Res[o]] = Res[o] \/ Gone(e, o)
  <2> SUFFICES ASSUME NEW o \in ReplacesOps[k], o # old, b.map[Res[o]] = Res[o]
               PROVE  e.map[Res[o]] = Res[o]
    BY <1>1, <1>4, Zenon DEF Once
  <2>1. Res[o] # Res[old]
    BY <1>1, IdsAssumption, Zenon
  <2> QED BY <1>1, <1>3, <2>1, Zenon
<1>7. \A r \in ReplacesUses[k] : e.map[r[1]] \in {r[1], r[2]} \/ Erased(e, r[2])
  BY <1>2, <1>3, <1>5, Zenon DEF Once
<1> QED BY <1>6, <1>7, Zenon DEF Once

-----------------------------------------------------------------------------
\* In the first epoch every edit keeps the reads of a task's store live and noticed.

\* set_operand to a live value notes the reader.
LEMMA OperandSound ==
  ASSUME NEW d, NEW e, NEW ops, NEW v \in Values,
         IsStore(d), Noticed(d), Sound(d), SetsOperand(d, e, ops, v), d.value[v]
  PROVE  Noticed(e) /\ Sound(e)
<1>1. d.op \in [Ops -> Rows]
  BY Zenon DEF IsStore
<1>2. Noticed(e)
  <2> SUFFICES ASSUME NEW o \in Ops, e.op[o].live PROVE OpOwner[o] \in Readers(e, e.op[o].operand)
    BY Zenon DEF Noticed
  <2>1. d.op[o].live /\ OpOwner[o] \in Readers(d, d.op[o].operand) /\ d.op[o].operand \in Values
    BY <1>1, Zenon DEF SetsOperand, Noticed, Rows
  <2>2. CASE o \in ops
    BY <2>2, Zenon DEF SetsOperand
  <2>3. CASE o \notin ops
    BY <2>1, <2>3, Zenon DEF SetsOperand, Notes
  <2> QED BY <2>2, <2>3, Zenon
<1>3. ReadsLive(e)
  <2> SUFFICES ASSUME NEW o \in Ops, e.op[o].live PROVE e.value[e.op[o].operand]
    BY Zenon DEF ReadsLive
  <2>1. d.op[o].live /\ d.value[d.op[o].operand] /\ e.value = d.value
    BY Zenon DEF SetsOperand, Sound, ReadsLive
  <2> QED BY <2>1, Zenon DEF SetsOperand
<1> QED BY <1>2, <1>3 DEF SetsOperand, Sound, Erased

\* set_op_attrs changes no read.
LEMMA CellSound ==
  ASSUME NEW d, NEW e, NEW o \in Ops, NEW c, Noticed(d), Sound(d), SetsCell(d, e, o, c)
  PROVE  Noticed(e) /\ Sound(e)
<1>1. \A x \in Ops : e.op[x].live = d.op[x].live /\ e.op[x].operand = d.op[x].operand
  BY Zenon DEF SetsCell
<1>2. Noticed(e)
  BY <1>1, Zenon DEF Noticed, SetsCell, Readers
<1> QED BY <1>1, <1>2, Zenon DEF SetsCell, Sound, ReadsLive, Erased

\* bump changes no read.
LEMMA CountSound ==
  ASSUME NEW d, NEW e, NEW ops, Noticed(d), Sound(d), CountsOps(d, e, ops)
  PROVE  Noticed(e) /\ Sound(e)
BY Zenon DEF Noticed, Sound, ReadsLive, Erased, Readers, CountsOps

\* add_operation reads a live value and notes the reader.
LEMMA NewOpSound ==
  ASSUME layout \in Layouts, NEW k \in Tasks, NEW d, NEW e, NEW o \in MakesOps[k], NEW v \in Values,
         NEW c, Kept(k, d), o \notin d.made, Noticed(d), Sound(d), MakesOp(d, e, o, v, c), d.value[v]
  PROVE  Noticed(e) /\ Sound(e)
<1>1. d.op \in [Ops -> Rows] /\ o \in Ops /\ Res[o] \in Values /\ d.map \in [Values -> Values]
  BY Laid, Results, Zenon DEF IsStore, Kept
<1>2. \A w \in Values : d.value[w] => e.value[w]
  BY Zenon DEF MakesOp
<1>3. e.op[o].live /\ e.op[o].operand = v
  BY DEF MakesOp
<1>4. Noticed(e)
  <2> SUFFICES ASSUME NEW x \in Ops, e.op[x].live PROVE OpOwner[x] \in Readers(e, e.op[x].operand)
    BY Zenon DEF Noticed
  <2>1. CASE x = o
    BY <1>3, <2>1, Zenon DEF MakesOp
  <2>2. CASE x # o
    <3>1. e.op[x] = d.op[x] /\ d.op[x].operand \in Values
      BY <1>1, <2>2, Zenon DEF MakesOp, Rows
    <3> QED BY <3>1, Zenon DEF MakesOp, Noticed, Notes
  <2> QED BY <2>1, <2>2, Zenon
<1>5. ReadsLive(e)
  <2> SUFFICES ASSUME NEW x \in Ops, e.op[x].live PROVE e.value[e.op[x].operand]
    BY Zenon DEF ReadsLive
  <2>1. CASE x = o
    BY <1>2, <1>3, <2>1, Zenon
  <2>2. CASE x # o
    <3>1. e.op[x] = d.op[x] /\ d.op[x].operand \in Values
      BY <1>1, <2>2, Zenon DEF MakesOp, Rows
    <3> QED BY <1>2, <3>1, Zenon DEF Sound, ReadsLive
  <2> QED BY <2>1, <2>2, Zenon
<1>6. \A w \in Values : e.map[w] # w => e.value[e.map[w]]
  BY <1>1, <1>2, Zenon DEF MakesOp, Sound
<1>7. \A w \in Values : Erased(e, w) => Erased(d, w)
  <2> SUFFICES ASSUME NEW w \in Values, Erased(e, w) PROVE Erased(d, w)
    BY Zenon
  <2>1. w # Res[o]
    BY Zenon DEF Erased, MakesOp
  <2> QED BY <2>1, Zenon DEF Erased, MakesOp
<1>8. \A w \in Values : Erased(e, w) => e.map[w] # w
  BY <1>7, ZenonT(40) DEF MakesOp, Sound
<1> QED BY <1>4, <1>5, <1>6, <1>8, Zenon DEF Sound

NotRead(d, v) == \A o \in Ops : d.op[o].live => d.op[o].operand # v

\* replace_value_uses by a live value notes every reader.
LEMMA MovesSound ==
  ASSUME NEW d, NEW e, NEW old \in Values, NEW new \in Values,
         IsStore(d), Noticed(d), Sound(d), MovesUses(d, e, old, new), d.value[new]
  PROVE  Noticed(e) /\ Sound(e)
<1>1. d.op \in [Ops -> Rows] /\ Uses(d, old) \subseteq Ops
  BY Zenon DEF IsStore, Uses
<1>2. \A o \in Ops : e.op[o].live =>
        e.value[e.op[o].operand] /\ OpOwner[o] \in Readers(e, e.op[o].operand)
  <2> SUFFICES ASSUME NEW o \in Ops, e.op[o].live
               PROVE  e.value[e.op[o].operand] /\ OpOwner[o] \in Readers(e, e.op[o].operand)
    BY Zenon
  <2>1. /\ d.op[o].live /\ OpOwner[o] \in Readers(d, d.op[o].operand) /\ d.op[o].operand \in Values
        /\ d.value[d.op[o].operand] /\ e.value = d.value
    BY <1>1, ZenonT(40) DEF MovesUses, Noticed, Sound, ReadsLive, Rows
  <2>2. CASE o \in Uses(d, old)
    BY <2>1, <2>2, Zenon DEF MovesUses
  <2>3. CASE o \notin Uses(d, old)
    <3>1. e.op[o] = d.op[o] /\ d.op[o].operand # old
      BY <2>1, <2>3, Zenon DEF MovesUses, Uses
    <3> QED BY <2>1, <3>1, Zenon DEF MovesUses, Notes
  <2> QED BY <2>2, <2>3, Zenon
<1>3. \A v \in Values : e.map[v] # v => e.value[e.map[v]]
  BY ZenonT(40) DEF MovesUses, Sound
<1>4. \A v \in Values : Erased(e, v) => e.map[v] # v
  <2> SUFFICES ASSUME NEW v \in Values, Erased(e, v) PROVE e.map[v] # v
    BY Zenon
  <2>1. Erased(d, v) /\ v # new
    BY Zenon DEF MovesUses, Erased
  <2>2. d.map[v] # v
    BY <2>1, Zenon DEF Sound
  <2> QED BY <2>1, <2>2, Zenon DEF MovesUses
<1>5. Noticed(e) /\ ReadsLive(e)
  BY <1>2, Zenon DEF Noticed, ReadsLive
<1> QED BY <1>3, <1>4, <1>5, Zenon DEF Sound

\* replace_value_uses finds every read of the value, as they are all noticed.
LEMMA MovesAll ==
  ASSUME NEW d, NEW e, NEW old \in Values, NEW new \in Values, old # new,
         Noticed(d), MovesUses(d, e, old, new)
  PROVE  NotRead(e, old)
<1> SUFFICES ASSUME NEW o \in Ops, e.op[o].live PROVE e.op[o].operand # old
  BY Zenon DEF NotRead
<1>1. d.op[o].live /\ OpOwner[o] \in Readers(d, d.op[o].operand)
  BY Zenon DEF MovesUses, Noticed
<1>2. CASE o \in Uses(d, old)
  BY <1>2, Zenon DEF MovesUses
<1>3. CASE o \notin Uses(d, old)
  BY <1>1, <1>3, Zenon DEF MovesUses, Uses
<1> QED BY <1>2, <1>3, Zenon

\* remove_operation of an op whose result nothing reads any more.
LEMMA EraseSound ==
  ASSUME layout \in Layouts, NEW d, NEW e, NEW o \in Ops,
         IsStore(d), Noticed(d), Sound(d), ErasesOp(d, e, o), d.map[Res[o]] # Res[o],
         \A v \in Values : d.map[v] # Res[o],
         NotRead(d, Res[o])
  PROVE  Noticed(e) /\ Sound(e)
<1>1. d.op \in [Ops -> Rows] /\ Res[o] \in Values /\ d.map \in [Values -> Values]
  BY Results, Zenon DEF IsStore
<1>2. \A x \in Ops : e.op[x].live =>
        e.value[e.op[x].operand] /\ OpOwner[x] \in Readers(e, e.op[x].operand)
  <2> SUFFICES ASSUME NEW x \in Ops, e.op[x].live
               PROVE  e.value[e.op[x].operand] /\ OpOwner[x] \in Readers(e, e.op[x].operand)
    BY Zenon
  <2>1. x # o /\ e.op[x] = d.op[x]
    BY Zenon DEF ErasesOp
  <2>2. /\ d.op[x].operand \in Values /\ d.op[x].operand # Res[o]
        /\ d.value[d.op[x].operand] /\ OpOwner[x] \in Readers(d, d.op[x].operand)
    BY <1>1, <2>1, Zenon DEF Rows, Sound, ReadsLive, Noticed, NotRead
  <2> QED BY <2>1, <2>2, Zenon DEF ErasesOp, Readers
<1>3. \A v \in Values : e.map[v] # v => e.value[e.map[v]]
  BY <1>1, Zenon DEF ErasesOp, Sound
<1>4. \A v \in Values : Erased(e, v) => e.map[v] # v
  BY <1>1 DEF ErasesOp, Sound, Erased
<1>5. Noticed(e) /\ ReadsLive(e)
  BY <1>2, Zenon DEF Noticed, ReadsLive
<1> QED BY <1>3, <1>4, <1>5, Zenon DEF Sound

\* An edit that changes a row counts in the row's partition.
Changes(d, e) ==
  /\ d.total <= e.total
  /\ e.settled = d.settled
  /\ \A p \in Parts : d.edits[p] <= e.edits[p]
  /\ \A o \in Ops : e.op[o] # d.op[o] => e.edits[OpOwner[o]] # d.edits[OpOwner[o]]

RowsStay(d, e, moved) == \A o \in Ops : OpOwner[o] \notin moved => e.op[o] = d.op[o]

\* An edit that leaves the rows of the partitions it does not count in.
LEMMA GrewChanges ==
  ASSUME layout \in Layouts, NEW d, NEW e, NEW moved, Grew(d, e, moved),
         RowsStay(d, e, moved)
  PROVE  Changes(d, e)
<1>1. \A o \in Ops : OpOwner[o] \in Parts
  BY Laid, Zenon
<1> QED BY <1>1, Zenon DEF Grew, Changes, RowsStay

\* A settled version stays behind, or current over the rows it was taken from.
LEMMA MarkedStays ==
  ASSUME layout \in Layouts, NEW d, NEW e, IsStore(d), IsStore(e), Marked(d), Changes(d, e)
  PROVE  Marked(e)
<1> SUFFICES ASSUME NEW p \in Parts, e.settled[p].at
             PROVE  /\ p # 0 /\ e.settled[p].version \in Nat /\ e.settled[p].version <= Version(e, p)
                    /\ e.settled[p].version = Version(e, p) => e.settled[p].rows = RowsOf(e, p)
  BY Zenon DEF Marked
<1>1. /\ e.settled[p] = d.settled[p] /\ p # 0 /\ d.settled[p].version \in Nat
      /\ d.settled[p].version <= Version(d, p)
      /\ d.settled[p].version = Version(d, p) => d.settled[p].rows = RowsOf(d, p)
  BY Zenon DEF Marked, Changes
<1>2. /\ d.edits[p] \in Nat /\ e.edits[p] \in Nat /\ d.edits[p] <= e.edits[p]
      /\ d.edits[0] \in Nat /\ e.edits[0] \in Nat /\ d.edits[0] <= e.edits[0]
  BY IdsAssumption, Zenon DEF IsStore, Changes
<1>3. Version(d, p) = d.edits[p] + d.edits[0] /\ Version(e, p) = e.edits[p] + e.edits[0]
  BY <1>1, Zenon DEF Version
<1>4. e.settled[p].version <= Version(e, p)
  BY <1>1, <1>2, <1>3
<1>5. ASSUME e.settled[p].version = Version(e, p) PROVE e.settled[p].rows = RowsOf(e, p)
  <2>1. d.settled[p].version = Version(d, p) /\ e.edits[p] = d.edits[p]
    BY <1>1, <1>2, <1>3, <1>5
  <2>2. \A o \in Ops : OpOwner[o] = p => e.op[o] = d.op[o]
    BY <2>1, Zenon DEF Changes
  <2>3. RowsOf(e, p) = RowsOf(d, p)
    BY <2>2, Zenon DEF RowsOf
  <2> QED BY <1>1, <2>1, <2>3
<1> QED BY <1>1, <1>4, <1>5, Zenon

-----------------------------------------------------------------------------
\* Each edit of a task keeps what is said of its store.

\* set_operand
LEMMA OperandTask ==
  ASSUME layout \in Layouts, IsStore(db), NEW k \in Tasks, NEW d, TaskInv(k, d),
         NEW o \in Ops, OpOwner[o] = Targets[k], NEW v \in Values, d.value[v],
         NEW e, e = WithOperand(d, {o}, v)
  PROVE  TaskInv(k, e)
<1>1. Kept(k, d) /\ IsStore(d) /\ {o} \in SUBSET Ops
  BY Zenon DEF TaskInv, Kept
<1>2. SetsOperand(d, e, {o}, v)
  BY <1>1, OperandStore, Zenon
<1>3. Kept(k, e)
  BY <1>1, OperandKept, Zenon
<1>4. IsStore(e)
  BY <1>3, Zenon DEF Kept
<1>5. ASSUME ReplacesOnce PROVE Reached(k, e) /\ Once(k, e)
  <2>1. Reached(k, d) /\ Once(k, d)
    BY <1>5, Zenon DEF TaskInv
  <2>2. OwnEdit(k, d, e, {o})
    BY <1>2, OperandOwn, Zenon
  <2> QED BY <1>1, <2>1, <2>2, OwnReached, OwnOnce, Zenon
<1>6. ASSUME epoch = 0 PROVE Noticed(e) /\ Sound(e) /\ Marked(e)
  <2>1. Noticed(d) /\ Sound(d) /\ Marked(d)
    BY <1>6, Zenon DEF TaskInv
  <2>2. Noticed(e) /\ Sound(e)
    BY <1>1, <1>2, <2>1, OperandSound, Zenon
  <2>3. Changes(d, e)
    <3>1. Grew(d, e, {OpOwner[x] : x \in {o}}) /\ RowsStay(d, e, {OpOwner[x] : x \in {o}})
      BY <1>2, Zenon DEF SetsOperand, RowsStay
    <3> QED BY <3>1, GrewChanges, Zenon
  <2> QED BY <1>1, <1>4, <2>1, <2>2, <2>3, MarkedStays, ZenonT(40)
<1> QED BY <1>3, <1>5, <1>6, Zenon DEF TaskInv

\* set_op_attrs
LEMMA CellTask ==
  ASSUME layout \in Layouts, IsStore(db), NEW k \in Tasks, NEW d, TaskInv(k, d),
         NEW o \in Ops, OpOwner[o] = Targets[k], NEW c \in Cells, NEW e, e = WithCell(d, o, c)
  PROVE  TaskInv(k, e)
<1>1. Kept(k, d) /\ IsStore(d)
  BY Zenon DEF TaskInv, Kept
<1>2. SetsCell(d, e, o, c)
  BY <1>1, CellStore, Zenon
<1>3. Kept(k, e)
  BY <1>1, CellKept, Zenon
<1>4. IsStore(e)
  BY <1>3, Zenon DEF Kept
<1>5. ASSUME ReplacesOnce PROVE Reached(k, e) /\ Once(k, e)
  <2>1. Reached(k, d) /\ Once(k, d)
    BY <1>5, Zenon DEF TaskInv
  <2>2. OwnEdit(k, d, e, {o})
    BY <1>2, CellOwn, Zenon
  <2> QED BY <1>1, <2>1, <2>2, OwnReached, OwnOnce, Zenon
<1>6. ASSUME epoch = 0 PROVE Noticed(e) /\ Sound(e) /\ Marked(e)
  <2>1. Noticed(d) /\ Sound(d) /\ Marked(d)
    BY <1>6, Zenon DEF TaskInv
  <2>2. Noticed(e) /\ Sound(e)
    BY <1>2, <2>1, CellSound, Zenon
  <2>3. Changes(d, e)
    <3>1. Grew(d, e, {OpOwner[o]}) /\ RowsStay(d, e, {OpOwner[o]})
      BY <1>2, Zenon DEF SetsCell, RowsStay
    <3> QED BY <3>1, GrewChanges, Zenon
  <2> QED BY <1>1, <1>4, <2>1, <2>2, <2>3, MarkedStays, ZenonT(40)
<1> QED BY <1>3, <1>5, <1>6, Zenon DEF TaskInv

\* bump
LEMMA CountTask ==
  ASSUME layout \in Layouts, IsStore(db), NEW k \in Tasks, NEW d, TaskInv(k, d),
         NEW ops \in SUBSET Ops, NEW e, e = Bumped(d, ops)
  PROVE  TaskInv(k, e)
<1>1. Kept(k, d) /\ IsStore(d)
  BY Zenon DEF TaskInv, Kept
<1>2. CountsOps(d, e, ops)
  BY <1>1, BumpedStore, Zenon
<1>3. Kept(k, e)
  BY <1>1, BumpedKept, Zenon
<1>4. IsStore(e)
  BY <1>3, Zenon DEF Kept
<1>5. ASSUME ReplacesOnce PROVE Reached(k, e) /\ Once(k, e)
  <2>1. Reached(k, d) /\ Once(k, d)
    BY <1>5, Zenon DEF TaskInv
  <2>2. OwnEdit(k, d, e, {})
    BY <1>2, CountOwn, Zenon
  <2> QED BY <1>1, <2>1, <2>2, OwnReached, OwnOnce, Zenon
<1>6. ASSUME epoch = 0 PROVE Noticed(e) /\ Sound(e) /\ Marked(e)
  <2>1. Noticed(d) /\ Sound(d) /\ Marked(d)
    BY <1>6, Zenon DEF TaskInv
  <2>2. Noticed(e) /\ Sound(e)
    BY <1>2, <2>1, CountSound, Zenon
  <2>3. Changes(d, e)
    <3>1. Grew(d, e, {OpOwner[o] : o \in ops}) /\ RowsStay(d, e, {OpOwner[o] : o \in ops})
      BY <1>2, Zenon DEF CountsOps, RowsStay
    <3> QED BY <3>1, GrewChanges, Zenon
  <2> QED BY <1>1, <1>4, <2>1, <2>2, <2>3, MarkedStays, Zenon
<1> QED BY <1>3, <1>5, <1>6, Zenon DEF TaskInv

\* `v` is asked to be live only where that is needed: an op replaced in a later epoch
\* may read an erased value.
LEMMA NewOpTask ==
  ASSUME layout \in Layouts, IsStore(db), NEW k \in Tasks, NEW d, TaskInv(k, d),
         NEW o \in MakesOps[k], o \notin d.made, NEW v \in Values, epoch = 0 => d.value[v],
         NEW c \in Cells, NEW e, e = WithOp(d, o, v, c)
  PROVE  TaskInv(k, e)
<1>1. Kept(k, d) /\ IsStore(d) /\ o \in Ops
  BY Laid, Zenon DEF TaskInv, Kept
<1>2. MakesOp(d, e, o, v, c)
  BY <1>1, NewOpStore, Zenon
<1>3. Kept(k, e)
  BY <1>1, NewOpKept, Zenon
<1>4. IsStore(e)
  BY <1>3, Zenon DEF Kept
<1>5. ASSUME ReplacesOnce PROVE Reached(k, e) /\ Once(k, e)
  <2>1. Reached(k, d) /\ Once(k, d)
    BY <1>5, Zenon DEF TaskInv
  <2>2. OwnEdit(k, d, e, {o})
    BY <1>1, <1>2, NewOpOwn, Zenon
  <2> QED BY <1>1, <2>1, <2>2, OwnReached, OwnOnce, Zenon
<1>6. ASSUME epoch = 0 PROVE Noticed(e) /\ Sound(e) /\ Marked(e)
  <2>1. Noticed(d) /\ Sound(d) /\ Marked(d) /\ d.value[v]
    BY <1>6, Zenon DEF TaskInv
  <2>2. Noticed(e) /\ Sound(e)
    BY <1>1, <1>2, <2>1, NewOpSound, Zenon
  <2>3. Changes(d, e)
    <3>1. Grew(d, e, {OpOwner[o]}) /\ RowsStay(d, e, {OpOwner[o]})
      BY <1>2, Zenon DEF MakesOp, RowsStay
    <3> QED BY <3>1, GrewChanges, Zenon
  <2> QED BY <1>1, <1>4, <2>1, <2>2, <2>3, MarkedStays, Zenon
<1> QED BY <1>3, <1>5, <1>6, Zenon DEF TaskInv

\* replace_value_uses
LEMMA MovesTask ==
  ASSUME layout \in Layouts, IsStore(db), NEW k \in Tasks, NEW d, TaskInv(k, d),
         NEW old \in Values, NEW new \in Values, <<old, new>> \in ReplacesUses[k], d.value[new],
         NEW e, e = WithUsesReplaced(d, old, new)
  PROVE  TaskInv(k, e)
<1>1. Kept(k, d) /\ IsStore(d) /\ old \in Olds(k) /\ new \in News(k) /\ Uses(d, old) \subseteq Ops
  BY DEF TaskInv, Kept, Olds, News, Uses
<1>2. MovesUses(d, e, old, new)
  BY <1>1, ReplacedStore, Zenon
<1>3. Kept(k, e)
  BY <1>1, ReplacedKept, Zenon
<1>4. IsStore(e)
  BY <1>3, Zenon DEF Kept
<1>5. ASSUME ReplacesOnce PROVE Reached(k, e) /\ Once(k, e)
  <2>1. Reached(k, d) /\ Once(k, d)
    BY <1>5, Zenon DEF TaskInv
  <2>2. d.map[old] \in {old, new}
    BY <2>1, Zenon DEF Once, Erased
  <2>3. Reached(k, e)
    BY <1>1, <1>2, <2>1, <2>2, MovesReached, Zenon
  <2>4. Once(k, e)
    BY <1>2, <1>5, <2>1, MovesOnce, Zenon
  <2> QED BY <2>3, <2>4, Zenon
<1>6. ASSUME epoch = 0 PROVE Noticed(e) /\ Sound(e) /\ Marked(e)
  <2>1. Noticed(d) /\ Sound(d) /\ Marked(d)
    BY <1>6, Zenon DEF TaskInv
  <2>2. Noticed(e) /\ Sound(e)
    BY <1>1, <1>2, <2>1, MovesSound, Zenon
  <2>3. Changes(d, e)
    <3>1. Grew(d, e, {OpOwner[o] : o \in Uses(d, old)}) /\ RowsStay(d, e, {OpOwner[o] : o \in Uses(d, old)})
      BY <1>2, Zenon DEF MovesUses, RowsStay
    <3> QED BY <3>1, GrewChanges, Zenon
  <2> QED BY <1>1, <1>4, <2>1, <2>2, <2>3, MarkedStays, Zenon
<1> QED BY <1>3, <1>5, <1>6, ZenonT(40) DEF TaskInv

\* replace_op: the new op built, the uses replaced, the old op erased.
LEMMA ReplaceTask ==
  ASSUME layout \in Layouts, IsStore(db), NEW k \in Tasks, NEW d, TaskInv(k, d),
         NEW old \in ReplacesOps[k], d.op[old].live, NEW new \in MakesOps[k], new \notin d.made,
         NEW a, a = Bumped(d, {old}), NEW b, b = WithOp(a, new, d.op[old].operand, 1),
         NEW c, c = WithUsesReplaced(b, Res[old], Res[new]), NEW e, e = WithoutOp(c, old)
  PROVE  TaskInv(k, e)
<1>1. /\ Kept(k, d) /\ IsStore(d) /\ old \in Ops /\ new \in Ops /\ old # new /\ 1 \in Cells
      /\ Res[old] \in Values /\ Res[new] \in Values /\ Res[old] # Res[new]
      /\ d.op[old].operand \in Values /\ {old} \in SUBSET Ops /\ old \in d.made
      /\ Res[old] \in Olds(k) /\ Res[new] \in News(k)
  <2>1. Kept(k, d) /\ IsStore(d)
    BY Zenon DEF TaskInv, Kept
  <2>2. old \in Ops /\ new \in Ops /\ old \in d.made
    BY <2>1, Laid, Zenon DEF Kept, Made
  <2>3. d.op[old].operand \in Values
    BY <2>1, <2>2, Zenon DEF IsStore, Rows
  <2>4. Res[old] \in Values /\ Res[new] \in Values /\ Res[old] # Res[new]
    BY <2>2, Results, IdsAssumption, Zenon
  <2> QED BY <2>1, <2>2, <2>3, <2>4, Zenon DEF Olds, News, Cells
<1>2. TaskInv(k, a) /\ CountsOps(d, a, {old})
  BY <1>1, CountTask, BumpedStore, Zenon
<1>3. Kept(k, a) /\ IsStore(a) /\ a.op = d.op /\ a.made = d.made /\ a.value = d.value
  BY <1>2, Zenon DEF TaskInv, Kept, CountsOps
<1>4. epoch = 0 => a.value[d.op[old].operand]
  <2>1. epoch = 0 => ReadsLive(d)
    BY Zenon DEF TaskInv, Sound
  <2> QED BY <1>1, <1>3, <2>1, Zenon DEF ReadsLive
<1>5. TaskInv(k, b) /\ MakesOp(a, b, new, d.op[old].operand, 1)
  <2>1. new \notin a.made
    BY <1>3, Zenon
  <2>2. TaskInv(k, b)
    BY <1>1, <1>2, <1>4, <2>1, NewOpTask, Zenon
  <2> QED BY <1>1, <1>3, <2>2, NewOpStore, Zenon
<1>6. /\ Kept(k, b) /\ IsStore(b) /\ old \in b.made /\ b.op[old].live /\ b.value[Res[new]]
      /\ new \in b.made
  <2>1. Kept(k, b) /\ IsStore(b)
    BY <1>5, Zenon DEF TaskInv, Kept
  <2>2. /\ b.made = a.made \cup {new} /\ b.value[Res[new]]
        /\ \A x \in Ops \ {new} : b.op[x] = a.op[x]
    BY <1>5, Zenon DEF MakesOp
  <2> QED BY <1>1, <1>3, <2>1, <2>2, ZenonT(40)
<1>7. MovesUses(b, c, Res[old], Res[new])
  BY <1>1, <1>6, ReplacedStore, Zenon
<1>8. Kept(k, c)
  BY <1>1, <1>6, ReplacedKept, Zenon
<1>9. IsStore(c) /\ old \in c.made /\ Uses(b, Res[old]) \subseteq Ops
  BY <1>6, <1>7, <1>8, Zenon DEF Kept, MovesUses, Uses
<1>10. ErasesOp(c, e, old)
  BY <1>1, <1>9, ErasedStore, Zenon
<1>11. Kept(k, e)
  BY <1>8, <1>9, ErasedKept, Zenon
<1>12. IsStore(e)
  BY <1>11, Zenon DEF Kept
<1>13. ASSUME ReplacesOnce PROVE Reached(k, e) /\ Once(k, e)
  <2>1. Reached(k, b) /\ Once(k, b)
    BY <1>5, <1>13, Zenon DEF TaskInv
  <2>2. b.map[Res[old]] \in {Res[old], Res[new]}
    BY <1>6, <2>1, Zenon DEF Once, Gone
  <2>3. Reached(k, c)
    BY <1>1, <1>6, <1>7, <2>1, <2>2, MovesReached, Zenon
  <2>4. OwnEdit(k, c, e, {old})
    BY <1>10, EraseOwn, Zenon
  <2>5. Reached(k, e)
    BY <1>8, <2>3, <2>4, OwnReached, Zenon
  <2>6. Once(k, e)
    BY <1>1, <1>6, <1>7, <1>10, <1>13, <2>1, EraseOnce, ZenonT(40)
  <2> QED BY <2>5, <2>6, Zenon
<1>14. ASSUME epoch = 0 PROVE Noticed(e) /\ Sound(e) /\ Marked(e)
  <2>1. Noticed(b) /\ Sound(b) /\ Marked(b)
    BY <1>5, <1>14, Zenon DEF TaskInv
  <2>2. Noticed(c) /\ Sound(c) /\ NotRead(c, Res[old])
    <3>1. /\ Res[old] \in Values /\ Res[new] \in Values /\ IsStore(b) /\ b.value[Res[new]]
          /\ Noticed(b) /\ Sound(b) /\ MovesUses(b, c, Res[old], Res[new])
      BY <1>1, <1>6, <1>7, <2>1, Zenon
    <3>2. Noticed(c) /\ Sound(c)
      BY <3>1, MovesSound, Zenon
    <3>3. NotRead(c, Res[old])
      BY <1>1, <3>1, MovesAll, Zenon
    <3> QED BY <3>2, <3>3, Zenon
  <2>3. c.map[Res[old]] # Res[old] /\ \A v \in Values : c.map[v] # Res[old]
    <3>1. \A v \in Values :
            c.map[v] = IF v = Res[old] \/ b.map[v] = Res[old] THEN Res[new] ELSE b.map[v]
      BY <1>7, Zenon DEF MovesUses
    <3> QED BY <1>1, <3>1, Zenon
  <2>4. Noticed(e) /\ Sound(e)
    BY <1>1, <1>9, <1>10, <2>2, <2>3, EraseSound, ZenonT(40)
  <2>5. Changes(b, c)
    <3>1. Grew(b, c, {OpOwner[o] : o \in Uses(b, Res[old])}) /\ RowsStay(b, c, {OpOwner[o] : o \in Uses(b, Res[old])})
      BY <1>7, Zenon DEF MovesUses, RowsStay
    <3> QED BY <3>1, GrewChanges, Zenon
  <2>6. Changes(c, e)
    <3>1. Grew(c, e, {OpOwner[old], ValueOwner[Res[old]]}) /\ RowsStay(c, e, {OpOwner[old], ValueOwner[Res[old]]})
      BY <1>10, ZenonT(40) DEF ErasesOp, RowsStay
    <3> QED BY <3>1, GrewChanges, Zenon
  <2>7. Marked(c)
    BY <1>6, <1>9, <2>1, <2>5, MarkedStays, Zenon
  <2> QED BY <1>9, <1>12, <2>4, <2>6, <2>7, MarkedStays, Zenon
<1> QED BY <1>11, <1>13, <1>14, Zenon DEF TaskInv

-----------------------------------------------------------------------------
\* The initial states, and the states a commit leaves.

\* The clones that an epoch opens with.
LEMMA Fresh ==
  ASSUME layout \in Layouts, epoch \in Nat, BaseInv, task = [j \in Tasks |-> db]
  PROVE  IInv
<1> SUFFICES ASSUME NEW k \in Tasks PROVE TaskInv(k, db)
  BY Zenon DEF IInv
<1>1. IsStore(db) /\ db.wrote = {} /\ db.wroteValue = {} /\ db.map = Identity /\ db.bumped = {}
  BY Zenon DEF BaseInv
<1>2. Counted(db)
  BY <1>1 DEF Counted, IsStore
<1>3. Made(k, db)
  BY <1>1, Zenon DEF Made, BaseInv
<1>4. \A v \in Values : db.map[v] = v
  BY <1>1, Zenon DEF Identity
<1>5. Kept(k, db)
  BY <1>1, <1>2, <1>3, <1>4 DEF Kept, Unwritten, Moves
<1>6. Reached(k, db) /\ Once(k, db)
  <2>1. \A o \in ReplacesOps[k] : Res[o] \in Values
    BY Laid, Results
  <2>2. \A r \in ReplacesUses[k] : r[1] \in Values
    BY Laid, Zenon
  <2> QED BY <1>1, <1>4, <2>1, <2>2 DEF Reached, Once
<1>7. epoch = 0 => Noticed(db) /\ Sound(db) /\ Marked(db)
  BY <1>1, <1>4 DEF BaseInv, Sound, Erased
<1> QED BY <1>5, <1>6, <1>7, Zenon DEF TaskInv

\* The initial states.
LEMMA InitInv == Init => IInv
<1> SUFFICES ASSUME Init PROVE IInv
  BY Zenon
<1>1. layout \in Layouts /\ epoch = 0 /\ task = [k \in Tasks |-> db]
  BY Zenon DEF Init
<1>2. PICK reads \in BaseReads : db = Committed(reads)
  BY Zenon DEF Init
<1>3. BaseOps \subseteq Ops /\ reads \in [BaseOps -> {Res[o] : o \in BaseOps}]
  BY <1>1, Laid, Zenon DEF BaseOps
<1>4. \A o \in BaseOps : o \in Ops /\ reads[o] \in Values /\ ValueChunkOf[reads[o]] \in ValueChunks
  BY <1>3, Results, ChunksOfValues DEF Values
<1> DEFINE rows == [o \in Ops |-> IF o \in BaseOps THEN [live |-> TRUE, operand |-> reads[o], cell |-> 0]
                                  ELSE Dead]
           values == [v \in Values |-> \E o \in BaseOps : Res[o] = v]
           foreign == [c \in ValueChunks |->
                    {OpOwner[o] : o \in {x \in BaseOps : /\ ValueChunkOf[reads[x]] = c
                                                         /\ OpOwner[x] # ValueOwner[reads[x]]}}]
           counts == [p \in Parts |-> 0]
           marks == [p \in Parts |-> NotSettled]
<1>5. db = [op |-> rows, made |-> BaseOps, value |-> values, foreign |-> foreign,
            wrote |-> {}, wroteValue |-> {}, map |-> Identity, retargets |-> FALSE,
            edits |-> counts, total |-> 0, bumped |-> {}, settled |-> marks]
  <2>1. db = [EmptyStore EXCEPT !.op = rows, !.foreign = foreign]
    BY <1>2, Zenon DEF Committed
  <2>2. EmptyStore = [op |-> [o \in Ops |-> Dead], made |-> BaseOps, value |-> values,
            foreign |-> [c \in ValueChunks |-> {}],
            wrote |-> {}, wroteValue |-> {}, map |-> Identity, retargets |-> FALSE,
            edits |-> counts, total |-> 0, bumped |-> {}, settled |-> marks]
    BY Zenon DEF EmptyStore
  <2> HIDE DEF rows, values, foreign, counts, marks
  <2> QED BY <2>1, <2>2, Zenon
<1>6. rows \in [Ops -> Rows]
  <2>1. \A o \in Ops : Dead \in Rows /\ ~Dead.live
    BY Results, Zenon DEF Dead, Rows, Cells
  <2>2. \A o \in BaseOps : [live |-> TRUE, operand |-> reads[o], cell |-> 0] \in Rows
    BY <1>4, Zenon DEF Rows, Cells
  <2> QED BY <2>1, <2>2, Zenon
<1>7. values \in [Values -> BOOLEAN]
  BY Zenon
<1>8. foreign \in [ValueChunks -> SUBSET Parts]
  <2>1. \A o \in BaseOps : OpOwner[o] \in Parts
    BY <1>1, <1>3, Laid
  <2> QED BY <2>1, Zenon
<1>9. counts \in [Parts -> Nat] /\ marks = [p \in Parts |-> marks[p]] /\ \A p \in Parts : ~marks[p].at
  BY Zenon DEF NotSettled
<1>10. Identity \in [Values -> Values]
  BY Zenon DEF Identity
<1>11. \A o \in Ops : rows[o].live => o \in BaseOps /\ rows[o].operand = reads[o]
  BY Zenon DEF Dead
<1>12. \A o \in BaseOps : values[reads[o]]
  BY <1>3, <1>4, Zenon
<1>13. \A o \in BaseOps : OpOwner[o] \in {ValueOwner[reads[o]]} \cup foreign[ValueChunkOf[reads[o]]]
  BY <1>4, Zenon
<1>14. \A o \in Ops : values[Res[o]] => o \in BaseOps
  BY <1>3, Results, IdsAssumption
<1> HIDE DEF rows, values, foreign, counts, marks
<1>15. IsStore(db)
  BY <1>3, <1>5, <1>6, <1>7, <1>8, <1>9, <1>10 DEF IsStore
<1>16. ReadsLive(db)
  BY <1>5, <1>11, <1>12, Zenon DEF ReadsLive
<1>17. Noticed(db)
  BY <1>5, <1>11, <1>13, Zenon DEF Noticed, Readers
<1>18. Marked(db)
  BY <1>5, <1>9, Zenon DEF Marked
<1>19. BaseInv
  BY <1>5, <1>11, <1>14, <1>15, <1>16, <1>17, <1>18 DEF BaseInv
<1> QED BY <1>1, <1>19, Fresh

-----------------------------------------------------------------------------
\* The edits of the tasks.

\* What is said of a store carries over to the next state, which has it.
LEMMA KeptPrimed ==
  ASSUME UNCHANGED <<db, layout>>, NEW k, NEW d, d = task'[k], Kept(k, d)
  PROVE  Kept(k, task[k])'
<1>1. IsStore(task[k])'
  BY Zenon DEF Kept, IsStore
<1>2. Unwritten(task[k])'
  BY Zenon DEF Kept, Unwritten
<1>3. Counted(task[k])'
  BY Zenon DEF Kept, Counted
<1>4. Made(k, task[k])'
  BY Zenon DEF Kept, Made, ReplacesOps
<1>5. Moves(k, task[k])'
  BY Zenon DEF Kept, Moves, Olds, News, ReplacesOps, ReplacesUses
<1> QED BY <1>1, <1>2, <1>3, <1>4, <1>5 DEF Kept

\* So does all that is said of a task.
LEMMA TaskPrimed ==
  ASSUME UNCHANGED <<db, epoch, layout>>, NEW k, NEW d, d = task'[k], TaskInv(k, d)
  PROVE  TaskInv(k, task[k])'
<1>1. Kept(k, task[k])'
  BY KeptPrimed, Zenon DEF TaskInv
<1>2. ReplacesOnce' <=> ReplacesOnce
  BY Zenon DEF ReplacesOnce, ReplacesOps, ReplacesUses
<1>3. Reached(k, d) => Reached(k, task[k])'
  BY Zenon DEF Reached, OpOwner, Targets, Readers, ValueOwner
<1>4. Once(k, d) => Once(k, task[k])'
  BY Zenon DEF Once, Gone, Erased, ReplacesOps, ReplacesUses
<1>5. Noticed(d) => Noticed(task[k])'
  BY Zenon DEF Noticed, OpOwner, Readers, ValueOwner
<1>6. Sound(d) => Sound(task[k])'
  BY Zenon DEF Sound, ReadsLive, Erased
<1>7. Marked(d) => Marked(task[k])'
  BY DEF Marked, Version, RowsOf, OpOwner
<1> QED BY <1>1, <1>2, <1>3, <1>4, <1>5, <1>6, <1>7, SMTT(40) DEF TaskInv

\* A step of one task that keeps what is said of its store keeps the invariant.
LEMMA TaskStep ==
  ASSUME IInv, UNCHANGED <<db, epoch, layout>>, NEW k \in Tasks, NEW d,
         task' = [task EXCEPT ![k] = d], TaskInv(k, d)
  PROVE  IInv'
<1>1. task' = [j \in Tasks |-> IF j = k THEN d ELSE task[j]]
  BY Zenon DEF IInv
<1>2. \A j \in Tasks : TaskInv(j, task[j])'
  <2> SUFFICES ASSUME NEW j \in Tasks PROVE TaskInv(j, task[j])'
    BY Zenon
  <2>1. PICK x : x = task'[j]
    BY Zenon
  <2>2. TaskInv(j, x)
    BY <1>1, <2>1, Zenon DEF IInv
  <2> QED BY <2>1, <2>2, TaskPrimed, Zenon
<1>3. BaseInv'
  <2>1. IsStore(db)' /\ (epoch = 0 => ReadsLive(db))'
    BY Zenon DEF IInv, BaseInv, IsStore, ReadsLive
  <2>2. (epoch = 0 => Noticed(db))'
    BY Zenon DEF IInv, BaseInv, Noticed, OpOwner, Readers, ValueOwner
  <2>3. (epoch = 0 => Marked(db))'
    BY DEF IInv, BaseInv, Marked, Version, RowsOf, OpOwner
  <2> QED BY <2>1, <2>2, <2>3, Zenon DEF IInv, BaseInv
<1>4. (layout \in Layouts /\ epoch \in Nat)' /\ (task = [j \in Tasks |-> task[j]])'
  BY <1>1, Zenon DEF IInv
<1> QED BY <1>2, <1>3, <1>4, Zenon DEF IInv

\* settle: the version a pass settles at is of the rows as they are.
LEMMA SettleTask ==
  ASSUME layout \in Layouts, IsStore(db), NEW k \in Tasks, NEW d, TaskInv(k, d),
         NEW p \in Parts, p # 0,
         NEW e, e = [d EXCEPT !.settled[p] =
                       [version |-> Version(d, p), rows |-> RowsOf(d, p), at |-> TRUE]]
  PROVE  TaskInv(k, e)
<1> DEFINE mark == [version |-> Version(d, p), rows |-> RowsOf(d, p), at |-> TRUE]
<1>1. IsStore(d) /\ Kept(k, d)
  BY Zenon DEF TaskInv, Kept
<1>2. d = [op |-> d.op, made |-> d.made, value |-> d.value, foreign |-> d.foreign,
          wrote |-> d.wrote, wroteValue |-> d.wroteValue, map |-> d.map,
          retargets |-> d.retargets, edits |-> d.edits, total |-> d.total,
          bumped |-> d.bumped, settled |-> d.settled]
  BY <1>1, Zenon DEF IsStore
<1>3. e = [op |-> d.op, made |-> d.made, value |-> d.value, foreign |-> d.foreign,
          wrote |-> d.wrote, wroteValue |-> d.wroteValue, map |-> d.map,
          retargets |-> d.retargets, edits |-> d.edits, total |-> d.total,
          bumped |-> d.bumped, settled |-> [d.settled EXCEPT ![p] = mark]]
  <2>1. e = [d EXCEPT !.settled[p] = mark]
    BY Zenon
  <2> HIDE DEF mark
  <2> QED BY <1>2, <2>1, Zenon
<1>4. /\ e.op = d.op /\ e.made = d.made /\ e.value = d.value /\ e.foreign = d.foreign
      /\ e.wrote = d.wrote /\ e.wroteValue = d.wroteValue /\ e.map = d.map
      /\ e.retargets = d.retargets /\ e.edits = d.edits /\ e.total = d.total
      /\ e.bumped = d.bumped /\ e.settled = [d.settled EXCEPT ![p] = mark]
  <2> DEFINE marks == [d.settled EXCEPT ![p] = mark]
  <2>1. e.settled = marks
    <3> HIDE DEF mark, marks
    <3> QED BY ONLY <1>3, Zenon DEF marks
  <2> HIDE DEF mark, marks
  <2> QED BY ONLY <1>3, <2>1, Zenon DEF marks
<1>5. d.settled = [q \in Parts |-> d.settled[q]] /\ d.edits \in [Parts -> Nat] /\ 0 \in Parts
  BY <1>1, IdsAssumption, Zenon DEF IsStore
<1>6. e.settled = [q \in Parts |-> e.settled[q]] /\ e.settled[p] = mark
      /\ \A q \in Parts : q # p => e.settled[q] = d.settled[q]
  <2> DEFINE was == d.settled
             now == e.settled
  <2>1. p \in Parts /\ was = [q \in Parts |-> was[q]] /\ now = [was EXCEPT ![p] = mark]
    BY <1>4, <1>5, Zenon
  <2> HIDE DEF mark, was, now
  <2>2. now = [q \in Parts |-> now[q]] /\ now[p] = mark /\ \A q \in Parts : q # p => now[q] = was[q]
    BY ONLY <2>1, Zenon
  <2> QED BY <2>2, Zenon DEF was, now
<1>7. IsStore(e)
  <2>1. e = [op |-> e.op, made |-> e.made, value |-> e.value, foreign |-> e.foreign,
          wrote |-> e.wrote, wroteValue |-> e.wroteValue, map |-> e.map,
          retargets |-> e.retargets, edits |-> e.edits, total |-> e.total,
          bumped |-> e.bumped, settled |-> e.settled]
    <3> HIDE DEF mark
    <3> QED BY <1>3, Zenon
  <2> HIDE DEF mark
  <2> QED BY <1>1, <1>4, <1>6, <2>1, ZenonT(40) DEF IsStore
<1>8. Kept(k, e)
  <2> HIDE DEF mark
  <2> QED BY <1>1, <1>4, <1>7, SMTT(40) DEF Kept, Unwritten, Counted, Made, Moves
<1>9. (Reached(k, d) => Reached(k, e)) /\ (Once(k, d) => Once(k, e))
  <2> HIDE DEF mark
  <2>1. Reached(k, d) => Reached(k, e)
    BY <1>4, SMTT(40) DEF Reached, Readers
  <2>2. Once(k, d) => Once(k, e)
    BY <1>4, Zenon DEF Once, Gone, Erased
  <2> QED BY <2>1, <2>2, Zenon
<1>10. (Noticed(d) => Noticed(e)) /\ (Sound(d) => Sound(e))
  <2> HIDE DEF mark
  <2> QED BY <1>4, Zenon DEF Noticed, Readers, Sound, ReadsLive, Erased
<1>11. Marked(d) => Marked(e)
  <2>1. \A q \in Parts : Version(e, q) = Version(d, q) /\ RowsOf(e, q) = RowsOf(d, q)
    <3> HIDE DEF mark
    <3> QED BY <1>4 DEF Version, RowsOf
  <2>2. mark.version = Version(d, p) /\ mark.rows = RowsOf(d, p)
    BY Zenon
  <2>3. Version(d, p) \in Nat /\ Version(d, p) <= Version(d, p)
    BY <1>5 DEF Version
  <2> HIDE DEF mark
  <2> SUFFICES ASSUME Marked(d), NEW q \in Parts, e.settled[q].at
               PROVE  /\ q # 0 /\ e.settled[q].version \in Nat /\ e.settled[q].version <= Version(e, q)
                      /\ e.settled[q].version = Version(e, q) => e.settled[q].rows = RowsOf(e, q)
    BY Zenon DEF Marked
  <2>4. CASE q = p
    BY <1>6, <2>1, <2>2, <2>3, <2>4, Zenon
  <2>5. CASE q # p
    BY <1>6, <2>1, <2>5, ZenonT(40) DEF Marked
  <2> QED BY <2>4, <2>5, Zenon
<1> QED BY <1>8, <1>9, <1>10, <1>11, Zenon DEF TaskInv

\* Every step of a task keeps the invariant.
LEMMA EditInv ==
  ASSUME IInv, NEW k \in Tasks,
         \/ \E o \in Ops, v \in Values : SetOpOperand(k, o, v) \/ AddOperation(k, o, v)
         \/ \E o \in Ops, c \in Cells : SetOpAttributes(k, o, c)
         \/ \E old, new \in Ops : ReplaceOp(k, old, new)
         \/ \E old, new \in Values : ReplaceValueUses(k, old, new)
         \/ Settle(k)
  PROVE  IInv'
<1>1. layout \in Layouts /\ IsStore(db) /\ TaskInv(k, task[k])
  BY Zenon DEF IInv, BaseInv
<1>2. PICK d : d = task[k]
  BY Zenon
<1>3. TaskInv(k, d)
  BY <1>1, <1>2, Zenon
<1>4. ASSUME NEW o \in Ops, NEW v \in Values, SetOpOperand(k, o, v) PROVE IInv'
  <2>1. PICK e : e = WithOperand(d, {o}, v)
    BY Zenon
  <2>2. /\ OpOwner[o] = Targets[k] /\ d.value[v]
        /\ task' = [task EXCEPT ![k] = e] /\ UNCHANGED <<db, epoch, layout>>
    BY <1>2, <1>4, <2>1, Zenon DEF SetOpOperand, OwnRows, MayName, Step
  <2>3. TaskInv(k, e)
    BY <1>1, <1>3, <2>1, <2>2, OperandTask, Zenon
  <2> QED BY <2>2, <2>3, TaskStep, Zenon
<1>5. ASSUME NEW o \in Ops, NEW v \in Values, AddOperation(k, o, v) PROVE IInv'
  <2>1. PICK e : e = WithOp(d, o, v, 0)
    BY Zenon
  <2>2. /\ o \in MakesOps[k] /\ o \notin d.made /\ d.value[v] /\ 0 \in Cells
        /\ task' = [task EXCEPT ![k] = e] /\ UNCHANGED <<db, epoch, layout>>
    BY <1>2, <1>5, <2>1, Zenon DEF AddOperation, MayMake, MayName, Step, Cells
  <2>3. TaskInv(k, e)
    BY <1>1, <1>3, <2>1, <2>2, NewOpTask, ZenonT(40)
  <2> QED BY <2>2, <2>3, TaskStep, Zenon
<1>6. ASSUME NEW o \in Ops, NEW c \in Cells, SetOpAttributes(k, o, c) PROVE IInv'
  <2>1. PICK e : e = WithCell(d, o, c)
    BY Zenon
  <2>2. /\ OpOwner[o] = Targets[k]
        /\ task' = [task EXCEPT ![k] = e] /\ UNCHANGED <<db, epoch, layout>>
    BY <1>2, <1>6, <2>1, Zenon DEF SetOpAttributes, OwnRows, Step
  <2>3. TaskInv(k, e)
    BY <1>1, <1>3, <2>1, <2>2, CellTask, ZenonT(40)
  <2> QED BY <2>2, <2>3, TaskStep, Zenon
<1>7. ASSUME NEW old \in Ops, NEW new \in Ops, ReplaceOp(k, old, new) PROVE IInv'
  <2>1. PICK a : a = Bumped(d, {old})
    BY Zenon
  <2>2. PICK b : b = WithOp(a, new, d.op[old].operand, 1)
    BY Zenon
  <2>3. PICK c : c = WithUsesReplaced(b, Res[old], Res[new])
    BY Zenon
  <2>4. PICK e : e = WithoutOp(c, old)
    BY Zenon
  <2>5. /\ old \in ReplacesOps[k] /\ d.op[old].live /\ new \in MakesOps[k] /\ new \notin d.made
        /\ task' = [task EXCEPT ![k] = e] /\ UNCHANGED <<db, epoch, layout>>
    BY <1>2, <1>7, <2>1, <2>2, <2>3, <2>4, ZenonT(40) DEF ReplaceOp, MayMake, Step
  <2>6. TaskInv(k, e)
    BY <1>1, <1>3, <2>1, <2>2, <2>3, <2>4, <2>5, ReplaceTask, ZenonT(40)
  <2> QED BY <2>5, <2>6, TaskStep, Zenon
<1>8. ASSUME NEW old \in Values, NEW new \in Values, ReplaceValueUses(k, old, new) PROVE IInv'
  <2>1. PICK e : e = WithUsesReplaced(d, old, new)
    BY Zenon
  <2>2. /\ <<old, new>> \in ReplacesUses[k] /\ d.value[new]
        /\ task' = [task EXCEPT ![k] = e] /\ UNCHANGED <<db, epoch, layout>>
    BY <1>2, <1>8, <2>1, Zenon DEF ReplaceValueUses, Step
  <2>3. TaskInv(k, e)
    BY <1>1, <1>3, <2>1, <2>2, MovesTask, ZenonT(40)
  <2> QED BY <2>2, <2>3, TaskStep, Zenon
<1>9. ASSUME Settle(k) PROVE IInv'
  <2>1. PICK p \in Parts : p = Targets[k] /\ p # 0
    BY <1>1, <1>9, Laid, Zenon DEF Settle
  <2>2. PICK e : e = [d EXCEPT !.settled[p] =
                       [version |-> Version(d, p), rows |-> RowsOf(d, p), at |-> TRUE]]
    BY Zenon
  <2>3. task' = [task EXCEPT ![k] = e] /\ UNCHANGED <<db, epoch, layout>>
    BY <1>2, <1>9, <2>1, <2>2, SMTT(40) DEF Settle
  <2>4. TaskInv(k, e)
    BY <1>1, <1>3, <2>1, <2>2, SettleTask, ZenonT(40)
  <2> QED BY <2>3, <2>4, TaskStep, Zenon
<1> QED BY <1>4, <1>5, <1>6, <1>7, <1>8, <1>9, SMTT(40)

-----------------------------------------------------------------------------
\* What the replay and the counts of a commit come to.

\* The replay as the values it goes through.
LEMMA ReplaySteps ==
  ASSUME \A n \in Tasks : task[n].map \in [Values -> Values], NEW v \in Values, NEW w \in Nat
  PROVE  \E f \in [0 .. Len(MakesOps) -> Values] :
           /\ f[0] = v
           /\ \A n \in 1 .. Len(MakesOps) : f[n] = IF n = w THEN f[n - 1] ELSE task[n].map[f[n - 1]]
           /\ Replayed(v, w) = f[Len(MakesOps)]
<1> DEFINE N == Len(MakesOps)
           Def(f) == f = [n \in 0 .. N |->
             IF n = 0 THEN v ELSE IF n = w THEN f[n - 1] ELSE task[n].map[f[n - 1]]]
           step == [n \in 1 .. N |-> [x \in Values |-> IF n = w THEN x ELSE task[n].map[x]]]
           f == CHOOSE h : Def(h)
<1>1. N \in Nat /\ \A n \in 1 .. N : task[n].map \in [Values -> Values]
  BY TaskNumbers, Zenon
<1>2. Replayed(v, w) = f[N]
  BY Zenon DEF Replayed
<1> HIDE DEF N, f
<1>3. PICK st \in [1 .. N -> [Values -> Values]] : st = step
  BY <1>1, Zenon
<1>4. PICK g \in [0 .. N -> Values] : Iterates(g, v, st, N)
  <2> HIDE DEF step
  <2>1. v \in Values /\ N \in Nat /\ st \in [1 .. N -> [Values -> Values]]
    BY <1>1, <1>3, Zenon
  <2> QED BY ONLY <2>1, Iterated, Zenon
<1>5. Def(g)
  <2>1. \A n \in 1 .. N : g[n - 1] \in Values
    BY <1>1, <1>4
  <2>2. \A n \in 1 .. N : g[n] = IF n = w THEN g[n - 1] ELSE task[n].map[g[n - 1]]
    BY <1>3, <1>4, <2>1, Zenon DEF Iterates
  <2>3. \A n \in 0 .. N : g[n] = IF n = 0 THEN v ELSE IF n = w THEN g[n - 1] ELSE task[n].map[g[n - 1]]
    <3>1. \A n \in 0 .. N : n = 0 \/ n \in 1 .. N
      BY <1>1
    <3> QED BY <1>4, <2>2, <3>1, ZenonT(40) DEF Iterates
  <2> QED BY <1>4, <2>3, Zenon
<1>6. Def(f)
  BY <1>5, ZenonT(40) DEF f
<1>7. /\ f[0] = v
      /\ \A n \in 1 .. N : f[n] = IF n = w THEN f[n - 1] ELSE task[n].map[f[n - 1]]
  <2>1. 0 \in 0 .. N /\ \A n \in 1 .. N : n \in 0 .. N /\ n # 0
    BY <1>1
  <2>2. \A n \in 0 .. N : f[n] = IF n = 0 THEN v ELSE IF n = w THEN f[n - 1] ELSE task[n].map[f[n - 1]]
    BY <1>6, Zenon
  <2> QED BY <2>1, <2>2, Zenon
<1>8. \A n \in 0 .. N : f[n] \in Values
  <2> DEFINE S == {n \in 0 .. N : f[n] \in Values}
  <2>1. 0 \in S
    BY <1>1, <1>7
  <2>2. \A n \in 1 .. N : n - 1 \in S => n \in S
    BY <1>1, <1>7
  <2> HIDE DEF S
  <2>3. \A n \in 0 .. N : n \in S
    BY <1>1, <2>1, <2>2, Induction, Zenon
  <2> QED BY <2>3, Zenon DEF S
<1>9. f \in [0 .. N -> Values]
  BY <1>6, <1>8, Zenon
<1> QED BY <1>2, <1>7, <1>9 DEF N

\* A value that no other batch replaces.
LEMMA ReplayFixed ==
  ASSUME \A n \in Tasks : task[n].map \in [Values -> Values], NEW v \in Values, NEW w \in Nat,
         \A n \in Tasks : n # w => task[n].map[v] = v
  PROVE  Replayed(v, w) = v
<1> DEFINE N == Len(MakesOps)
<1>1. PICK f \in [0 .. N -> Values] :
        /\ f[0] = v
        /\ \A n \in 1 .. N : f[n] = IF n = w THEN f[n - 1] ELSE task[n].map[f[n - 1]]
        /\ Replayed(v, w) = f[N]
  BY ReplaySteps, Zenon
<1>2. N \in Nat /\ Tasks = 1 .. N
  BY TaskNumbers, Zenon
<1> HIDE DEF N
<1> DEFINE S == {n \in 0 .. N : f[n] = v}
<1>3. 0 \in S
  BY <1>1, <1>2
<1>4. \A n \in 1 .. N : n - 1 \in S => n \in S
  BY <1>1, <1>2
<1> HIDE DEF S
<1>5. \A n \in 0 .. N : n \in S
  BY <1>2, <1>3, <1>4, Induction, ZenonT(40)
<1> QED BY <1>1, <1>2, <1>5 DEF S

\* A value that one other batch replaces, by a value that none does.
LEMMA ReplayMoved ==
  ASSUME \A n \in Tasks : task[n].map \in [Values -> Values], NEW v \in Values, NEW w \in Nat,
         NEW m \in Tasks, m # w, NEW u, u = task[m].map[v],
         \A n \in Tasks : n # m => task[n].map[v] = v /\ task[n].map[u] = u
  PROVE  Replayed(v, w) = u
<1> DEFINE N == Len(MakesOps)
<1>1. PICK f \in [0 .. N -> Values] :
        /\ f[0] = v
        /\ \A n \in 1 .. N : f[n] = IF n = w THEN f[n - 1] ELSE task[n].map[f[n - 1]]
        /\ Replayed(v, w) = f[N]
  BY ReplaySteps
<1>2. N \in Nat /\ Tasks = 1 .. N
  BY TaskNumbers, Zenon
<1> HIDE DEF N
<1> DEFINE S == {n \in 0 .. N : f[n] = IF m <= n THEN u ELSE v}
<1>3. m \in 1 .. N
  BY <1>2, ZenonT(40)
<1>4. 0 \in S
  BY <1>1, <1>2, <1>3
<1>5. \A n \in 1 .. N : n - 1 \in S => n \in S
  <2> SUFFICES ASSUME NEW n \in 1 .. N, f[n - 1] = IF m <= n - 1 THEN u ELSE v
               PROVE  f[n] = IF m <= n THEN u ELSE v
    BY <1>2
  <2>1. f[n] = IF n = w THEN f[n - 1] ELSE task[n].map[f[n - 1]]
    BY <1>1, Zenon
  <2>2. CASE n = m
    <3>1. f[n - 1] = v /\ m <= n
      BY <1>3, <2>2
    <3> QED BY <2>1, <2>2, <3>1, ZenonT(40)
  <2>3. CASE n # m
    <3>1. m <= n <=> m <= n - 1
      BY <1>3, <2>3
    <3>2. task[n].map[v] = v /\ task[n].map[u] = u
      BY <1>2, <2>3, Zenon
    <3> QED BY <2>1, <3>1, <3>2, ZenonT(40)
  <2> QED BY <2>2, <2>3, ZenonT(40)
<1> HIDE DEF S
<1>6. \A n \in 0 .. N : n \in S
  BY <1>2, <1>4, <1>5, Induction, ZenonT(40)
<1>7. N \in 0 .. N /\ m <= N
  BY <1>2, <1>3
<1> QED BY <1>1, <1>6, <1>7, SMTT(40) DEF S

\* Amounts that start at `a` and grow, each time, by what one of `x` has over `a`.
Grows(f, a, x, m) == f[0] = a /\ \A n \in 1 .. m : f[n] = f[n - 1] + (x[n] - a)

\* `c` is at least each of `x`, and is one of them when the others are all `a`.
Totals(c, a, x, m) ==
  \A k \in 1 .. m : x[k] <= c /\ (c = x[k] <=> \A j \in 1 .. m : j # k => x[j] = a)

\* Where such amounts end, by induction over how many there are.
LEMMA GrowsTo ==
  ASSUME NEW m \in Nat, NEW a \in Nat, NEW x \in [1 .. m -> Nat], \A n \in 1 .. m : a <= x[n],
         NEW f \in [0 .. m -> Int], Grows(f, a, x, m)
  PROVE  f[m] \in Nat /\ Totals(f[m], a, x, m)
<1> DEFINE Flat(n) == \A j \in 1 .. n : x[j] = a
           Alone(k, n) == \A j \in 1 .. n : j # k => x[j] = a
           S == {n \in 0 .. m : /\ f[n] \in Nat /\ a <= f[n] /\ (f[n] = a <=> Flat(n))
                                /\ \A k \in 1 .. n : x[k] <= f[n] /\ (f[n] = x[k] <=> Alone(k, n))}
<1>1. 0 \in S
  BY DEF Grows
<1>2. ASSUME NEW n \in 1 .. m, n - 1 \in S PROVE n \in S
  <2>1. f[n] = f[n - 1] + (x[n] - a) /\ x[n] \in Nat /\ a <= x[n] /\ n - 1 \in 0 .. m /\ n \in 0 .. m
    BY DEF Grows
  <2>2. /\ f[n - 1] \in Nat /\ a <= f[n - 1] /\ (f[n - 1] = a <=> Flat(n - 1))
        /\ \A k \in 1 .. (n - 1) : x[k] <= f[n - 1] /\ (f[n - 1] = x[k] <=> Alone(k, n - 1))
    BY <1>2, Zenon
  <2>3. \A j \in 1 .. n : j = n \/ j \in 1 .. (n - 1)
    OBVIOUS
  <2>4. \A j \in 1 .. (n - 1) : j \in 1 .. n /\ j # n /\ x[j] \in Nat
    OBVIOUS
  <2>5. Flat(n) <=> Flat(n - 1) /\ x[n] = a
    BY <2>3, <2>4, SMTT(40)
  <2>6. Alone(n, n) <=> Flat(n - 1)
    BY <2>3, <2>4, Zenon
  <2>7. \A k \in 1 .. (n - 1) : Alone(k, n) <=> Alone(k, n - 1) /\ x[n] = a
    BY <2>3, <2>4
  <2> HIDE DEF Flat, Alone
  <2>8. f[n] \in Nat /\ a <= f[n] /\ (f[n] = a <=> Flat(n))
    BY <2>1, <2>2, <2>5, SMTT(40)
  <2>9. x[n] <= f[n] /\ (f[n] = x[n] <=> Alone(n, n))
    BY <2>1, <2>2, <2>6
  <2>10. \A k \in 1 .. (n - 1) : x[k] <= f[n] /\ (f[n] = x[k] <=> Alone(k, n))
    BY <2>1, <2>2, <2>4, <2>7, SMTT(40)
  <2>11. \A k \in 1 .. n : x[k] <= f[n] /\ (f[n] = x[k] <=> Alone(k, n))
    BY <2>3, <2>9, <2>10, Zenon
  <2> QED BY <2>1, <2>8, <2>11, Zenon
<1> HIDE DEF S
<1>3. \A n \in 0 .. m : n \in S
  BY <1>1, <1>2, Induction, ZenonT(40)
<1>4. m \in 0 .. m
  OBVIOUS
<1> QED BY <1>3, <1>4, Zenon DEF S, Totals

\* The counts of a commit as the amounts they go through.
SumsUp(f, a, x, m) == f = [n \in 0 .. m |-> IF n = 0 THEN a ELSE f[n - 1] + (x[n] - a)]

\* Sums of what each of `x` has over `a` exist.
LEMMA SumExists ==
  ASSUME NEW m \in Nat, NEW a \in Nat, NEW x \in [1 .. m -> Nat]
  PROVE  \E g : SumsUp(g, a, x, m)
<1>1. PICK step \in [1 .. m -> [Int -> Int]] : step = [n \in 1 .. m |-> [y \in Int |-> y + (x[n] - a)]]
  <2>1. \A n \in 1 .. m : \A y \in Int : y + (x[n] - a) \in Int
    OBVIOUS
  <2> QED BY <2>1, Zenon
<1>2. a \in Int
  OBVIOUS
<1>3. PICK g \in [0 .. m -> Int] : Iterates(g, a, step, m)
  BY ONLY <1>2, m \in Nat, step \in [1 .. m -> [Int -> Int]], Iterated, ZenonT(40)
<1>4. \A n \in 1 .. m : g[n - 1] \in Int
  BY <1>3
<1>5. \A n \in 1 .. m : g[n] = g[n - 1] + (x[n] - a)
  BY <1>1, <1>3, <1>4, ZenonT(40) DEF Iterates
<1>6. \A n \in 0 .. m : g[n] = IF n = 0 THEN a ELSE g[n - 1] + (x[n] - a)
  <2>1. \A n \in 0 .. m : n = 0 \/ n \in 1 .. m
    OBVIOUS
  <2> QED BY <1>3, <1>5, <2>1, Zenon DEF Iterates
<1>7. SumsUp(g, a, x, m)
  BY <1>3, <1>6, Zenon DEF SumsUp
<1> QED BY <1>7, Zenon

\* They are such amounts.
LEMMA SumGrows ==
  ASSUME NEW m \in Nat, NEW a \in Nat, NEW x \in [1 .. m -> Nat], NEW f, SumsUp(f, a, x, m)
  PROVE  f \in [0 .. m -> Int] /\ Grows(f, a, x, m)
<1>1. f[0] = a /\ \A n \in 1 .. m : f[n] = f[n - 1] + (x[n] - a)
  BY DEF SumsUp
<1> DEFINE S == {n \in 0 .. m : f[n] \in Int}
<1>2. 0 \in S
  BY <1>1
<1>3. \A n \in 1 .. m : n - 1 \in S => n \in S
  BY <1>1
<1> HIDE DEF S
<1>4. \A n \in 0 .. m : n \in S
  BY <1>2, <1>3, Induction, Zenon
<1>5. \A n \in 0 .. m : f[n] \in Int
  BY <1>4, Zenon DEF S
<1>6. f \in [0 .. m -> Int]
  BY <1>5, Zenon DEF SumsUp
<1> QED BY <1>1, <1>6, Zenon DEF Grows

\* The count of a partition after a commit.
LEMMA EditsSteps ==
  ASSUME NEW p \in Parts, NEW a \in Nat, a = db.edits[p],
         NEW x \in [1 .. Len(MakesOps) -> Nat], \A n \in 1 .. Len(MakesOps) : x[n] = task[n].edits[p]
  PROVE  \E f \in [0 .. Len(MakesOps) -> Int] :
           Grows(f, a, x, Len(MakesOps)) /\ MergedEdits(p) = f[Len(MakesOps)]
<1> DEFINE N == Len(MakesOps)
           Def(f) == f = [n \in 0 .. N |->
             IF n = 0 THEN db.edits[p] ELSE f[n - 1] + (task[n].edits[p] - db.edits[p])]
           f == CHOOSE h : Def(h)
<1>1. N \in Nat
  BY TaskNumbers, Zenon
<1>2. MergedEdits(p) = f[N]
  BY Zenon DEF MergedEdits
<1> HIDE DEF N, f
<1>3. \A n \in 0 .. N : n = 0 \/ x[n] = task[n].edits[p]
  <2>1. \A n \in 0 .. N : n = 0 \/ n \in 1 .. N
    BY <1>1
  <2> QED BY <2>1, Zenon DEF N
<1>4. \A h : Def(h) <=> SumsUp(h, a, x, N)
  <2> SUFFICES ASSUME NEW h PROVE Def(h) <=> SumsUp(h, a, x, N)
    BY Zenon
  <2>1. \A n \in 0 .. N : (IF n = 0 THEN db.edits[p] ELSE h[n - 1] + (task[n].edits[p] - db.edits[p]))
                            = (IF n = 0 THEN a ELSE h[n - 1] + (x[n] - a))
    BY <1>3, Zenon
  <2> QED BY <2>1, Zenon DEF SumsUp
<1>5. PICK g : SumsUp(g, a, x, N)
  BY <1>1, SumExists, Zenon DEF N
<1>6. Def(f)
  <2>1. Def(g)
    BY <1>4, <1>5, Zenon
  <2> QED BY <2>1, Zenon DEF f
<1>7. SumsUp(f, a, x, N)
  BY <1>4, <1>6, Zenon
<1>8. f \in [0 .. N -> Int] /\ Grows(f, a, x, N)
  BY <1>1, <1>7, SumGrows, Zenon DEF N
<1> QED BY <1>2, <1>8, Zenon DEF N

\* The count of every edit after a commit.
LEMMA TotalSteps ==
  ASSUME NEW a \in Nat, a = db.total,
         NEW x \in [1 .. Len(MakesOps) -> Nat], \A n \in 1 .. Len(MakesOps) : x[n] = task[n].total
  PROVE  \E f \in [0 .. Len(MakesOps) -> Int] :
           Grows(f, a, x, Len(MakesOps)) /\ MergedTotal = f[Len(MakesOps)]
<1> DEFINE N == Len(MakesOps)
           Def(f) == f = [n \in 0 .. N |->
             IF n = 0 THEN db.total ELSE f[n - 1] + (task[n].total - db.total)]
           f == CHOOSE h : Def(h)
<1>1. N \in Nat
  BY TaskNumbers, Zenon
<1>2. MergedTotal = f[N]
  BY Zenon DEF MergedTotal
<1> HIDE DEF N, f
<1>3. \A n \in 0 .. N : n = 0 \/ x[n] = task[n].total
  <2>1. \A n \in 0 .. N : n = 0 \/ n \in 1 .. N
    BY <1>1
  <2> QED BY <2>1, Zenon DEF N
<1>4. \A h : Def(h) <=> SumsUp(h, a, x, N)
  <2> SUFFICES ASSUME NEW h PROVE Def(h) <=> SumsUp(h, a, x, N)
    BY Zenon
  <2>1. \A n \in 0 .. N : (IF n = 0 THEN db.total ELSE h[n - 1] + (task[n].total - db.total))
                            = (IF n = 0 THEN a ELSE h[n - 1] + (x[n] - a))
    BY <1>3, Zenon
  <2> QED BY <2>1, Zenon DEF SumsUp
<1>5. PICK g : SumsUp(g, a, x, N)
  BY <1>1, SumExists, Zenon DEF N
<1>6. Def(f)
  <2>1. Def(g)
    BY <1>4, <1>5, Zenon
  <2> QED BY <2>1, Zenon DEF f
<1>7. SumsUp(f, a, x, N)
  BY <1>4, <1>6, Zenon
<1>8. f \in [0 .. N -> Int] /\ Grows(f, a, x, N)
  BY <1>1, <1>7, SumGrows, ZenonT(40) DEF N
<1> QED BY <1>2, <1>8, Zenon DEF N

\* A count moves by what the batches counted: it is where one batch had it if no other counted.
LEMMA CountsMerged ==
  ASSUME IInv, NEW p \in Parts
  PROVE  /\ MergedEdits(p) \in Nat /\ MergedTotal \in Nat
         /\ \A k \in Tasks :
              /\ task[k].edits[p] \in Nat /\ task[k].edits[p] <= MergedEdits(p)
              /\ MergedEdits(p) = task[k].edits[p]
                   <=> \A j \in Tasks : j # k => p \notin task[j].bumped
<1> DEFINE N == Len(MakesOps)
<1>1. N \in Nat /\ Tasks = 1 .. N
  BY TaskNumbers, Zenon
<1>2. db.edits[p] \in Nat /\ db.total \in Nat
  BY Zenon DEF IInv, BaseInv, IsStore
<1>3. \A k \in Tasks : /\ task[k].edits[p] \in Nat /\ task[k].total \in Nat
                       /\ db.edits[p] <= task[k].edits[p] /\ db.total <= task[k].total
                       /\ p \in task[k].bumped <=> task[k].edits[p] # db.edits[p]
  <2>1. \A k \in Tasks : IsStore(task[k]) /\ Counted(task[k])
    BY Zenon DEF IInv, TaskInv, Kept
  <2> QED BY <2>1, Zenon DEF IsStore, Counted
<1>4. PICK a \in Nat : a = db.edits[p]
  BY <1>2, Zenon
<1>5. PICK b \in Nat : b = db.total
  BY <1>2, Zenon
<1>6. PICK x \in [1 .. N -> Nat] : x = [n \in 1 .. N |-> task[n].edits[p]]
  BY <1>1, <1>3, Zenon
<1>7. PICK y \in [1 .. N -> Nat] : y = [n \in 1 .. N |-> task[n].total]
  BY <1>1, <1>3, Zenon
<1>8. /\ \A n \in 1 .. N : x[n] = task[n].edits[p] /\ a <= x[n]
      /\ \A n \in 1 .. N : y[n] = task[n].total /\ b <= y[n]
  BY <1>1, <1>3, <1>4, <1>5, <1>6, <1>7, SMTT(40)
<1>9. PICK f \in [0 .. N -> Int] : Grows(f, a, x, N) /\ MergedEdits(p) = f[N]
  BY <1>4, <1>8, EditsSteps, Zenon
<1>10. PICK h \in [0 .. N -> Int] : Grows(h, b, y, N) /\ MergedTotal = h[N]
  BY <1>5, <1>8, TotalSteps, Zenon
<1> HIDE DEF N
<1>11. f[N] \in Nat /\ Totals(f[N], a, x, N)
  <2>1. N \in Nat /\ (\A n \in 1 .. N : a <= x[n]) /\ Grows(f, a, x, N)
    BY <1>1, <1>8, <1>9, Zenon
  <2> QED BY <2>1, GrowsTo, Zenon
<1>12. h[N] \in Nat
  <2>1. N \in Nat /\ (\A n \in 1 .. N : b <= y[n]) /\ Grows(h, b, y, N)
    BY <1>1, <1>8, <1>10
  <2> QED BY <2>1, GrowsTo, Zenon
<1>13. \A j \in Tasks : p \notin task[j].bumped <=> x[j] = a
  BY <1>1, <1>3, <1>4, <1>8, ZenonT(40)
<1>14. ASSUME NEW k \in Tasks
       PROVE  /\ task[k].edits[p] \in Nat /\ task[k].edits[p] <= MergedEdits(p)
              /\ MergedEdits(p) = task[k].edits[p]
                   <=> \A j \in Tasks : j # k => p \notin task[j].bumped
  <2>1. x[k] = task[k].edits[p] /\ x[k] \in Nat
    BY <1>1, <1>8, Zenon
  <2>2. x[k] <= f[N] /\ (f[N] = x[k] <=> \A j \in Tasks : j # k => x[j] = a)
    BY <1>1, <1>11, Zenon DEF Totals
  <2>3. (\A j \in Tasks : j # k => x[j] = a) <=> \A j \in Tasks : j # k => p \notin task[j].bumped
    BY <1>13, Zenon
  <2> QED BY <1>9, <2>1, <2>2, <2>3
<1> QED BY <1>9, <1>10, <1>11, <1>12, <1>14

-----------------------------------------------------------------------------
\* Where the rows and the values of a commit come from.

\* The row of batch `k`, with the other batches' replacements.
RowOf(o, k) == [task[k].op[o] EXCEPT !.operand = Replayed(@, k)]
BaseRow(o) == [db.op[o] EXCEPT !.operand = Replayed(@, 0)]

\* Taken from batch `k`, which alone wrote the row or alone edits it.
FromTask(o, k) ==
  /\ o \in task[k].wrote
  /\ MergedRow(o) = RowOf(o, k)
  /\ \A j \in Tasks : j # k => ~EditsRow(j, o)

\* The base's, that batches only replaced uses in.
FromBase(o) == MergedRow(o) = BaseRow(o) /\ \A j \in Tasks : ~EditsRow(j, o)

Untouched(o) == MergedRow(o) = db.op[o] /\ \A j \in Tasks : o \notin task[j].wrote

\* Every row of a commit comes from one batch, from the base or is untouched.
LEMMA RowComesFrom ==
  ASSUME IInv, ~Overlap, NEW o \in Ops
  PROVE  (\E k \in Tasks : FromTask(o, k)) \/ FromBase(o) \/ Untouched(o)
<1> DEFINE W == Writers(OpChunkOf[o])
           E == {k \in Tasks : EditsRow(k, o)}
<1>1. \A k \in Tasks : o \in task[k].wrote => k \in W
  BY Zenon DEF Writers
<1>2. \A k, l \in Tasks : k # l => ~(EditsRow(k, o) /\ EditsRow(l, o))
  BY Zenon DEF Overlap
<1>3. \A k \in Tasks : EditsRow(k, o) => o \in task[k].wrote
  BY Zenon DEF EditsRow
<1>4. W \subseteq Tasks
  BY Zenon DEF Writers
<1>5. \A k \in Tasks : o \notin task[k].wrote => task[k].op[o] = db.op[o]
  BY Zenon DEF IInv, TaskInv, Kept, Unwritten
<1>6. MergedRow(o) = IF W = {} THEN db.op[o]
                     ELSE IF \E k \in W : W = {k} THEN TakenWhole(o, CHOOSE k \in W : TRUE)
                     ELSE TakenByRow(o)
  BY Zenon DEF MergedRow
<1> HIDE DEF W
<1>7. CASE W = {}
  BY <1>1, <1>6, <1>7, Zenon DEF Untouched
<1>8. CASE W # {} /\ \E k \in W : W = {k}
  <2>1. PICK k \in Tasks : W = {k}
    BY <1>4, <1>8, Zenon
  <2>2. (CHOOSE x \in W : TRUE) = k
    BY <2>1, Zenon
  <2>3. MergedRow(o) = TakenWhole(o, k)
    BY <1>6, <1>8, <2>2, Zenon
  <2>4. \A j \in Tasks : j # k => o \notin task[j].wrote
    BY <1>1, <2>1, Zenon
  <2>5. CASE o \in task[k].wrote
    <3>1. MergedRow(o) = RowOf(o, k)
      BY <2>3, <2>5, Zenon DEF TakenWhole, RowOf
    <3> QED BY <1>3, <2>4, <2>5, <3>1, ZenonT(40) DEF FromTask
  <2>6. CASE o \notin task[k].wrote
    <3>1. MergedRow(o) = db.op[o]
      BY <1>5, <2>3, <2>6, Zenon DEF TakenWhole
    <3> QED BY <2>4, <2>6, <3>1, Zenon DEF Untouched
  <2> QED BY <2>5, <2>6, Zenon
<1>9. CASE W # {} /\ ~ \E k \in W : W = {k}
  <2>1. MergedRow(o) = TakenByRow(o)
    BY <1>6, <1>9, Zenon
  <2>2. TakenByRow(o) =
          IF E # {} THEN RowOf(o, CHOOSE k \in E : TRUE)
          ELSE IF \E k \in Tasks : o \in task[k].wrote THEN BaseRow(o) ELSE db.op[o]
    BY Zenon DEF TakenByRow, RowOf, BaseRow
  <2>3. CASE E # {}
    <3>1. PICK k : k = CHOOSE x \in E : TRUE
      BY Zenon
    <3>2. k \in E
      BY <2>3, <3>1, Zenon
    <3>3. k \in Tasks /\ EditsRow(k, o)
      BY <3>2, Zenon
    <3>4. MergedRow(o) = RowOf(o, k)
      <4> HIDE DEF E
      <4> QED BY <2>1, <2>2, <2>3, <3>1, Zenon
    <3> QED BY <1>2, <1>3, <3>3, <3>4, Zenon DEF FromTask
  <2>4. CASE E = {}
    <3>1. \A j \in Tasks : ~EditsRow(j, o)
      BY <2>4, Zenon
    <3> HIDE DEF E
    <3> QED BY <2>1, <2>2, <2>4, <3>1, ZenonT(40) DEF FromBase, Untouched
  <2> QED BY <2>3, <2>4, Zenon
<1> QED BY <1>7, <1>8, <1>9, ZenonT(40)

\* What the invariant says of the stores, for citing.
LEMMA TaskStores ==
  ASSUME IInv
  PROVE  /\ layout \in Layouts /\ IsStore(db)
         /\ \A k \in Tasks : /\ k \in Nat /\ IsStore(task[k]) /\ Kept(k, task[k])
                             /\ task[k].op \in [Ops -> Rows] /\ task[k].map \in [Values -> Values]
         /\ db.op \in [Ops -> Rows]
<1>1. layout \in Layouts /\ IsStore(db) /\ \A k \in Tasks : Kept(k, task[k])
  BY Zenon DEF IInv, BaseInv, TaskInv
<1>2. \A k \in Tasks : k \in Nat
  BY TaskNumbers
<1>3. \A k \in Tasks : IsStore(task[k])
  BY <1>1, Zenon DEF Kept
<1> QED BY <1>1, <1>2, <1>3, Zenon DEF IsStore

\* The replay takes values to values.
LEMMA ReplayedValue ==
  ASSUME IInv, NEW v \in Values, NEW w \in Nat
  PROVE  Replayed(v, w) \in Values
<1>1. \A n \in Tasks : task[n].map \in [Values -> Values]
  BY TaskStores, Zenon
<1>2. PICK f \in [0 .. Len(MakesOps) -> Values] : Replayed(v, w) = f[Len(MakesOps)]
  BY <1>1, ReplaySteps
<1>3. Len(MakesOps) \in 0 .. Len(MakesOps)
  BY TaskNumbers
<1> QED BY <1>2, <1>3, Zenon

\* The fields of the rows a commit takes.
LEMMA RowFields ==
  ASSUME IInv, NEW o \in Ops
  PROVE  /\ \A k \in Tasks :
              /\ RowOf(o, k) \in Rows
              /\ RowOf(o, k).live = task[k].op[o].live /\ RowOf(o, k).cell = task[k].op[o].cell
              /\ RowOf(o, k).operand = Replayed(task[k].op[o].operand, k)
              /\ task[k].op[o].operand \in Values
         /\ BaseRow(o) \in Rows
         /\ BaseRow(o).live = db.op[o].live /\ BaseRow(o).cell = db.op[o].cell
         /\ BaseRow(o).operand = Replayed(db.op[o].operand, 0)
         /\ db.op[o] \in Rows /\ db.op[o].operand \in Values
<1>1. /\ \A k \in Tasks : k \in Nat /\ task[k].op[o] \in Rows
      /\ db.op[o] \in Rows
  BY TaskStores, Zenon
<1>2. ASSUME NEW k \in Tasks
      PROVE  /\ RowOf(o, k) \in Rows
             /\ RowOf(o, k).live = task[k].op[o].live /\ RowOf(o, k).cell = task[k].op[o].cell
             /\ RowOf(o, k).operand = Replayed(task[k].op[o].operand, k)
             /\ task[k].op[o].operand \in Values
  <2>1. PICK r \in Rows : r = task[k].op[o]
    BY <1>1, Zenon
  <2>2. r.operand \in Values
    BY Zenon DEF Rows
  <2>3. PICK v \in Values : v = Replayed(r.operand, k)
    BY <1>1, <2>2, ReplayedValue, Zenon
  <2>4. RowOf(o, k) = [r EXCEPT !.operand = v]
    BY <2>1, <2>3, Zenon DEF RowOf
  <2> QED BY <2>1, <2>2, <2>3, <2>4, Zenon DEF Rows
<1>3. /\ BaseRow(o) \in Rows
      /\ BaseRow(o).live = db.op[o].live /\ BaseRow(o).cell = db.op[o].cell
      /\ BaseRow(o).operand = Replayed(db.op[o].operand, 0)
      /\ db.op[o].operand \in Values
  <2>1. PICK r \in Rows : r = db.op[o]
    BY <1>1, Zenon
  <2>2. r.operand \in Values
    BY Zenon DEF Rows
  <2>3. PICK v \in Values : v = Replayed(r.operand, 0)
    BY <1>1, <2>2, ReplayedValue
  <2>4. BaseRow(o) = [r EXCEPT !.operand = v]
    BY <2>1, <2>3 DEF BaseRow
  <2> QED BY <2>1, <2>2, <2>3, <2>4 DEF Rows
<1> QED BY <1>1, <1>2, <1>3, Zenon

-----------------------------------------------------------------------------
\* A row that a commit leaves live was made by some batch.
LEMMA Merged ==
  ASSUME IInv, ~Overlap, NEW o \in Ops
  PROVE  /\ MergedRow(o) \in Rows
         /\ MergedRow(o).live => \E k \in Tasks : o \in task[k].made
<1>1. /\ \A k \in Tasks : RowOf(o, k) \in Rows /\ RowOf(o, k).live = task[k].op[o].live
      /\ BaseRow(o) \in Rows /\ BaseRow(o).live = db.op[o].live /\ db.op[o] \in Rows
  BY RowFields, Zenon
<1>2. \A k \in Tasks : task[k].op[o].live => o \in task[k].made
  BY TaskStores, Zenon DEF Kept, Made
<1>3. db.op[o].live => \E k \in Tasks : o \in task[k].made
  <2>1. db.op[o].live => o \in db.made
    BY Zenon DEF IInv, BaseInv
  <2>2. \A k \in Tasks : db.made \subseteq task[k].made
    BY TaskStores, Zenon DEF Kept, Made
  <2> QED BY <2>1, <2>2, IdsAssumption
<1>4. CASE \E k \in Tasks : FromTask(o, k)
  <2>1. PICK k \in Tasks : FromTask(o, k)
    BY <1>4
  <2>2. MergedRow(o) = RowOf(o, k)
    BY <2>1, Zenon DEF FromTask
  <2> QED BY <1>1, <1>2, <2>2
<1>5. CASE FromBase(o)
  <2>1. MergedRow(o) = BaseRow(o)
    BY <1>5 DEF FromBase
  <2> QED BY <1>1, <1>3, <2>1
<1>6. CASE Untouched(o)
  <2>1. MergedRow(o) = db.op[o]
    BY <1>6 DEF Untouched
  <2> QED BY <1>1, <1>3, <2>1
<1> QED BY <1>4, <1>5, <1>6, RowComesFrom

\* A value that a commit leaves live was live.
LEMMA MergedValues ==
  ASSUME IInv, NEW v \in Values
  PROVE  /\ MergedValue(v) \in BOOLEAN
         /\ MergedValue(v) => db.value[v] \/ \E k \in Tasks : task[k].value[v]
<1>1. db.value[v] \in BOOLEAN /\ \A k \in Tasks : task[k].value[v] \in BOOLEAN
  BY TaskStores, ZenonT(40) DEF IsStore
<1>2. CASE \E k \in Tasks : v \in task[k].wroteValue
  <2>1. PICK k : k = CHOOSE x \in Tasks : v \in task[x].wroteValue
    BY Zenon
  <2>2. k \in Tasks
    BY <1>2, <2>1
  <2>3. MergedValue(v) = task[k].value[v]
    BY <1>2, <2>1 DEF MergedValue
  <2> QED BY <1>1, <2>2, <2>3, Zenon
<1>3. CASE ~ \E k \in Tasks : v \in task[k].wroteValue
  <2>1. MergedValue(v) = db.value[v]
    BY <1>3, Zenon DEF MergedValue
  <2> QED BY <1>1, <2>1
<1> QED BY <1>2, <1>3

\* The store that a commit leaves.
LEMMA CommitFields ==
  ASSUME Commit
  PROVE  /\ db' = [op |-> [o \in Ops |-> MergedRow(o)],
                   made |-> UNION {task[k].made : k \in Tasks},
                   value |-> [v \in Values |-> MergedValue(v)],
                   foreign |-> [c \in ValueChunks |-> UNION {task[k].foreign[c] : k \in Tasks}],
                   wrote |-> {}, wroteValue |-> {}, map |-> Identity, retargets |-> FALSE,
                   edits |-> [p \in Parts |-> MergedEdits(p)], total |-> MergedTotal,
                   bumped |-> {}, settled |-> [p \in Parts |-> MergedSettled(p)]]
<1> DEFINE rows == [o \in Ops |-> MergedRow(o)]
           made == UNION {task[k].made : k \in Tasks}
           values == [v \in Values |-> MergedValue(v)]
           foreign == [c \in ValueChunks |-> UNION {task[k].foreign[c] : k \in Tasks}]
           counts == [p \in Parts |-> MergedEdits(p)]
           total == MergedTotal
           marks == [p \in Parts |-> MergedSettled(p)]
<1>1. db' = [EmptyStore EXCEPT !.op = rows, !.made = made, !.value = values, !.foreign = foreign,
                               !.edits = counts, !.total = total, !.settled = marks]
  BY Zenon DEF Commit
<1> HIDE DEF rows, made, values, foreign, counts, total, marks
<1> DEFINE dead == [o \in Ops |-> Dead]
           base == [v \in Values |-> \E o \in BaseOps : Res[o] = v]
           none == [c \in ValueChunks |-> {}]
           zero == [p \in Parts |-> 0]
           unset == [p \in Parts |-> NotSettled]
<1>2. EmptyStore = [op |-> dead, made |-> BaseOps, value |-> base, foreign |-> none,
            wrote |-> {}, wroteValue |-> {}, map |-> Identity, retargets |-> FALSE,
            edits |-> zero, total |-> 0, bumped |-> {}, settled |-> unset]
  BY Zenon DEF EmptyStore
<1> HIDE DEF dead, base, none, zero, unset
<1>3. db' = [op |-> rows, made |-> made, value |-> values, foreign |-> foreign,
            wrote |-> {}, wroteValue |-> {}, map |-> Identity, retargets |-> FALSE,
            edits |-> counts, total |-> total, bumped |-> {}, settled |-> marks]
  BY <1>1, <1>2, ZenonT(40)
<1> QED BY <1>3, Zenon DEF rows, made, values, foreign, counts, total, marks

\* What a commit leaves is a base for the next epoch.
LEMMA CommitStore ==
  ASSUME IInv, Commit
  PROVE  BaseInv'
<1>1. ~Overlap /\ epoch' = epoch + 1 /\ layout' = layout /\ epoch \in Nat
  BY Zenon DEF IInv, Commit
<1> DEFINE rows == [o \in Ops |-> MergedRow(o)]
           made == UNION {task[k].made : k \in Tasks}
           values == [v \in Values |-> MergedValue(v)]
           foreign == [c \in ValueChunks |-> UNION {task[k].foreign[c] : k \in Tasks}]
           counts == [p \in Parts |-> MergedEdits(p)]
           total == MergedTotal
           marks == [p \in Parts |-> MergedSettled(p)]
<1>2. db' = [op |-> rows, made |-> made, value |-> values, foreign |-> foreign,
            wrote |-> {}, wroteValue |-> {}, map |-> Identity, retargets |-> FALSE,
            edits |-> counts, total |-> total, bumped |-> {}, settled |-> marks]
  BY CommitFields, Zenon
<1>3. rows \in [Ops -> Rows] /\ \A o \in Ops : rows[o].live => o \in made
  <2>1. \A o \in Ops : /\ MergedRow(o) \in Rows
                       /\ MergedRow(o).live => \E k \in Tasks : o \in task[k].made
    BY <1>1, Merged, ZenonT(40)
  <2> QED BY <2>1, Zenon
<1>4. made \in SUBSET Ops /\ foreign \in [ValueChunks -> SUBSET Parts]
  <2>1. \A k \in Tasks : task[k].made \subseteq Ops /\ task[k].foreign \in [ValueChunks -> SUBSET Parts]
    BY TaskStores, Zenon DEF IsStore
  <2>2. \A c \in ValueChunks : UNION {task[k].foreign[c] : k \in Tasks} \in SUBSET Parts
    BY <2>1
  <2> QED BY <2>1, <2>2
<1>5. values \in [Values -> BOOLEAN] /\ \A o \in Ops : values[Res[o]] => o \in made
  <2>1. values \in [Values -> BOOLEAN]
    BY MergedValues, ZenonT(40)
  <2>2. ASSUME NEW o \in Ops, values[Res[o]] PROVE o \in made
    <3>1. Res[o] \in Values
      BY Results, Zenon
    <3>2. db.value[Res[o]] \/ \E k \in Tasks : task[k].value[Res[o]]
      BY <2>2, <3>1, MergedValues, ZenonT(40)
    <3>3. db.value[Res[o]] => o \in db.made
      BY Zenon DEF IInv, BaseInv
    <3>4. \A k \in Tasks : db.made \subseteq task[k].made /\ (task[k].value[Res[o]] => o \in task[k].made)
      BY TaskStores, Zenon DEF Kept, Made
    <3> QED BY <3>2, <3>3, <3>4, IdsAssumption, SMTT(40)
  <2> QED BY <2>1, <2>2, Zenon
<1>6. counts \in [Parts -> Nat] /\ total \in Nat
  <2>1. \A p \in Parts : MergedEdits(p) \in Nat /\ MergedTotal \in Nat
    BY CountsMerged, Zenon
  <2> QED BY <2>1, IdsAssumption, Zenon
<1>7. marks = [p \in Parts |-> marks[p]] /\ Identity \in [Values -> Values]
  BY Zenon DEF Identity
<1>8. Identity' = Identity
  BY Zenon DEF Identity
<1> HIDE DEF rows, made, values, foreign, counts, total, marks
<1>9. IsStore(db)'
  BY <1>2, <1>3, <1>4, <1>5, <1>6, <1>7, SMTT(40) DEF IsStore
<1> QED BY <1>1, <1>2, <1>3, <1>5, <1>8, <1>9, SMTT(40) DEF BaseInv

\* The clones that the next epoch opens with.
LEMMA FreshNext ==
  (layout \in Layouts /\ epoch \in Nat /\ BaseInv /\ task = [j \in Tasks |-> db])' => IInv'
<1>1. layout \in Layouts /\ epoch \in Nat /\ BaseInv /\ task = [j \in Tasks |-> db] => IInv
  BY Fresh, Zenon
<1> QED BY <1>1, PTL

\* Every step keeps the invariant.
LEMMA NextInv == IInv /\ [Next]_vars => IInv'
<1> SUFFICES ASSUME IInv, [Next]_vars PROVE IInv'
  BY Zenon
<1>2. ASSUME NEW k \in Tasks,
         \/ \E o \in Ops, v \in Values : SetOpOperand(k, o, v) \/ AddOperation(k, o, v)
         \/ \E o \in Ops, c \in Cells : SetOpAttributes(k, o, c)
         \/ \E old, new \in Ops : ReplaceOp(k, old, new)
         \/ \E old, new \in Values : ReplaceValueUses(k, old, new)
         \/ Settle(k)
      PROVE  IInv'
  BY <1>2, EditInv, Zenon
<1>3. CASE Commit
  <2>1. BaseInv'
    BY <1>3, CommitStore
  <2>2. layout' \in Layouts /\ epoch' \in Nat /\ task' = [j \in Tasks |-> db']
    <3>1. epoch' = epoch + 1 /\ layout' = layout /\ Consumed
      BY <1>3, Zenon DEF Commit
    <3> QED BY <3>1 DEF IInv, Consumed
  <2> QED BY <2>1, <2>2, FreshNext
<1>4. CASE Refuse \/ UNCHANGED vars
  <2>1. BaseInv'
    <3>1. db' = db /\ epoch' = epoch /\ layout' = layout
      BY <1>4, SMTT(40) DEF Refuse, vars
    <3>2. IsStore(db)' /\ (epoch = 0 => ReadsLive(db))'
      BY <3>1 DEF IInv, BaseInv, IsStore, ReadsLive
    <3>3. (epoch = 0 => Noticed(db))'
      BY <3>1, ZenonT(40) DEF IInv, BaseInv, Noticed, OpOwner, Readers, ValueOwner
    <3>4. (epoch = 0 => Marked(db))'
      BY <3>1 DEF IInv, BaseInv, Marked, Version, RowsOf, OpOwner
    <3> QED BY <3>1, <3>2, <3>3, <3>4, SMTT(40) DEF IInv, BaseInv
  <2>2. CASE Refuse
    <3>1. layout' \in Layouts /\ epoch' \in Nat /\ task' = [j \in Tasks |-> db']
      BY <2>2, Zenon DEF IInv, Refuse, Consumed
    <3> QED BY <2>1, <3>1, FreshNext, ZenonT(40)
  <2>3. CASE UNCHANGED vars
    <3>1. UNCHANGED <<db, epoch, layout>> /\ task' = task
      BY <2>3, Zenon DEF vars
    <3>2. \A k \in Tasks : TaskInv(k, task[k])'
      <4> SUFFICES ASSUME NEW k \in Tasks PROVE TaskInv(k, task[k])'
        BY Zenon
      <4>1. PICK d : d = task'[k]
        BY Zenon
      <4>2. TaskInv(k, d)
        BY <3>1, <4>1 DEF IInv
      <4> QED BY <3>1, <4>1, <4>2, TaskPrimed
    <3> QED BY <2>1, <3>1, <3>2, Zenon DEF IInv
  <2> QED BY <1>4, <2>2, <2>3
<1>5. CASE Finished
  BY <1>4, <1>5, Zenon DEF Finished
<1> QED BY <1>2, <1>3, <1>4, <1>5 DEF Next

\* What the store of each task is, against the base that it was cloned from, through every
\* edit, commit and refusal.
THEOREM EpochInvariant == Spec => []IInv
<1>1. Init => IInv
  BY InitInv, Zenon
<1>2. IInv /\ [Next]_vars => IInv'
  BY NextInv, Zenon
<1> QED BY <1>1, <1>2, PTL DEF Spec

-----------------------------------------------------------------------------
\* Tasks with functions of their own do not edit one row.

\* Their commit is not refused.
LEMMA NoOverlap ==
  ASSUME IInv, ReplacesOnce, \A k \in Tasks : Exclusive(k)
  PROVE  ~Overlap
<1>1. \A k \in Tasks : Reached(k, task[k]) /\ Kept(k, task[k])
  BY Zenon DEF IInv, TaskInv
<1>2. \A k, l \in Tasks : k # l => Targets[k] # Targets[l]
  BY Zenon DEF Exclusive
<1>3. ASSUME NEW k \in Tasks, NEW o \in Ops, EditsRow(k, o) PROVE OpOwner[o] = Targets[k]
  <2> SUFFICES ASSUME OpOwner[o] # Targets[k] PROVE FALSE
    BY Zenon
  <2>1. o \in task[k].wrote
    BY <1>3, Zenon DEF EditsRow
  <2>2. /\ task[k].retargets /\ o \in db.made
        /\ task[k].op[o].live = db.op[o].live /\ task[k].op[o].cell = db.op[o].cell
        /\ task[k].op[o].operand = task[k].map[db.op[o].operand]
    <3>1. task[k].op[o].live \in BOOLEAN /\ db.op[o].live \in BOOLEAN
      BY TaskStores, Zenon DEF Rows
    <3> QED BY <1>1, <2>1, <3>1, Zenon DEF Reached
  <2>3. Retargeted /\ OnlyRetargeted(k, o)
    BY <2>2, Zenon DEF Retargeted, OnlyRetargeted
  <2> QED BY <1>3, <2>2, <2>3, ZenonT(40) DEF EditsRow
<1>4. ASSUME NEW k \in Tasks, NEW v \in task[k].wroteValue
      PROVE  \E o \in Ops : v = Res[o] /\ OpOwner[o] = Targets[k]
  <2>1. PICK o \in MakesOps[k] \cup ReplacesOps[k] : v = Res[o]
    BY <1>1, Zenon DEF Kept, Made
  <2>2. o \in Ops /\ OpOwner[o] = Targets[k]
    BY TaskStores, Laid, Zenon
  <2> QED BY <2>1, <2>2
<1>5. ASSUME NEW k \in Tasks, NEW l \in Tasks, k # l
      PROVE  /\ \A o \in Ops : ~(EditsRow(k, o) /\ EditsRow(l, o))
             /\ task[k].wroteValue \cap task[l].wroteValue = {}
  <2>1. \A o \in Ops : ~(EditsRow(k, o) /\ EditsRow(l, o))
    BY <1>2, <1>3, <1>5, SMTT(40)
  <2>2. ASSUME NEW v \in task[k].wroteValue, v \in task[l].wroteValue PROVE FALSE
    <3>1. PICK o \in Ops : v = Res[o] /\ OpOwner[o] = Targets[k]
      BY <1>4, Zenon
    <3>2. PICK x \in Ops : v = Res[x] /\ OpOwner[x] = Targets[l]
      BY <1>4, <2>2, Zenon
    <3>3. o = x
      BY <3>1, <3>2, IdsAssumption, ZenonT(40)
    <3> QED BY <1>2, <1>5, <3>1, <3>2, <3>3, ZenonT(40)
  <2> QED BY <2>1, <2>2, ZenonT(40)
<1> QED BY <1>5, Zenon DEF Overlap

\* Tasks that have a function each to themselves, and put one value in the place of a
\* value, are never refused (Db::merge).
THEOREM EpochNeverRefused == Spec => [](ReplacesOnce => NeverRefused)
<1> DEFINE Inv == ReplacesOnce => NeverRefused
<1>1. Init => Inv
  BY Zenon DEF Init, NeverRefused
<1>2. IInv /\ Inv /\ [Next]_vars => Inv'
  <2> SUFFICES ASSUME IInv, Inv, [Next]_vars, ReplacesOnce', (\A k \in Tasks : Exclusive(k))'
               PROVE  ~refused'
    BY Zenon DEF NeverRefused
  <2>1. layout' = layout
    BY ZenonT(40) DEF Next, SetOpOperand, AddOperation, SetOpAttributes, ReplaceOp, ReplaceValueUses, Step,
           Settle, Commit, Refuse, Finished, vars
  <2>2. ReplacesOnce
    BY <2>1, Zenon DEF ReplacesOnce, ReplacesOps, ReplacesUses
  <2>3. \A k \in Tasks : Exclusive(k)
    BY <2>1, Zenon DEF Exclusive, Targets
  <2>4. ~Refuse
    BY <2>2, <2>3, NoOverlap, Zenon DEF Refuse
  <2>5. ~refused
    BY <2>2, <2>3 DEF NeverRefused
  <2>6. refused' = refused
    BY <2>4, ZenonT(40) DEF Next, SetOpOperand, AddOperation, SetOpAttributes, ReplaceOp, ReplaceValueUses, Step,
           Settle, Commit, Finished, vars
  <2> QED BY <2>5, <2>6, Zenon
<1>3. Spec => []IInv
  BY EpochInvariant, Zenon
<1> QED BY <1>1, <1>2, <1>3, PTL DEF Spec

-----------------------------------------------------------------------------
\* The counts.

\* "a version read inside a task reads the same after the commit unless another task
\* edited under it" (merge), for any number of tasks, edits and epochs.
THEOREM EpochVersionsKept == Spec => VersionsKept
<1>1. IInv /\ [Next]_vars =>
        [epoch' # epoch =>
          \A k \in Tasks, p \in Parts \ {0} :
            Version(db', p) = Version(task[k], p)
              <=> \A j \in Tasks : j # k => task[j].bumped \cap {p, 0} = {}]_vars
  <2> SUFFICES ASSUME IInv, [Next]_vars, epoch' # epoch, NEW k \in Tasks, NEW p \in Parts \ {0}
               PROVE  Version(db', p) = Version(task[k], p)
                        <=> \A j \in Tasks : j # k => task[j].bumped \cap {p, 0} = {}
    BY Zenon
  <2>1. Commit
    BY ZenonT(40) DEF Next, SetOpOperand, AddOperation, SetOpAttributes, ReplaceOp, ReplaceValueUses, Step,
           Settle, Refuse, Finished, vars
  <2>2. db'.edits = [q \in Parts |-> MergedEdits(q)]
    <3>1. db' = [op |-> [o \in Ops |-> MergedRow(o)],
                   made |-> UNION {task[n].made : n \in Tasks},
                   value |-> [v \in Values |-> MergedValue(v)],
                   foreign |-> [c \in ValueChunks |-> UNION {task[n].foreign[c] : n \in Tasks}],
                   wrote |-> {}, wroteValue |-> {}, map |-> Identity, retargets |-> FALSE,
                   edits |-> [q \in Parts |-> MergedEdits(q)], total |-> MergedTotal,
                   bumped |-> {}, settled |-> [q \in Parts |-> MergedSettled(q)]]
      BY <2>1, CommitFields, Zenon
    <3> QED BY <3>1, Zenon
  <2>3. Version(db', p) = MergedEdits(p) + MergedEdits(0) /\ 0 \in Parts
    BY <2>2, IdsAssumption, Zenon DEF Version
  <2>4. Version(task[k], p) = task[k].edits[p] + task[k].edits[0]
    BY Zenon DEF Version
  <2>5. \A q \in {p, 0} :
          /\ MergedEdits(q) \in Nat /\ task[k].edits[q] \in Nat /\ task[k].edits[q] <= MergedEdits(q)
          /\ MergedEdits(q) = task[k].edits[q] <=> \A j \in Tasks : j # k => q \notin task[j].bumped
    BY <2>3, CountsMerged, ZenonT(40)
  <2>6. MergedEdits(p) + MergedEdits(0) = task[k].edits[p] + task[k].edits[0]
          <=> MergedEdits(p) = task[k].edits[p] /\ MergedEdits(0) = task[k].edits[0]
    <3>1. \A a, b, c, d \in Nat : c <= a /\ d <= b => (a + b = c + d <=> a = c /\ b = d)
      OBVIOUS
    <3> QED BY <2>5, <3>1
  <2> QED BY <2>3, <2>4, <2>5, <2>6, ZenonT(40)
<1>2. Spec => []IInv
  BY EpochInvariant, Zenon
<1> QED BY <1>1, <1>2, PTL DEF Spec, VersionsKept

-----------------------------------------------------------------------------
\* The edits that a commit keeps.

\* The row a batch edited is the row the commit takes.
LEMMA EditTaken ==
  ASSUME IInv, ~Overlap, NEW k \in Tasks, NEW o \in Ops, EditsRow(k, o)
  PROVE  MergedRow(o) = RowOf(o, k)
<1>1. o \in task[k].wrote
  BY Zenon DEF EditsRow
<1>2. ~FromBase(o) /\ ~Untouched(o)
  BY <1>1, Zenon DEF FromBase, Untouched
<1>3. PICK j \in Tasks : FromTask(o, j)
  BY <1>2, RowComesFrom
<1>4. j = k
  BY <1>3, Zenon DEF FromTask
<1> QED BY <1>3, <1>4, Zenon DEF FromTask

\* A commit keeps what each task wrote: a changed cell, an op made or erased, and an operand
\* set to a value that no other task replaced (Db::merge).
THEOREM EpochNoLostEdit == Spec => NoLostEdit
<1> DEFINE Kind == epoch' # epoch =>
        \A k \in Tasks : \A o \in task[k].wrote :
          LET was == db.op[o]
              theirs == task[k].op[o]
              now == db'.op[o]
              kept == \A j \in Tasks \ {k} : task[j].map[theirs.operand] = theirs.operand
          IN  /\ theirs.cell # was.cell => now.cell = theirs.cell
              /\ theirs.live # was.live => now.live = theirs.live
              /\ theirs.operand # task[k].map[was.operand] /\ kept => now.operand = theirs.operand
<1>1. IInv /\ [Next]_vars => [Kind]_vars
  <2> SUFFICES ASSUME IInv, [Next]_vars, epoch' # epoch, NEW k \in Tasks, NEW o \in task[k].wrote
               PROVE
          /\ task[k].op[o].cell # db.op[o].cell => db'.op[o].cell = task[k].op[o].cell
          /\ task[k].op[o].live # db.op[o].live => db'.op[o].live = task[k].op[o].live
          /\ /\ task[k].op[o].operand # task[k].map[db.op[o].operand]
             /\ \A j \in Tasks \ {k} : task[j].map[task[k].op[o].operand] = task[k].op[o].operand
             => db'.op[o].operand = task[k].op[o].operand
    BY Zenon
  <2>1. Commit
    BY ZenonT(40) DEF Next, SetOpOperand, AddOperation, SetOpAttributes, ReplaceOp, ReplaceValueUses, Step,
           Settle, Refuse, Finished, vars
  <2>2. ~Overlap
    BY <2>1, Zenon DEF Commit
  <2>3. o \in Ops
    BY TaskStores, Zenon DEF IsStore
  <2>4. db'.op = [x \in Ops |-> MergedRow(x)]
    <3>1. db' = [op |-> [x \in Ops |-> MergedRow(x)],
                   made |-> UNION {task[n].made : n \in Tasks},
                   value |-> [v \in Values |-> MergedValue(v)],
                   foreign |-> [c \in ValueChunks |-> UNION {task[n].foreign[c] : n \in Tasks}],
                   wrote |-> {}, wroteValue |-> {}, map |-> Identity, retargets |-> FALSE,
                   edits |-> [q \in Parts |-> MergedEdits(q)], total |-> MergedTotal,
                   bumped |-> {}, settled |-> [q \in Parts |-> MergedSettled(q)]]
      BY <2>1, CommitFields, Zenon
    <3> QED BY <3>1, Zenon
  <2>5. db'.op[o] = MergedRow(o)
    BY <2>3, <2>4
  <2>6. SUFFICES ASSUME ~OnlyRetargeted(k, o)
                 PROVE
          /\ db'.op[o].cell = task[k].op[o].cell
          /\ db'.op[o].live = task[k].op[o].live
          /\ (\A j \in Tasks \ {k} : task[j].map[task[k].op[o].operand] = task[k].op[o].operand)
             => db'.op[o].operand = task[k].op[o].operand
    BY Zenon DEF OnlyRetargeted
  <2>7. EditsRow(k, o)
    BY <2>6, Zenon DEF EditsRow
  <2>8. MergedRow(o) = RowOf(o, k)
    BY <2>2, <2>3, <2>7, EditTaken
  <2>9. /\ RowOf(o, k).live = task[k].op[o].live /\ RowOf(o, k).cell = task[k].op[o].cell
        /\ RowOf(o, k).operand = Replayed(task[k].op[o].operand, k)
        /\ task[k].op[o].operand \in Values
    BY <2>3, RowFields, Zenon
  <2>10. ASSUME \A j \in Tasks \ {k} : task[j].map[task[k].op[o].operand] = task[k].op[o].operand
         PROVE  Replayed(task[k].op[o].operand, k) = task[k].op[o].operand
    <3>1. k \in Nat /\ \A n \in Tasks : task[n].map \in [Values -> Values]
      BY TaskStores, Zenon
    <3>2. \A n \in Tasks : n # k => task[n].map[task[k].op[o].operand] = task[k].op[o].operand
      BY <2>10, ZenonT(40)
    <3> QED BY <2>9, <3>1, <3>2, ReplayFixed, ZenonT(40)
  <2> QED BY <2>5, <2>8, <2>9, <2>10, ZenonT(40)
<1>2. Spec => []IInv
  BY EpochInvariant, Zenon
<1> QED BY <1>1, <1>2, PTL DEF Spec, NoLostEdit

-----------------------------------------------------------------------------
\* Replacements of tasks that do not build on each other's.

\* What one task replaces, and puts in its place, no other replaces.
LEMMA OneMoves ==
  ASSUME IInv, Unchained, NEW m \in Tasks, NEW v \in Values, task[m].map[v] # v,
         NEW n \in Tasks, n # m
  PROVE  /\ task[m].map[v] \in Values
         /\ task[n].map[v] = v /\ task[n].map[task[m].map[v]] = task[m].map[v]
<1>1. \A k \in Tasks : Moves(k, task[k]) /\ task[k].map \in [Values -> Values]
  BY TaskStores, Zenon DEF Kept
<1>2. v \in Olds(m) /\ task[m].map[v] \in News(m) /\ task[m].map[v] \in Values
  BY <1>1, Zenon DEF Moves
<1>3. v \notin Olds(n) /\ task[m].map[v] \notin Olds(n)
  BY <1>2, Zenon DEF Unchained
<1> QED BY <1>1, <1>2, <1>3 DEF Moves

\* Where the replay takes a value: to what some other batch put in its place, or nowhere.
LEMMA ReplayCases ==
  ASSUME IInv, Unchained, NEW v \in Values, NEW w \in Nat
  PROVE  \/ \E m \in Tasks : m # w /\ task[m].map[v] # v /\ Replayed(v, w) = task[m].map[v]
         \/ (\A m \in Tasks : m # w => task[m].map[v] = v) /\ Replayed(v, w) = v
<1>1. \A n \in Tasks : task[n].map \in [Values -> Values]
  BY TaskStores, Zenon
<1>2. CASE \E m \in Tasks : m # w /\ task[m].map[v] # v
  <2>1. PICK m \in Tasks : m # w /\ task[m].map[v] # v
    BY <1>2, Zenon
  <2>2. PICK u : u = task[m].map[v]
    BY ZenonT(40)
  <2>3. \A n \in Tasks : n # m => task[n].map[v] = v /\ task[n].map[u] = u
    BY <2>1, <2>2, OneMoves, SMTT(40)
  <2>4. Replayed(v, w) = u
    BY <1>1, <2>1, <2>2, <2>3, ReplayMoved, SMTT(40)
  <2> QED BY <2>1, <2>2, <2>4, Zenon
<1>3. CASE \A m \in Tasks : m # w => task[m].map[v] = v
  BY <1>1, <1>3, ReplayFixed, ZenonT(40)
<1> QED BY <1>2, <1>3

\* A row one batch only replaced uses in is the base's with every replacement.
LEMMA ReplayEither ==
  ASSUME IInv, Unchained, NEW k \in Tasks, NEW v \in Values
  PROVE  Replayed(task[k].map[v], k) = Replayed(v, 0)
<1>1. /\ \A n \in Tasks : n \in Nat /\ n # 0 /\ task[n].map \in [Values -> Values]
      /\ 0 \in Nat
  BY TaskStores, TaskNumbers
<1>2. CASE task[k].map[v] # v
  <2>1. PICK u \in Values : u = task[k].map[v]
    BY <1>1, Zenon
  <2>2. \A n \in Tasks : n # k => task[n].map[v] = v /\ task[n].map[u] = u
    BY <1>2, <2>1, OneMoves, ZenonT(40)
  <2>3. Replayed(v, 0) = u
    BY <1>1, <2>1, <2>2, ReplayMoved
  <2>4. Replayed(u, k) = u
    BY <1>1, <2>2, ReplayFixed, Zenon
  <2> QED BY <2>1, <2>3, <2>4, Zenon
<1>3. CASE task[k].map[v] = v
  <2>1. CASE \E m \in Tasks : task[m].map[v] # v
    <3>1. PICK m \in Tasks : task[m].map[v] # v
      BY <2>1, Zenon
    <3>2. PICK u : u = task[m].map[v]
      BY ZenonT(40)
    <3>3. \A n \in Tasks : n # m => task[n].map[v] = v /\ task[n].map[u] = u
      BY <3>1, <3>2, OneMoves
    <3>4. m # k /\ m # 0
      BY <1>1, <1>3, <3>1, ZenonT(40)
    <3>5. Replayed(v, 0) = u
      BY <1>1, <3>2, <3>3, <3>4, ReplayMoved, SMTT(40)
    <3>6. Replayed(v, k) = u
      BY <1>1, <3>2, <3>3, <3>4, ReplayMoved, SMTT(40)
    <3> QED BY <1>3, <3>5, <3>6, Zenon
  <2>2. CASE \A m \in Tasks : task[m].map[v] = v
    <3>1. Replayed(v, 0) = v
      BY <1>1, <2>2, ReplayFixed, ZenonT(40)
    <3>2. Replayed(v, k) = v
      BY <1>1, <2>2, ReplayFixed, ZenonT(40)
    <3> QED BY <1>3, <3>1, <3>2, ZenonT(40)
  <2> QED BY <2>1, <2>2, Zenon
<1> QED BY <1>2, <1>3, ZenonT(40)

-----------------------------------------------------------------------------
\* Rows with the same fields.
LEMMA SameFields ==
  ASSUME NEW r \in Rows, NEW s \in Rows, r.live = s.live, r.operand = s.operand, r.cell = s.cell
  PROVE  r = s
BY DEF Rows

\* "The commit takes a chunk whole when one task wrote it and merges row by row when several
\* did" (core_ir.md): the two leave the same rows, whatever shares a chunk with them.
THEOREM EpochChunkingIrrelevant == Spec => [](Unchained => ChunkingIrrelevant)
<1>1. IInv => (Unchained => ChunkingIrrelevant)
  <2> SUFFICES ASSUME IInv, Unchained, ~Overlap, NEW o \in Ops, NEW k \in Tasks,
                      Writers(OpChunkOf[o]) = {k}
               PROVE  TakenWhole(o, k) = TakenByRow(o)
    BY Zenon DEF ChunkingIrrelevant
  <2> DEFINE E == {j \in Tasks : EditsRow(j, o)}
  <2>1. \A j \in Tasks : j # k => o \notin task[j].wrote
    BY Zenon DEF Writers
  <2>2. \A j \in Tasks : EditsRow(j, o) => o \in task[j].wrote
    BY Zenon DEF EditsRow
  <2>3. TakenByRow(o) =
          IF E # {} THEN RowOf(o, CHOOSE j \in E : TRUE)
          ELSE IF \E j \in Tasks : o \in task[j].wrote THEN BaseRow(o) ELSE db.op[o]
    BY Zenon DEF TakenByRow, RowOf, BaseRow
  <2>4. TakenWhole(o, k) = IF o \in task[k].wrote THEN RowOf(o, k) ELSE task[k].op[o]
    BY Zenon DEF TakenWhole, RowOf
  <2>5. CASE EditsRow(k, o)
    <3>1. E = {k}
      BY <2>1, <2>2, <2>5, ZenonT(40)
    <3>2. (CHOOSE j \in E : TRUE) = k /\ E # {}
      BY <3>1, Zenon
    <3> HIDE DEF E
    <3> QED BY <2>2, <2>3, <2>4, <2>5, <3>2, ZenonT(40)
  <2>6. CASE ~EditsRow(k, o) /\ o \in task[k].wrote
    <3>1. E = {}
      BY <2>1, <2>2, <2>6, SMTT(40)
    <3>2. TakenByRow(o) = BaseRow(o) /\ TakenWhole(o, k) = RowOf(o, k)
      <4> HIDE DEF E
      <4> QED BY <2>3, <2>4, <2>6, <3>1
    <3>3. OnlyRetargeted(k, o)
      BY <2>6, Zenon DEF EditsRow
    <3>4. /\ task[k].op[o].live = db.op[o].live /\ task[k].op[o].cell = db.op[o].cell
          /\ task[k].op[o].operand = task[k].map[db.op[o].operand]
      BY <3>3, Zenon DEF OnlyRetargeted
    <3>5. /\ RowOf(o, k) \in Rows
          /\ RowOf(o, k).live = task[k].op[o].live /\ RowOf(o, k).cell = task[k].op[o].cell
          /\ RowOf(o, k).operand = Replayed(task[k].op[o].operand, k)
      BY RowFields, Zenon
    <3>6. /\ BaseRow(o) \in Rows
          /\ BaseRow(o).live = db.op[o].live /\ BaseRow(o).cell = db.op[o].cell
          /\ BaseRow(o).operand = Replayed(db.op[o].operand, 0) /\ db.op[o].operand \in Values
      BY RowFields, Zenon
    <3>7. Replayed(task[k].map[db.op[o].operand], k) = Replayed(db.op[o].operand, 0)
      BY <3>6, ReplayEither, Zenon
    <3>8. RowOf(o, k) = BaseRow(o)
      <4>1. /\ RowOf(o, k).live = BaseRow(o).live /\ RowOf(o, k).cell = BaseRow(o).cell
            /\ RowOf(o, k).operand = BaseRow(o).operand
        BY <3>4, <3>5, <3>6, <3>7, ZenonT(40)
      <4> QED BY <3>5, <3>6, <4>1, SameFields, ZenonT(40)
    <3> QED BY <3>2, <3>8, Zenon
  <2>7. CASE o \notin task[k].wrote
    <3>1. E = {} /\ ~ \E j \in Tasks : o \in task[j].wrote
      BY <2>1, <2>2, <2>7, Zenon
    <3>2. task[k].op[o] = db.op[o]
      BY <2>7, TaskStores, ZenonT(40) DEF Kept, Unwritten
    <3> HIDE DEF E
    <3> QED BY <2>3, <2>4, <2>7, <3>1, <3>2, ZenonT(40)
  <2> QED BY <2>5, <2>6, <2>7, Zenon
<1>2. Spec => []IInv
  BY EpochInvariant, Zenon
<1> QED BY <1>1, <1>2, PTL

-----------------------------------------------------------------------------
\* The reads of a commit.

\* A value stays live through the commit if it was live and no batch erased it.
LEMMA LiveAfter ==
  ASSUME IInv, NEW v \in Values, db.value[v] \/ \E k \in Tasks : task[k].value[v],
         \A j \in Tasks : ~Erased(task[j], v)
  PROVE  MergedValue(v)
<1>1. CASE \E k \in Tasks : v \in task[k].wroteValue
  <2>1. PICK k : k = CHOOSE x \in Tasks : v \in task[x].wroteValue
    BY Zenon
  <2>2. k \in Tasks /\ v \in task[k].wroteValue
    BY <1>1, <2>1, Zenon
  <2>3. MergedValue(v) = task[k].value[v]
    BY <1>1, <2>1, Zenon DEF MergedValue
  <2> QED BY <2>2, <2>3, Zenon DEF Erased
<1>2. CASE ~ \E k \in Tasks : v \in task[k].wroteValue
  <2>1. MergedValue(v) = db.value[v]
    BY <1>2, Zenon DEF MergedValue
  <2>2. \A k \in Tasks : task[k].value[v] = db.value[v]
    BY <1>2, TaskStores, Zenon DEF Kept, Unwritten
  <2> QED BY <2>1, <2>2, Zenon
<1> QED BY <1>1, <1>2, Zenon

\* What the replay makes of a live value is live after the commit.
LEMMA ReplayLive ==
  ASSUME IInv, Unchained, epoch = 0, NEW v \in Values, NEW w \in Nat,
         db.value[v] \/ \E k \in Tasks : task[k].value[v],
         w \in Tasks => ~Erased(task[w], v)
  PROVE  MergedValue(Replayed(v, w))
<1>1. \A k \in Tasks : Sound(task[k]) /\ task[k].map \in [Values -> Values]
  BY TaskStores, Zenon DEF IInv, TaskInv
<1>2. CASE \E m \in Tasks : m # w /\ task[m].map[v] # v /\ Replayed(v, w) = task[m].map[v]
  <2>1. PICK m \in Tasks : m # w /\ task[m].map[v] # v /\ Replayed(v, w) = task[m].map[v]
    BY <1>2, Zenon
  <2>2. PICK u \in Values : u = task[m].map[v]
    BY <1>1, Zenon
  <2>3. task[m].value[u]
    BY <1>1, <2>1, <2>2, ZenonT(40) DEF Sound
  <2>4. \A n \in Tasks : n # m => task[n].map[u] = u
    BY <2>1, <2>2, OneMoves
  <2>5. \A n \in Tasks : ~Erased(task[n], u)
    BY <1>1, <2>3, <2>4, Zenon DEF Sound, Erased
  <2> QED BY <2>1, <2>2, <2>3, <2>5, LiveAfter, ZenonT(40)
<1>3. CASE (\A m \in Tasks : m # w => task[m].map[v] = v) /\ Replayed(v, w) = v
  <2>1. \A n \in Tasks : ~Erased(task[n], v)
    BY <1>1, <1>3, Zenon DEF Sound
  <2> QED BY <1>3, <2>1, LiveAfter, Zenon
<1> QED BY <1>2, <1>3, ReplayCases, Zenon

\* A live row of the first commit reads a value that is live after it.
LEMMA CommitReadsLive ==
  ASSUME IInv, Unchained, epoch = 0, ~Overlap, NEW o \in Ops, MergedRow(o).live
  PROVE  MergedValue(MergedRow(o).operand)
<1>1. \A k \in Tasks : Sound(task[k]) /\ k \in Nat /\ k # 0
  BY TaskStores, TaskNumbers DEF IInv, TaskInv
<1>2. ReadsLive(db)
  BY Zenon DEF IInv, BaseInv
<1>3. /\ BaseRow(o).live = db.op[o].live /\ BaseRow(o).operand = Replayed(db.op[o].operand, 0)
      /\ db.op[o].operand \in Values
  BY RowFields, Zenon
<1>4. CASE \E k \in Tasks : FromTask(o, k)
  <2>1. PICK k \in Tasks : FromTask(o, k)
    BY <1>4, Zenon
  <2>2. MergedRow(o) = RowOf(o, k)
    BY <2>1, Zenon DEF FromTask
  <2>3. /\ RowOf(o, k).live = task[k].op[o].live
        /\ RowOf(o, k).operand = Replayed(task[k].op[o].operand, k)
        /\ task[k].op[o].operand \in Values
    BY RowFields, Zenon
  <2>4. task[k].value[task[k].op[o].operand]
    BY <1>1, <2>2, <2>3, Zenon DEF Sound, ReadsLive
  <2>5. ~Erased(task[k], task[k].op[o].operand)
    BY <2>4, Zenon DEF Erased
  <2>6. MergedValue(Replayed(task[k].op[o].operand, k))
    BY <1>1, <2>3, <2>4, <2>5, ReplayLive, ZenonT(40)
  <2> QED BY <2>2, <2>3, <2>6, Zenon
<1>5. CASE FromBase(o)
  <2>1. MergedRow(o) = BaseRow(o)
    BY <1>5, Zenon DEF FromBase
  <2>2. db.value[db.op[o].operand]
    BY <1>2, <1>3, <2>1, ZenonT(40) DEF ReadsLive
  <2>3. MergedValue(Replayed(db.op[o].operand, 0))
    BY <1>1, <1>3, <2>2, ReplayLive, ZenonT(40)
  <2> QED BY <1>3, <2>1, <2>3, ZenonT(40)
<1>6. CASE Untouched(o)
  <2>1. MergedRow(o) = db.op[o] /\ \A j \in Tasks : o \notin task[j].wrote
    BY <1>6, Zenon DEF Untouched
  <2>2. db.value[db.op[o].operand]
    BY <1>2, <2>1, Zenon DEF ReadsLive
  <2>3. \A j \in Tasks : task[j].op[o] = db.op[o]
    BY <2>1, TaskStores, ZenonT(40) DEF Kept, Unwritten
  <2>4. \A j \in Tasks : ~Erased(task[j], db.op[o].operand)
    BY <1>1, <2>1, <2>3 DEF Sound, ReadsLive, Erased
  <2> QED BY <1>3, <2>1, <2>2, <2>4, LiveAfter, ZenonT(40)
<1> QED BY <1>4, <1>5, <1>6, RowComesFrom, ZenonT(40)

\* The first commit leaves no live op reading an erased value, and once the last epoch is
\* committed the stores are what it left.
FirstCommit == Unchained /\ epoch = 1 => ReadsLive(db)
Ended == epoch >= MaxEpochs => \A k \in Tasks : task[k] = db

\* Both are kept by every step.
LEMMA FirstCommitInv == IInv /\ FirstCommit /\ Ended /\ [Next]_vars => FirstCommit' /\ Ended'
<1> SUFFICES ASSUME IInv, FirstCommit, Ended, [Next]_vars PROVE FirstCommit' /\ Ended'
  BY Zenon
<1>1. layout' = layout
  BY ZenonT(40) DEF Next, SetOpOperand, AddOperation, SetOpAttributes, ReplaceOp, ReplaceValueUses, Step,
         Settle, Commit, Refuse, Finished, vars
<1>2. Unchained' <=> Unchained
  BY <1>1, Zenon DEF Unchained, Olds, News, ReplacesOps, ReplacesUses
<1>3. CASE Commit
  <2>1. ~Overlap /\ epoch' = epoch + 1 /\ Consumed
    BY <1>3, Zenon DEF Commit
  <2>2. Ended'
    BY <2>1, Zenon DEF Consumed, Ended
  <2>3. ASSUME Unchained, epoch' = 1 PROVE ReadsLive(db)'
    <3>1. epoch = 0
      BY <2>1, <2>3 DEF IInv
    <3>2. db' = [op |-> [x \in Ops |-> MergedRow(x)],
                   made |-> UNION {task[n].made : n \in Tasks},
                   value |-> [v \in Values |-> MergedValue(v)],
                   foreign |-> [c \in ValueChunks |-> UNION {task[n].foreign[c] : n \in Tasks}],
                   wrote |-> {}, wroteValue |-> {}, map |-> Identity, retargets |-> FALSE,
                   edits |-> [q \in Parts |-> MergedEdits(q)], total |-> MergedTotal,
                   bumped |-> {}, settled |-> [q \in Parts |-> MergedSettled(q)]]
      BY <1>3, CommitFields, Zenon
    <3>3. /\ db'.op = [x \in Ops |-> MergedRow(x)]
          /\ db'.value = [v \in Values |-> MergedValue(v)]
      BY <3>2, Zenon
    <3>4. ASSUME NEW o \in Ops, MergedRow(o).live
          PROVE  MergedRow(o).operand \in Values /\ MergedValue(MergedRow(o).operand)
      <4>1. MergedRow(o) \in Rows
        BY <2>1, Merged, Zenon
      <4> QED BY <2>1, <2>3, <3>1, <3>4, <4>1, CommitReadsLive, SMTT(40) DEF Rows
    <3> QED BY <3>3, <3>4, Zenon DEF ReadsLive
  <2> QED BY <1>2, <2>2, <2>3, Zenon DEF FirstCommit
<1>4. CASE ~Commit
  <2>1. db' = db /\ epoch' = epoch
    BY <1>4, ZenonT(40) DEF Next, SetOpOperand, AddOperation, SetOpAttributes, ReplaceOp, ReplaceValueUses, Step,
         Settle, Refuse, Finished, vars
  <2>2. FirstCommit'
    BY <1>2, <2>1, Zenon DEF FirstCommit, ReadsLive
  <2>3. Ended'
    <3> SUFFICES ASSUME epoch >= MaxEpochs PROVE \A k \in Tasks : task'[k] = db'
      BY <2>1, Zenon DEF Ended
    <3>1. ~Editing
      BY IdsAssumption DEF Editing, IInv
    <3>2. task' = task
      BY <1>4, <3>1, ZenonT(40) DEF Next, SetOpOperand, AddOperation, SetOpAttributes, ReplaceOp,
           ReplaceValueUses, Step, Settle, Refuse, Finished, vars
    <3> QED BY <2>1, <3>2, Zenon DEF Ended
  <2> QED BY <2>2, <2>3, Zenon
<1> QED BY <1>3, <1>4, Zenon

\* "so consumers don't dangle on the erased op's values" (replace_op): through the tasks'
\* edits and the first commit no live op reads an erased value, when no task replaces what
\* another replaces or puts in the place of a value.
THEOREM EpochNoDanglingReads ==
  ASSUME MaxEpochs = 1
  PROVE  Spec => [](Unchained => NoDanglingReads)
<1>1. Init => FirstCommit /\ Ended
  BY DEF Init, FirstCommit, Ended
<1>2. IInv /\ FirstCommit /\ Ended /\ [Next]_vars => FirstCommit' /\ Ended'
  BY FirstCommitInv, Zenon
<1>3. Init => epoch <= MaxEpochs
  BY IdsAssumption DEF Init
<1>4. IInv /\ epoch <= MaxEpochs /\ [Next]_vars => (epoch <= MaxEpochs)'
  <2> SUFFICES ASSUME IInv, epoch <= MaxEpochs, [Next]_vars PROVE epoch' <= MaxEpochs
    BY Zenon
  <2>1. epoch' = epoch \/ (epoch' = epoch + 1 /\ Editing)
    BY ZenonT(40) DEF Next, SetOpOperand, AddOperation, SetOpAttributes, ReplaceOp, ReplaceValueUses, Step,
         Settle, Commit, Refuse, Finished, vars
  <2> QED BY <2>1, IdsAssumption DEF Editing, IInv
<1>5. IInv /\ FirstCommit /\ Ended /\ epoch <= MaxEpochs => (Unchained => NoDanglingReads)
  <2> SUFFICES ASSUME IInv, FirstCommit, Ended, epoch <= MaxEpochs, Unchained PROVE NoDanglingReads
    BY Zenon
  <2>1. CASE epoch = 0
    BY <2>1, Zenon DEF IInv, BaseInv, TaskInv, Sound, NoDanglingReads
  <2>2. CASE epoch = 1
    BY <2>2, Zenon DEF FirstCommit, Ended, NoDanglingReads
  <2> QED BY <2>1, <2>2 DEF IInv
<1>6. Spec => []IInv
  BY EpochInvariant, Zenon
<1> QED BY <1>1, <1>2, <1>3, <1>4, <1>5, <1>6, PTL DEF Spec

\* In the first epoch a function a pass is settled on, in a task's store, is as that pass
\* left it: the version the pass settled at is current only while the rows are.
THEOREM EpochTaskSettledIsFresh == Spec => [](epoch = 0 => TaskSettledIsFresh)
<1>1. IInv => (epoch = 0 => TaskSettledIsFresh)
  <2> SUFFICES ASSUME IInv, epoch = 0, NEW k \in Tasks, NEW p \in Parts, IsSettled(task[k], p)
               PROVE  RowsOf(task[k], p) = task[k].settled[p].rows
    BY Zenon DEF TaskSettledIsFresh
  <2>1. Marked(task[k])
    BY Zenon DEF IInv, TaskInv
  <2> QED BY <2>1, Zenon DEF Marked, IsSettled
<1>2. Spec => []IInv
  BY EpochInvariant, Zenon
<1> QED BY <1>1, <1>2, PTL
=============================================================================
