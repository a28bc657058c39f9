--------------------------- MODULE MintingProofs ---------------------------
(***************************************************************************)
(* Proofs about Minting, for every number of chunks, rows, partitions and  *)
(* tasks: the tasks of an epoch mint apart, a merge renames nothing, and   *)
(* ids ascend when no two targets of an epoch share a function.            *)
(***************************************************************************)
EXTENDS Minting, WellFoundedInduction, TLAPS

-----------------------------------------------------------------------------
(* Facts about natural numbers. *)

\* Every set of naturals that has a member has a least one: the induction the
\* proofs about counters and indices of the code rest on.
LEMMA LeastNatural ==
  ASSUME NEW S \in SUBSET Nat, S # {}
  PROVE  \E n \in S : \A m \in S : n <= m
<1> DEFINE R == OpToRel(<, Nat)
<1>1. IsWellFoundedOn(R, Nat)
  BY NatLessThanWellFounded
<1>2. PICK n \in S : \A m \in S : ~ (<<m, n>> \in R)
  <2> HIDE DEF R
  <2> QED BY <1>1, WFMin
<1>3. ASSUME NEW m \in S PROVE n <= m
  <2>1. m \in Nat /\ n \in Nat
    OBVIOUS
  <2>2. ~ (m < n)
    BY <1>2, <2>1 DEF OpToRel
  <2> QED BY <2>1, <2>2
<1> QED BY <1>3

\* Multiples of different numbers are a multiple apart: why ranks times STRIDE
\* leave gaps, and chunk indices of different rounds do not meet.
LEMMA MultiplesApart ==
  ASSUME NEW c \in Nat, NEW x \in Nat, NEW y \in Nat, x < y
  PROVE  x * c \in Nat /\ y * c \in Nat /\ x * c + c <= y * c
<1>1. PICK w \in Nat : y = x + 1 + w
  <2>1. y - (x + 1) \in Nat /\ y = x + 1 + (y - (x + 1))
    OBVIOUS
  <2> QED BY <2>1
<1>2. y * c = x * c + c + w * c
  BY <1>1
<1>3. w * c \in Nat /\ x * c \in Nat
  OBVIOUS
<1> QED BY <1>2, <1>3

\* Every `c`th number from `k` and from `l` on never meet below `c`: why lanes of
\* chunk indices are apart.
LEMMA PlacesApart ==
  ASSUME NEW c \in Nat, NEW k \in Nat, NEW l \in Nat, NEW t \in Nat, NEW u \in Nat,
         k < c, l < c, t * c + k = u * c + l
  PROVE  k = l
<1>1. t * c \in Nat /\ u * c \in Nat
  OBVIOUS
<1>2. CASE t < u
  BY <1>1, <1>2, MultiplesApart
<1>3. CASE u < t
  BY <1>1, <1>3, MultiplesApart
<1>4. CASE t = u
  BY <1>1, <1>4
<1> QED BY <1>2, <1>3, <1>4

LEMMA AtMostTransitive ==
  \A x, y, z \in Nat : (x < y /\ y <= z => x <= z) /\ (x <= y /\ y <= z => x <= z)
OBVIOUS

-----------------------------------------------------------------------------
(* The inductive invariant. *)

\* The indices `fresh` hands out to the lane of `d`.
TakenBy(d, i) == \E t \in Nat : i = d.lane.base + t * d.lane.count + d.lane.index

\* While the tasks run, each lane is at its task's place over the base.
LanesPlaced ==
  next = 0 => \A k \in DOMAIN task :
    /\ task[k].lane.index = k - 1
    /\ task[k].lane.count = Len(task)
    /\ task[k].lane.base = Chunks(db)

\* A chunk in which a task's store differs from the base is its lane's, or is
\* one its partition filled before and the task has to itself.
ChunkChanged(k, i) ==
  /\ task[k].chunk[i].owner = task[k].target
  /\ \/ TakenBy(task[k], i)
     \/ /\ i < task[k].lane.base
        /\ task[k].lane.exclusive
        /\ db.chunk[i].owner = task[k].target
        /\ db.chunk[i].len <= task[k].chunk[i].len

ChunksKept ==
  next = 0 => \A k \in DOMAIN task : \A i \in Indices :
    task[k].chunk[i] # db.chunk[i] => ChunkChanged(k, i)

\* What a task has open in its partition is what the base had, or its lane's.
OpenOf(k) == task[k].open[task[k].target]

OpenKept ==
  next = 0 => \A k \in DOMAIN task :
    \/ OpenOf(k) = db.open[task[k].target]
    \/ /\ OpenOf(k) # NoChunk
       /\ TakenBy(task[k], OpenOf(k))
       /\ task[k].chunk[OpenOf(k)].owner = task[k].target

\* No other task mints into the partition of an exclusive lane.
ExclusiveApart ==
  \A k, l \in DOMAIN task :
    k # l /\ task[k].lane.exclusive => task[l].target # task[k].target

\* A task's counters start at the base's.
CountsAhead ==
  /\ next = 0 => \A k \in DOMAIN task :
       db.minted <= task[k].minted /\ db.module_minted <= task[k].module_minted
  /\ next > 0 => \A k \in DOMAIN task :
       before.minted <= task[k].minted /\ before.module_minted <= task[k].module_minted

\* What the merge has still to open for a partition is that partition's.
FoldsOwn ==
  next > 0 => \A k \in DOMAIN task :
    next <= k /\ task[k].lane.exclusive /\ OpenOf(k) # NoChunk =>
      db.chunk[OpenOf(k)].owner = task[k].target

IInv ==
  /\ TypeOK
  /\ OpenIsOwn
  /\ LanesPlaced
  /\ ChunksKept
  /\ OpenKept
  /\ ExclusiveApart
  /\ CountsAhead
  /\ FoldsOwn

-----------------------------------------------------------------------------
(* The operators on stores. *)

\* Chunk indices and row counts are naturals, and there is an index.
LEMMA ChunkTypes ==
  ASSUME NEW d \in Dbs, NEW i \in Indices
  PROVE  d.chunk[i].len \in Nat /\ d.chunk[i].owner \in Parts \cup {NoPart}
<1>1. d.chunk \in [Indices -> [owner : Parts \cup {NoPart}, len : 0 .. ChunkRows]]
  BY DEF Dbs
<1> QED BY <1>1, SizeAssumption

\* Space::chunks is past every chunk there is, and within MAX_CHUNKS.
LEMMA ChunksBound ==
  ASSUME NEW d \in Dbs
  PROVE  /\ Chunks(d) \in 0 .. MaxChunks
         /\ \A i \in Indices : Filled(d, i) => i < Chunks(d)
<1> USE SizeAssumption
<1> DEFINE Past(n) == \A i \in Indices : Filled(d, i) => i < n
           S == {n \in Nat : Past(n)}
<1>1. MaxChunks \in S
  BY DEF Indices
<1>2. PICK n \in S : \A m \in S : n <= m
  <2> HIDE DEF S
  <2>1. S \subseteq Nat
    BY DEF S
  <2> QED BY <1>1, <2>1, LeastNatural
<1>3. n \in 0 .. MaxChunks
  BY <1>1, <1>2
<1>4. n > 0 => Filled(d, n - 1)
  <2> SUFFICES ASSUME n > 0 PROVE Filled(d, n - 1)
    OBVIOUS
  <2>1. n - 1 \notin S /\ n - 1 \in Nat
    BY <1>2
  <2>2. PICK i \in Indices : Filled(d, i) /\ ~(i < n - 1)
    BY <2>1
  <2>3. i < n
    BY <1>2, <2>2
  <2>4. i = n - 1
    BY <2>2, <2>3 DEF Indices
  <2> QED BY <2>2, <2>4
<1>5. Past(n)
  BY <1>2
<1> QED BY <1>3, <1>4, <1>5, Zenon DEF Chunks

SameLane(a, b) ==
  /\ a.some = b.some /\ a.index = b.index /\ a.count = b.count
  /\ a.base = b.base /\ a.exclusive = b.exclusive

\* A row is minted in an open chunk of the target that has room, or in a chunk
\* put at the fresh index.
MintedFrom(e, d) ==
  /\ e \in Dbs
  /\ e.target = d.target
  /\ e.minted = d.minted + 1
  /\ e.module_minted \in {d.module_minted, d.module_minted + 1}
  /\ SameLane(e.lane, d.lane)
  /\ ~d.lane.some => e.lane = d.lane
  /\ MintIndex(d) \in Indices
  /\ e.open = [d.open EXCEPT ![d.target] = MintIndex(d)]
  /\ \A i \in Indices : i # MintIndex(d) => e.chunk[i] = d.chunk[i]
  /\ HasOpen(d) => /\ MintIndex(d) = d.open[d.target]
                   /\ e.chunk[MintIndex(d)].owner = d.chunk[MintIndex(d)].owner
                   /\ e.chunk[MintIndex(d)].len = d.chunk[MintIndex(d)].len + 1
  /\ ~HasOpen(d) => /\ MintIndex(d) = FreshIndex(d)
                    /\ e.chunk[MintIndex(d)].owner = d.target

\* What mint! leaves: a store, with one chunk changed and the counters moved.
LEMMA MintedStore ==
  ASSUME NEW d \in Dbs, CanMint(d)
  PROVE  MintedFrom(Minted(d), d)
<1> USE SizeAssumption, NoneAssumption
<1>1. d.lane \in Lanes /\ d.target \in Parts /\ d.open[d.target] \in Indices \cup {NoChunk}
  BY DEF Dbs
<1>2. FreshIndex(d) \in Nat
  <2>1. CASE ~d.lane.some
    BY <2>1, ChunksBound DEF FreshIndex
  <2>2. CASE d.lane.some
    <3>1. d.lane.taken \in Nat /\ d.lane.count \in Nat /\ d.lane.base \in Nat /\ d.lane.index \in Nat
      BY <1>1 DEF Lanes
    <3>2. d.lane.taken * d.lane.count \in Nat
      <4>1. \A x, y \in Nat : x * y \in Nat
        OBVIOUS
      <4> QED BY <3>1, <4>1, Zenon
    <3>3. \A x, y, z \in Nat : x + y + z \in Nat
      OBVIOUS
    <3> QED BY <2>2, <3>1, <3>2, <3>3, Zenon DEF FreshIndex
  <2> QED BY <2>1, <2>2
<1>3. MintIndex(d) \in Indices
  <2>1. CASE HasOpen(d)
    BY <1>1, <2>1 DEF MintIndex, HasOpen
  <2>2. CASE ~HasOpen(d)
    BY <1>2, <2>2 DEF MintIndex, CanMint, Indices
  <2> QED BY <2>1, <2>2
<1>4. Minted(d) \in Dbs
  <2>1. HasOpen(d) => d.chunk[MintIndex(d)].len < ChunkRows
    BY DEF HasOpen, MintIndex
  <2>2. IF HasOpen(d) THEN [owner |-> d.chunk[MintIndex(d)].owner, len |-> d.chunk[MintIndex(d)].len + 1] \in [owner : Parts \cup {NoPart}, len : 0 .. ChunkRows]
        ELSE [owner |-> d.target, len |-> 1] \in [owner : Parts \cup {NoPart}, len : 0 .. ChunkRows]
    BY <1>1, <1>3, <2>1 DEF Dbs
  <2>3. (IF d.lane.some /\ ~HasOpen(d) THEN d.lane.taken + 1 ELSE d.lane.taken) \in Nat
    BY <1>1 DEF Lanes
  <2> DEFINE chunk == [d.chunk EXCEPT ![MintIndex(d)] =
                         IF HasOpen(d) THEN [owner |-> @.owner, len |-> @.len + 1]
                         ELSE [owner |-> d.target, len |-> 1]]
             lane == [d.lane EXCEPT !.taken = IF d.lane.some /\ ~HasOpen(d) THEN @ + 1 ELSE @]
             module == IF d.target = 0 THEN d.module_minted + 1 ELSE d.module_minted
             total == d.minted + 1
             open == [d.open EXCEPT ![d.target] = MintIndex(d)]
             seen == [d.seen EXCEPT ![d.target] = IF d.target = 0 THEN total ELSE module]
  <2>4. chunk \in [Indices -> [owner : Parts \cup {NoPart}, len : 0 .. ChunkRows]]
    BY <1>1, <1>3, <2>2 DEF Dbs
  <2>5. lane \in Lanes
    BY <1>1, <2>3 DEF Lanes
  <2>6. module \in Nat /\ total \in Nat
    BY DEF Dbs
  <2>7. open \in [Parts -> Indices \cup {NoChunk}] /\ seen \in [Parts -> Nat]
    BY <1>1, <1>3, <2>6 DEF Dbs
  <2>8. Minted(d) = [d EXCEPT !.chunk = chunk, !.minted = total, !.module_minted = module,
                              !.open = open, !.seen = seen, !.lane = lane]
    BY ZenonT(30) DEF Minted
  <2> HIDE DEF chunk, lane, module, seen, open, total
  <2> QED BY <2>4, <2>5, <2>6, <2>7, <2>8, ZenonT(30) DEF Dbs
<1>5. /\ Minted(d).target = d.target
      /\ Minted(d).minted = d.minted + 1
      /\ Minted(d).module_minted \in {d.module_minted, d.module_minted + 1}
      /\ Minted(d).open = [d.open EXCEPT ![d.target] = MintIndex(d)]
  BY DEF Minted, Dbs
<1>6. SameLane(Minted(d).lane, d.lane)
  BY <1>1, ZenonT(30) DEF Minted, Dbs, Lanes, SameLane
<1>7. /\ \A i \in Indices : i # MintIndex(d) => Minted(d).chunk[i] = d.chunk[i]
      /\ HasOpen(d) => /\ MintIndex(d) = d.open[d.target]
                       /\ Minted(d).chunk[MintIndex(d)] =
                            [owner |-> d.chunk[MintIndex(d)].owner, len |-> d.chunk[MintIndex(d)].len + 1]
      /\ ~HasOpen(d) => /\ MintIndex(d) = FreshIndex(d)
                        /\ Minted(d).chunk[MintIndex(d)] = [owner |-> d.target, len |-> 1]
  BY <1>3 DEF Minted, Dbs, MintIndex
<1>8. ~d.lane.some => Minted(d).lane = d.lane
  BY <1>1 DEF Minted, Dbs, Lanes
<1> QED BY <1>3, <1>4, <1>5, <1>6, <1>7, <1>8 DEF MintedFrom
-----------------------------------------------------------------------------
(* Init and Next keep the invariant. *)

\* Db::new satisfies the invariant.
LEMMA InitInv == Init => IInv
<1> SUFFICES ASSUME Init PROVE IInv
  OBVIOUS
<1> USE SizeAssumption, NoneAssumption
<1>1. New.chunk \in [Indices -> [owner : Parts \cup {NoPart}, len : 0 .. ChunkRows]]
  BY DEF New, Missing
<1>2. NoLane \in Lanes
  BY DEF NoLane, Lanes
<1>3. New \in Dbs
  BY <1>1, <1>2 DEF New, Dbs, Parts
<1>4. TypeOK
  BY <1>3 DEF Init, TypeOK, NoneCounted, New
<1>5. OpenIsOwn
  BY DEF Init, OpenIsOwn, New
<1> QED BY <1>4, <1>5 DEF Init, IInv, LanesPlaced, ChunksKept, OpenKept, ExclusiveApart, CountsAhead, FoldsOwn

\* Outside an epoch the invariant is about the context's store alone.
LEMMA NoTasksInv ==
  ASSUME TypeOK', OpenIsOwn', task' = <<>>
  PROVE  IInv'
<1>1. DOMAIN task' = {} /\ ~(next' > 0)
  BY DEF TypeOK
<1> QED BY <1>1 DEF IInv, LanesPlaced, ChunksKept, OpenKept, ExclusiveApart, CountsAhead, FoldsOwn

\* Minting through the context between epochs keeps it.
LEMMA MintInv == IInv /\ Mint => IInv'
<1> SUFFICES ASSUME IInv, Mint PROVE IInv'
  OBVIOUS
<1> USE SizeAssumption, NoneAssumption
<1>1. db \in Dbs /\ CanMint(db) /\ ~db.lane.some /\ db.lane = NoLane
  BY DEF IInv, TypeOK, Mint, NoLane
<1>2. MintedFrom(db', db)
  BY <1>1, MintedStore DEF Mint
<1>3. TypeOK'
  BY <1>1, <1>2 DEF IInv, TypeOK, Mint, MintedFrom
<1>4. OpenIsOwn'
  <2> SUFFICES ASSUME NEW p \in Parts, db'.open[p] # NoChunk
               PROVE  db'.chunk[db'.open[p]].owner = p
    BY DEF OpenIsOwn
  <2>1. db.target \in Parts /\ db.open \in [Parts -> Indices \cup {NoChunk}]
    BY <1>1 DEF Dbs
  <2>2. CASE p = db.target
    <3>1. db'.open[p] = MintIndex(db)
      BY <1>1, <1>2, <2>1, <2>2 DEF MintedFrom
    <3>2. CASE HasOpen(db)
      BY <1>1, <1>2, <2>1, <2>2, <3>1, <3>2 DEF MintedFrom, IInv, OpenIsOwn
    <3>3. CASE ~HasOpen(db)
      BY <1>1, <1>2, <2>2, <3>1, <3>3 DEF MintedFrom
    <3> QED BY <3>2, <3>3
  <2>3. CASE p # db.target
    <3>1. db'.open[p] = db.open[p] /\ db.open[p] \in Indices
      BY <1>1, <1>2, <2>1, <2>3 DEF MintedFrom
    <3>2. db.chunk[db.open[p]].owner = p
      BY <3>1 DEF IInv, OpenIsOwn
    <3>3. CASE HasOpen(db)
      <4>1. MintIndex(db) = db.open[db.target] /\ MintIndex(db) \in Indices
        BY <1>1, <1>2, <3>3 DEF MintedFrom
      <4>2. db.chunk[MintIndex(db)].owner = db.target
        BY <2>1, <4>1 DEF IInv, OpenIsOwn, Indices
      <4>3. MintIndex(db) # db.open[p]
        BY <2>3, <3>2, <4>2
      <4> QED BY <1>1, <1>2, <3>1, <3>2, <4>3 DEF MintedFrom
    <3>4. CASE ~HasOpen(db)
      <4>1. MintIndex(db) = Chunks(db)
        BY <1>1, <1>2, <3>4 DEF MintedFrom, FreshIndex
      <4>2. Filled(db, db.open[p])
        BY <3>2 DEF Filled, Parts
      <4>3. db.open[p] < Chunks(db) /\ Chunks(db) \in Nat /\ db.open[p] \in Nat
        BY <1>1, <3>1, <4>2, ChunksBound DEF Indices
      <4> QED BY <1>1, <1>2, <3>1, <3>2, <4>1, <4>3 DEF MintedFrom
    <3> QED BY <3>3, <3>4
  <2> QED BY <2>2, <2>3
<1> QED BY <1>3, <1>4, NoTasksInv DEF Mint, InEpoch

\* Entering and leaving function scopes only moves the target.
LEMMA TargetInv == IInv /\ (EnterPartition \/ LeaveScope \/ \E p \in Parts : MintUnder(p)) => IInv'
<1> SUFFICES ASSUME IInv, EnterPartition \/ LeaveScope \/ \E p \in Parts : MintUnder(p)
             PROVE  IInv'
  OBVIOUS
<1> USE SizeAssumption, NoneAssumption
<1>1. db \in Dbs /\ db.lane = NoLane /\ scopes \in Seq(Parts)
  BY DEF IInv, TypeOK
<1>2. PICK parts \in 1 .. MaxParts, target \in Parts :
        db' = [db EXCEPT !.parts = parts, !.target = target] /\ scopes' \in Seq(Parts)
  <2>1. CASE EnterPartition
    <3>1. db.parts + 1 \in 1 .. MaxParts /\ db.parts \in Parts
      BY <1>1, <2>1 DEF EnterPartition, Dbs, Parts
    <3>2. db' = [db EXCEPT !.parts = db.parts + 1, !.target = db.parts] /\ scopes' \in Seq(Parts)
      BY <1>1, <2>1 DEF EnterPartition, Dbs
    <3> QED BY <3>1, <3>2
  <2>2. CASE LeaveScope
    <3>1. Len(scopes) \in DOMAIN scopes /\ scopes[Len(scopes)] \in Parts
      BY <1>1, <2>2 DEF LeaveScope
    <3>2. db' = [db EXCEPT !.parts = db.parts, !.target = scopes[Len(scopes)]] /\ db.parts \in 1 .. MaxParts
      BY <1>1, <2>2, Zenon DEF LeaveScope, Dbs
    <3>3. scopes' \in Seq(Parts)
      BY <1>1, <2>2, <3>1 DEF LeaveScope
    <3> QED BY <3>1, <3>2, <3>3
  <2>3. ASSUME NEW p \in Parts, MintUnder(p)
        PROVE  /\ db' = [db EXCEPT !.parts = db.parts, !.target = p] /\ db.parts \in 1 .. MaxParts
               /\ scopes' \in Seq(Parts)
    <3>1. db'.parts = db.parts /\ db.parts \in 1 .. MaxParts
      BY <1>1, <2>3 DEF MintUnder, Dbs
    <3>2. db' = [db EXCEPT !.parts = db.parts, !.target = p]
      BY <1>1, <2>3, Zenon DEF MintUnder, Dbs
    <3>3. scopes' \in Seq(Parts)
      BY <1>1, <2>3 DEF MintUnder, Dbs
    <3> QED BY <3>1, <3>2, <3>3
  <2> QED BY <2>1, <2>2, <2>3
<1>3. task' = <<>> /\ task = <<>> /\ next' = next /\ before' = before
  BY DEF EnterPartition, LeaveScope, MintUnder, InEpoch
<1>4. TypeOK'
  <2>1. db' \in Dbs /\ db'.lane = NoLane
    BY <1>1, <1>2, Zenon DEF Dbs
  <2> QED BY <1>2, <1>3, <2>1 DEF IInv, TypeOK
<1>5. OpenIsOwn'
  BY <1>1, <1>2 DEF IInv, OpenIsOwn, Dbs
<1> QED BY <1>3, <1>4, <1>5, NoTasksInv

\* The clones an epoch opens are the base with a lane.
LEMMA OpenEpochInv == ASSUME NEW targets \in TargetLists PROVE IInv /\ OpenEpoch(targets) => IInv'
<1> SUFFICES ASSUME IInv, OpenEpoch(targets) PROVE IInv'
  OBVIOUS
<1> USE SizeAssumption, NoneAssumption
<1>1. targets \in Seq(Parts) /\ targets # <<>> /\ db \in Dbs
  BY DEF IInv, TypeOK
<1>2. /\ task = <<>> /\ next = 0 /\ next' = 0 /\ db' = db
      /\ task' = [k \in DOMAIN targets |-> Lane(targets, k)]
  BY DEF IInv, TypeOK, OpenEpoch, InEpoch
<1>3. ASSUME NEW k \in DOMAIN targets
      PROVE  /\ Lane(targets, k) \in Dbs
             /\ Lane(targets, k).target = targets[k]
             /\ Lane(targets, k).chunk = db.chunk
             /\ Lane(targets, k).open = db.open
             /\ Lane(targets, k).minted = db.minted
             /\ Lane(targets, k).module_minted = db.module_minted
             /\ Lane(targets, k).lane.some
             /\ Lane(targets, k).lane.index = k - 1
             /\ Lane(targets, k).lane.count = Len(targets)
             /\ Lane(targets, k).lane.base = Chunks(db)
             /\ Lane(targets, k).lane.exclusive = Exclusive(targets, k)
  <2> DEFINE lane == [some |-> TRUE, index |-> k - 1, count |-> Len(targets), base |-> Chunks(db),
                      taken |-> 0, exclusive |-> Exclusive(targets, k)]
  <2>1. lane \in Lanes
    <3>1. Exclusive(targets, k) \in BOOLEAN
      BY DEF Exclusive
    <3>2. k - 1 \in Nat /\ Len(targets) \in Nat /\ Chunks(db) \in Nat
      BY <1>1, ChunksBound
    <3> QED BY <3>1, <3>2 DEF Lanes
  <2>2. targets[k] \in Parts
    BY <1>1
  <2>3. Lane(targets, k) = [db EXCEPT !.target = targets[k], !.lane = lane]
    BY DEF Lane
  <2>4. /\ lane.some /\ lane.index = k - 1 /\ lane.count = Len(targets) /\ lane.base = Chunks(db)
        /\ lane.exclusive = Exclusive(targets, k)
    OBVIOUS
  <2> HIDE DEF lane
  <2> QED BY <1>1, <2>1, <2>2, <2>3, <2>4, ZenonT(30) DEF Dbs
<1>4. DOMAIN task' = DOMAIN targets /\ Len(task') = Len(targets) /\ task' \in Seq(Dbs)
  BY <1>1, <1>2, <1>3
<1>5. TypeOK'
  BY <1>2, <1>3, <1>4 DEF IInv, TypeOK, OpenEpoch
<1>6. LanesPlaced'
  <2>1. Chunks(db)' = Chunks(db)
    BY <1>2 DEF Chunks, Filled
  <2> QED BY <1>2, <1>3, <1>4, <2>1 DEF LanesPlaced
<1>7. ChunksKept'
  BY <1>2, <1>3, <1>4 DEF ChunksKept
<1>8. OpenKept'
  <2> SUFFICES ASSUME NEW k \in DOMAIN targets PROVE OpenOf(k)' = db'.open[task'[k].target]
    BY <1>4 DEF OpenKept
  <2> QED BY <1>2, <1>3 DEF OpenOf
<1>9. ExclusiveApart'
  <2> SUFFICES ASSUME NEW k \in DOMAIN targets, NEW l \in DOMAIN targets, k # l,
                      task'[k].lane.exclusive
               PROVE  task'[l].target # task'[k].target
    BY <1>4 DEF ExclusiveApart
  <2>1. Exclusive(targets, k)
    BY <1>2, <1>3
  <2>2. task'[l].target = targets[l] /\ task'[k].target = targets[k]
    BY <1>2, <1>3
  <2> QED BY <2>1, <2>2 DEF Exclusive
<1>10. CountsAhead' /\ FoldsOwn'
  <2>1. db.minted \in Nat /\ db.module_minted \in Nat
    BY <1>1 DEF Dbs
  <2>2. \A k \in DOMAIN targets : /\ db'.minted <= task'[k].minted
                                  /\ db'.module_minted <= task'[k].module_minted
    BY <1>2, <1>3, <2>1
  <2> QED BY <1>2, <1>4, <2>2 DEF CountsAhead, FoldsOwn
<1>11. OpenIsOwn'
  BY <1>2 DEF IInv, OpenIsOwn
<1> QED BY <1>5, <1>6, <1>7, <1>8, <1>9, <1>10, <1>11 DEF IInv

\* A task that mints changes one chunk of its own lane, or the one its
\* partition has open and no other task mints into.
LEMMA TaskMintInv == ASSUME NEW k \in DOMAIN task PROVE IInv /\ TaskMint(k) => IInv'
<1> SUFFICES ASSUME IInv, TaskMint(k) PROVE IInv'
  OBVIOUS
<1> USE SizeAssumption, NoneAssumption
<1>1. /\ db \in Dbs /\ task \in Seq(Dbs) /\ task[k] \in Dbs /\ CanMint(task[k]) /\ task[k].lane.some
      /\ next = 0 /\ next' = 0 /\ db' = db
      /\ task' = [task EXCEPT ![k] = Minted(task[k])]
  BY DEF IInv, TypeOK, TaskMint
<1>2. MintedFrom(task'[k], task[k])
  BY <1>1, MintedStore
<1>3. DOMAIN task' = DOMAIN task /\ Len(task') = Len(task) /\ task' \in Seq(Dbs)
  BY <1>1, <1>2 DEF MintedFrom
<1>4. \A l \in DOMAIN task : l # k => task'[l] = task[l]
  BY <1>1
<1>5. \A l \in DOMAIN task : task'[l].target = task[l].target /\ SameLane(task'[l].lane, task[l].lane)
  BY <1>1, <1>2, <1>4, ZenonT(30) DEF MintedFrom, SameLane
<1>6. TypeOK'
  BY <1>1, <1>3, <1>5 DEF IInv, TypeOK, TaskMint, SameLane
<1>7. OpenIsOwn' /\ FoldsOwn'
  BY <1>1 DEF IInv, OpenIsOwn, FoldsOwn
<1>8. Chunks(db)' = Chunks(db)
  BY <1>1 DEF Chunks, Filled
<1>9. LanesPlaced'
  BY <1>1, <1>3, <1>5, <1>8 DEF IInv, LanesPlaced, SameLane
<1>10. ExclusiveApart'
  BY <1>3, <1>5 DEF IInv, ExclusiveApart, SameLane
<1>11. CountsAhead'
  <2>1. /\ db.minted \in Nat /\ db.module_minted \in Nat
        /\ task[k].minted \in Nat /\ task[k].module_minted \in Nat
        /\ db.minted <= task[k].minted /\ db.module_minted <= task[k].module_minted
    BY <1>1 DEF IInv, CountsAhead, Dbs
  <2>2. db.minted <= task'[k].minted /\ db.module_minted <= task'[k].module_minted
    BY <1>2, <2>1 DEF MintedFrom
  <2> QED BY <1>1, <1>3, <1>4, <2>2 DEF IInv, CountsAhead
<1> DEFINE i == MintIndex(task[k])
           p == task[k].target
<1>12. p \in Parts /\ i \in Indices /\ OpenOf(k)' = i
  <2>1. p \in Parts /\ task[k].open \in [Parts -> Indices \cup {NoChunk}]
    BY <1>1 DEF Dbs
  <2> QED BY <1>2, <2>1 DEF MintedFrom, OpenOf
<1>13. \A x \in Indices : TakenBy(task[k], x)' <=> TakenBy(task[k], x)
  BY <1>5 DEF TakenBy, SameLane
<1>14. /\ task'[k].chunk[i].owner = p
       /\ \/ TakenBy(task[k], i)
          \/ /\ i = db.open[p] /\ i < task[k].lane.base /\ task[k].lane.exclusive
             /\ db.chunk[i].owner = p
             /\ db.chunk[i].len <= task'[k].chunk[i].len
  <2>1. CASE ~HasOpen(task[k])
    <3>1. task[k].lane.taken \in Nat
      BY <1>1 DEF Dbs, Lanes
    <3>2. i = task[k].lane.base + task[k].lane.taken * task[k].lane.count + task[k].lane.index
      BY <1>1, <1>2, <2>1 DEF MintedFrom, FreshIndex
    <3>3. TakenBy(task[k], i)
      BY <3>1, <3>2 DEF TakenBy
    <3> QED BY <1>2, <2>1, <3>3 DEF MintedFrom
  <2>2. CASE HasOpen(task[k])
    <3>1. i = OpenOf(k) /\ i # NoChunk /\ Own(task[k], i)
      BY <1>2, <2>2 DEF MintedFrom, HasOpen, OpenOf
    <3>2. /\ task'[k].chunk[i].owner = task[k].chunk[i].owner
          /\ task'[k].chunk[i].len = task[k].chunk[i].len + 1
      BY <1>2, <2>2 DEF MintedFrom
    <3>3. CASE TakenBy(task[k], i) /\ task[k].chunk[i].owner = p
      BY <3>2, <3>3
    <3>4. CASE i = db.open[p]
      <4>1. db.chunk[i].owner = p
        BY <1>12, <3>1, <3>4 DEF IInv, OpenIsOwn
      <4>2. i < task[k].lane.base
        <5>1. Filled(db, i)
          BY <4>1, <1>12 DEF Filled, Parts
        <5>2. i < Chunks(db)
          BY <1>1, <1>12, <5>1, ChunksBound
        <5> QED BY <1>1, <5>2 DEF IInv, LanesPlaced
      <4>3. task[k].lane.exclusive
        <5>1. i \in Nat /\ task[k].lane.base \in Nat
          BY <1>1, <1>12 DEF Dbs, Lanes, Indices
        <5> QED BY <1>1, <3>1, <4>2, <5>1 DEF Own
      <4> HIDE DEF i
      <4>4. db.chunk[i].len \in Nat /\ task[k].chunk[i].len \in Nat
        BY <1>1, <1>12, ChunkTypes
      <4>5. task[k].chunk[i].owner = p /\ db.chunk[i].len <= task[k].chunk[i].len
        <5>2. CASE task[k].chunk[i] = db.chunk[i]
          BY <4>1, <4>4, <5>2
        <5>3. CASE task[k].chunk[i] # db.chunk[i]
          <6>1. ChunkChanged(k, i)
            BY <1>1, <1>12, <5>3 DEF IInv, ChunksKept
          <6>2. ~TakenBy(task[k], i)
            <7>1. task[k].lane \in Lanes
              BY <1>1 DEF Dbs
            <7>2. \A t \in Nat : t * task[k].lane.count \in Nat
              BY <7>1 DEF Lanes
            <7>3. i \in Nat /\ task[k].lane.base \in Nat /\ task[k].lane.index \in Nat
              BY <1>12, <7>1 DEF Lanes, Indices
            <7>4. \A j, b, m, x \in Nat : j < b => j # b + m + x
              OBVIOUS
            <7>5. ASSUME NEW t \in Nat
                  PROVE  i # task[k].lane.base + t * task[k].lane.count + task[k].lane.index
              BY <4>2, <7>2, <7>3, <7>4, Zenon
            <7> QED BY <7>5, Zenon DEF TakenBy
          <6> QED BY <6>1, <6>2 DEF ChunkChanged
        <5> QED BY <5>2, <5>3
      <4>6. db.chunk[i].len <= task'[k].chunk[i].len
        <5>1. \A x, y \in Nat : x <= y => x <= y + 1
          OBVIOUS
        <5> QED BY <3>2, <4>4, <4>5, <5>1, Zenon
      <4> QED BY <3>2, <3>4, <4>1, <4>2, <4>3, <4>5, <4>6, Zenon
    <3> QED BY <1>1, <3>1, <3>3, <3>4 DEF IInv, OpenKept
  <2> QED BY <2>1, <2>2
<1>15. ChunksKept'
  <2> SUFFICES ASSUME NEW l \in DOMAIN task, NEW x \in Indices, task'[l].chunk[x] # db'.chunk[x]
               PROVE  ChunkChanged(l, x)'
    BY <1>3 DEF ChunksKept
  <2>1. CASE l # k
    <3>1. ChunkChanged(l, x)
      BY <1>1, <1>4, <2>1 DEF IInv, ChunksKept
    <3> QED BY <1>1, <1>4, <2>1, <3>1 DEF ChunkChanged, TakenBy
  <2>2. CASE l = k /\ x = i
    BY <1>1, <1>5, <1>12, <1>13, <1>14, <2>2 DEF ChunkChanged, SameLane
  <2>3. CASE l = k /\ x # i
    <3>1. task'[k].chunk[x] = task[k].chunk[x]
      BY <1>2, <2>3 DEF MintedFrom
    <3>2. ChunkChanged(k, x)
      BY <1>1, <2>3, <3>1 DEF IInv, ChunksKept
    <3> QED BY <1>1, <1>5, <1>13, <2>3, <3>1, <3>2 DEF ChunkChanged, SameLane
  <2> QED BY <2>1, <2>2, <2>3
<1>16. OpenKept'
  <2> SUFFICES ASSUME NEW l \in DOMAIN task
               PROVE  \/ OpenOf(l)' = db'.open[task'[l].target]
                      \/ /\ OpenOf(l)' # NoChunk
                         /\ TakenBy(task[l], OpenOf(l))'
                         /\ task'[l].chunk[OpenOf(l)'].owner = task'[l].target
    BY <1>3 DEF OpenKept
  <2>1. CASE l # k
    <3>1. OpenOf(l)' = OpenOf(l) /\ task'[l] = task[l]
      BY <1>4, <2>1 DEF OpenOf
    <3> QED BY <1>1, <3>1 DEF IInv, OpenKept, TakenBy
  <2>2. CASE l = k
    BY <1>1, <1>5, <1>12, <1>13, <1>14, <2>2 DEF Indices
  <2> QED BY <2>1, <2>2
<1> QED BY <1>6, <1>7, <1>9, <1>10, <1>11, <1>15, <1>16 DEF IInv

\* An index of a task's lane is past the base's chunks.
LEMMA TakenIsFresh ==
  ASSUME IInv, next = 0, NEW k \in DOMAIN task, NEW i \in Indices, TakenBy(task[k], i)
  PROVE  db.chunk[i].owner = NoPart
<1>1. db \in Dbs /\ task[k].lane \in Lanes /\ task[k].lane.base = Chunks(db)
  <2>1. db \in Dbs /\ task[k] \in Dbs
    BY DEF IInv, TypeOK
  <2>2. task[k].lane \in Lanes
    BY <2>1 DEF Dbs
  <2> QED BY <2>1, <2>2 DEF IInv, LanesPlaced
<1>2. PICK t \in Nat : i = task[k].lane.base + t * task[k].lane.count + task[k].lane.index
  BY DEF TakenBy
<1>3. task[k].lane.base \in Nat /\ t * task[k].lane.count \in Nat /\ task[k].lane.index \in Nat
  BY <1>1 DEF Lanes
<1>4. ~(i < Chunks(db))
  BY <1>1, <1>2, <1>3
<1> QED BY <1>1, <1>4, ChunksBound DEF Filled

\* One batch at most has a chunk that is not as in the base.
LEMMA OneWriter ==
  ASSUME IInv, next = 0, NEW k \in DOMAIN task, NEW l \in DOMAIN task, NEW i \in Indices,
         task[k].chunk[i] # db.chunk[i], task[l].chunk[i] # db.chunk[i]
  PROVE  k = l
<1> USE NoneAssumption
<1>1. ChunkChanged(k, i) /\ ChunkChanged(l, i)
  BY DEF IInv, ChunksKept
<1>2. /\ task[k] \in Dbs /\ task[l] \in Dbs /\ task[k].target \in Parts /\ task[l].target \in Parts
      /\ k \in 1 .. Len(task) /\ l \in 1 .. Len(task) /\ Len(task) \in Nat
  <2>1. /\ task[k] \in Dbs /\ task[l] \in Dbs
        /\ k \in 1 .. Len(task) /\ l \in 1 .. Len(task) /\ Len(task) \in Nat
    BY DEF IInv, TypeOK
  <2> QED BY <2>1, Zenon DEF Dbs
<1>3. CASE TakenBy(task[k], i) /\ TakenBy(task[l], i)
  <2>1. /\ task[k].lane.base = Chunks(db) /\ task[l].lane.base = Chunks(db)
        /\ task[k].lane.count = Len(task) /\ task[l].lane.count = Len(task)
        /\ task[k].lane.index = k - 1 /\ task[l].lane.index = l - 1
    BY DEF IInv, LanesPlaced
  <2>2. PICK t \in Nat : i = Chunks(db) + t * Len(task) + (k - 1)
    BY <1>3, <2>1 DEF TakenBy
  <2>3. PICK u \in Nat : i = Chunks(db) + u * Len(task) + (l - 1)
    BY <1>3, <2>1, Zenon DEF TakenBy
  <2>4. Chunks(db) \in Nat /\ t * Len(task) \in Nat /\ u * Len(task) \in Nat
    BY <1>2, ChunksBound, SizeAssumption DEF IInv, TypeOK
  <2>5. t * Len(task) + (k - 1) = u * Len(task) + (l - 1)
    <3> DEFINE a == t * Len(task)
               b == u * Len(task)
               c == Chunks(db)
    <3>1. a \in Nat /\ b \in Nat /\ c \in Nat /\ c + a + (k - 1) = c + b + (l - 1)
      BY <2>2, <2>3, <2>4
    <3>3. \A x, y, v, w, z \in Int : z + x + v = z + y + w => x + v = y + w
      OBVIOUS
    <3>4. k - 1 \in Int /\ l - 1 \in Int
      BY <1>2
    <3> HIDE DEF a, b, c
    <3>2. a + (k - 1) = b + (l - 1)
      BY <3>1, <3>3, <3>4
    <3> QED BY <3>2 DEF a, b
  <2>6. k - 1 \in Nat /\ l - 1 \in Nat /\ k - 1 < Len(task) /\ l - 1 < Len(task)
    BY <1>2
  <2>7. k - 1 = l - 1
    BY <1>2, <2>5, <2>6, PlacesApart, Zenon
  <2> QED BY <1>2, <2>7
<1>4. CASE ~TakenBy(task[k], i) /\ ~TakenBy(task[l], i)
  <2>1. task[k].target = task[l].target /\ task[k].lane.exclusive
    BY <1>1, <1>4 DEF ChunkChanged
  <2> QED BY <2>1 DEF IInv, ExclusiveApart
<1>5. CASE TakenBy(task[k], i) /\ ~TakenBy(task[l], i)
  <2>1. db.chunk[i].owner = NoPart
    BY <1>5, TakenIsFresh
  <2> QED BY <1>1, <1>2, <1>5, <2>1 DEF ChunkChanged, Parts
<1>6. CASE ~TakenBy(task[k], i) /\ TakenBy(task[l], i)
  <2>1. db.chunk[i].owner = NoPart
    BY <1>6, TakenIsFresh
  <2> QED BY <1>1, <1>2, <1>6, <2>1 DEF ChunkChanged, Parts
<1> QED BY <1>3, <1>4, <1>5, <1>6

\* The merge answers, for each chunk, the copy of its writer and else the base's.
LEMMA MergedIs ==
  ASSUME IInv, next = 0, NEW i \in Indices
  PROVE  /\ \A k \in DOMAIN task : task[k].chunk[i] # db.chunk[i] => MergedChunk(i) = task[k].chunk[i]
         /\ (\A k \in DOMAIN task : task[k].chunk[i] = db.chunk[i]) => MergedChunk(i) = db.chunk[i]
<1>1. ASSUME NEW k \in DOMAIN task, task[k].chunk[i] # db.chunk[i]
      PROVE  MergedChunk(i) = task[k].chunk[i]
  <2>1. k \in Writers(i)
    BY <1>1 DEF Writers
  <2>2. \A l \in Writers(i) : l = k
    BY <1>1, OneWriter DEF Writers
  <2> QED BY <2>1, <2>2 DEF MergedChunk
<1>2. ASSUME \A k \in DOMAIN task : task[k].chunk[i] = db.chunk[i] PROVE MergedChunk(i) = db.chunk[i]
  BY <1>2 DEF MergedChunk, Writers
<1> QED BY <1>1, <1>2

\* A chunk the base has keeps its owner, and every row of it.
LEMMA MergeGrows ==
  ASSUME IInv, next = 0, NEW i \in Indices, db.chunk[i].owner # NoPart
  PROVE  MergedChunk(i).owner = db.chunk[i].owner /\ db.chunk[i].len <= MergedChunk(i).len
<1>1. db.chunk[i].len \in Nat
  BY ChunkTypes DEF IInv, TypeOK
<1>2. CASE \A k \in DOMAIN task : task[k].chunk[i] = db.chunk[i]
  BY <1>1, <1>2, MergedIs
<1>3. ASSUME NEW k \in DOMAIN task, task[k].chunk[i] # db.chunk[i]
      PROVE  MergedChunk(i).owner = db.chunk[i].owner /\ db.chunk[i].len <= MergedChunk(i).len
  <2>1. ChunkChanged(k, i)
    BY <1>3 DEF IInv, ChunksKept
  <2>2. ~TakenBy(task[k], i)
    BY TakenIsFresh
  <2>3. MergedChunk(i) = task[k].chunk[i]
    BY <1>3, MergedIs
  <2> QED BY <2>1, <2>2, <2>3 DEF ChunkChanged
<1> QED BY <1>2, <1>3

\* Taking the chunks of the batches, the first half of merge, keeps it.
LEMMA MergeChunksInv == IInv /\ MergeChunks => IInv'
<1> SUFFICES ASSUME IInv, MergeChunks PROVE IInv'
  OBVIOUS
<1> USE SizeAssumption, NoneAssumption
<1>1. /\ db \in Dbs /\ db.lane = NoLane /\ task \in Seq(Dbs) /\ next = 0 /\ task # <<>>
      /\ next' = 1 /\ task' = task /\ scopes' = scopes
      /\ before' = [minted |-> db.minted, module_minted |-> db.module_minted]
      /\ db' = [db EXCEPT !.chunk = [i \in Indices |-> MergedChunk(i)]]
  BY DEF IInv, TypeOK, MergeChunks, InEpoch
<1>2. \A i \in Indices : MergedChunk(i) \in [owner : Parts \cup {NoPart}, len : 0 .. ChunkRows]
  <2> SUFFICES ASSUME NEW i \in Indices
               PROVE  MergedChunk(i) \in [owner : Parts \cup {NoPart}, len : 0 .. ChunkRows]
    OBVIOUS
  <2>1. CASE \A k \in DOMAIN task : task[k].chunk[i] = db.chunk[i]
    <3>1. MergedChunk(i) = db.chunk[i]
      BY <1>1, <2>1, MergedIs
    <3> QED BY <1>1, <3>1 DEF Dbs
  <2>2. ASSUME NEW k \in DOMAIN task, task[k].chunk[i] # db.chunk[i]
        PROVE  MergedChunk(i) \in [owner : Parts \cup {NoPart}, len : 0 .. ChunkRows]
    <3>1. MergedChunk(i) = task[k].chunk[i] /\ task[k] \in Dbs
      BY <1>1, <2>2, MergedIs
    <3> QED BY <3>1 DEF Dbs
  <2> QED BY <2>1, <2>2
<1>3. /\ db' \in Dbs /\ db'.lane = NoLane /\ db'.open = db.open
      /\ \A i \in Indices : db'.chunk[i] = MergedChunk(i)
  BY <1>1, <1>2, Zenon DEF Dbs
<1>4. TypeOK'
  <2>1. before' \in [minted : Nat, module_minted : Nat] /\ Len(task) \in Nat \ {0}
    BY <1>1 DEF Dbs
  <2> QED BY <1>1, <1>3, <2>1 DEF IInv, TypeOK
<1>5. OpenIsOwn'
  <2> SUFFICES ASSUME NEW p \in Parts, db.open[p] # NoChunk
               PROVE  MergedChunk(db.open[p]).owner = p /\ db.open[p] \in Indices
    BY <1>3 DEF OpenIsOwn
  <2>1. db.open[p] \in Indices
    BY <1>1 DEF Dbs
  <2>2. db.chunk[db.open[p]].owner = p /\ p # NoPart
    BY DEF IInv, OpenIsOwn, Parts
  <2> QED BY <1>1, <2>1, <2>2, MergeGrows
<1>6. FoldsOwn'
  <2> SUFFICES ASSUME NEW k \in DOMAIN task, OpenOf(k) # NoChunk
               PROVE  db'.chunk[OpenOf(k)].owner = task[k].target
    BY <1>1 DEF FoldsOwn, OpenOf
  <2>1. task[k].target \in Parts /\ OpenOf(k) \in Indices
    <3>1. task[k] \in Dbs
      BY <1>1
    <3> QED BY <3>1 DEF Dbs, OpenOf
  <2>2. CASE OpenOf(k) = db.open[task[k].target]
    BY <1>3, <1>5, <2>1, <2>2 DEF OpenIsOwn
  <2>3. CASE TakenBy(task[k], OpenOf(k)) /\ task[k].chunk[OpenOf(k)].owner = task[k].target
    <3>1. db.chunk[OpenOf(k)].owner = NoPart
      BY <1>1, <2>1, <2>3, TakenIsFresh
    <3>2. task[k].chunk[OpenOf(k)] # db.chunk[OpenOf(k)]
      BY <2>1, <2>3, <3>1 DEF Parts
    <3>3. MergedChunk(OpenOf(k)) = task[k].chunk[OpenOf(k)]
      BY <1>1, <2>1, <3>2, MergedIs
    <3> QED BY <1>3, <2>1, <2>3, <3>3
  <2> QED BY <1>1, <2>2, <2>3 DEF IInv, OpenKept
<1>7. CountsAhead'
  BY <1>1 DEF IInv, CountsAhead
<1>8. LanesPlaced' /\ ChunksKept' /\ OpenKept'
  BY <1>1 DEF LanesPlaced, ChunksKept, OpenKept
<1>9. ExclusiveApart'
  BY <1>1 DEF IInv, ExclusiveApart
<1> QED BY <1>4, <1>5, <1>6, <1>7, <1>8, <1>9 DEF IInv

\* Folding one batch's counters and open chunk, the second half, keeps it.
LEMMA MergeBatchInv == IInv /\ MergeBatch => IInv'
<1> SUFFICES ASSUME IInv, MergeBatch PROVE IInv'
  OBVIOUS
<1> USE SizeAssumption, NoneAssumption
<1> DEFINE batch == task[next]
           p == batch.target
<1>1. /\ db \in Dbs /\ db.lane = NoLane /\ task \in Seq(Dbs) /\ next \in 1 .. Len(task)
      /\ next \in DOMAIN task /\ next > 0
      /\ before \in [minted : Nat, module_minted : Nat]
      /\ db' = Folded(task[next]) /\ scopes' = scopes
  BY DEF IInv, TypeOK, MergeBatch
<1>2. batch \in Dbs
  BY <1>1
<1>3. p \in Parts /\ batch.open[p] \in Indices \cup {NoChunk} /\ batch.seen[p] \in Nat
  BY <1>2 DEF Dbs
<1>4. /\ batch.minted - before.minted \in Nat
      /\ batch.module_minted - before.module_minted \in Nat
  <2>1. /\ batch.minted \in Nat /\ batch.module_minted \in Nat
        /\ before.minted \in Nat /\ before.module_minted \in Nat
    BY <1>1, <1>2 DEF Dbs
  <2>2. before.minted <= batch.minted /\ before.module_minted <= batch.module_minted
    BY <1>1 DEF IInv, CountsAhead
  <2> QED BY <2>1, <2>2
<1> DEFINE open == [db.open EXCEPT ![p] = IF batch.lane.exclusive THEN batch.open[p] ELSE @]
           seen == [db.seen EXCEPT ![p] = IF batch.lane.exclusive THEN batch.seen[p] ELSE @]
           minted == db.minted + (batch.minted - before.minted)
           module == db.module_minted + (batch.module_minted - before.module_minted)
<1>5. /\ open \in [Parts -> Indices \cup {NoChunk}] /\ seen \in [Parts -> Nat]
      /\ minted \in Nat /\ module \in Nat
  <2>1. /\ db.open \in [Parts -> Indices \cup {NoChunk}] /\ db.seen \in [Parts -> Nat]
        /\ db.minted \in Nat /\ db.module_minted \in Nat
    BY <1>1, Zenon DEF Dbs
  <2>2. minted \in Nat /\ module \in Nat
    BY <1>4, <2>1
  <2> QED BY <1>3, <2>1, <2>2
<1>6. db' = [db EXCEPT !.minted = minted, !.module_minted = module, !.open = open, !.seen = seen]
  BY <1>1, Zenon DEF Folded
<1>7. db' \in Dbs /\ db'.lane = NoLane /\ db'.chunk = db.chunk /\ db'.open = open
  <2> HIDE DEF open, seen, minted, module
  <2> QED BY <1>1, <1>5, <1>6, ZenonT(30) DEF Dbs
<1>8. OpenIsOwn'
  <2> SUFFICES ASSUME NEW q \in Parts, open[q] # NoChunk
               PROVE  db.chunk[open[q]].owner = q
    BY <1>7 DEF OpenIsOwn
  <2>1. CASE q = p /\ batch.lane.exclusive
    <3>1. open[q] = OpenOf(next) /\ OpenOf(next) # NoChunk
      BY <1>1, <1>3, <2>1, Zenon DEF OpenOf, Dbs
    <3> QED BY <1>1, <2>1, <3>1 DEF IInv, FoldsOwn
  <2>2. CASE ~(q = p /\ batch.lane.exclusive)
    <3>1. open[q] = db.open[q]
      BY <1>1, <1>3, <2>2, Zenon DEF Dbs
    <3> QED BY <3>1 DEF IInv, OpenIsOwn
  <2> QED BY <2>1, <2>2
<1>9. CASE next = Len(task)
  <2>1. task' = <<>> /\ next' = 0 /\ before' = NoneCounted
    BY <1>9 DEF MergeBatch
  <2>2. TypeOK'
    BY <1>1, <1>7, <2>1 DEF IInv, TypeOK, NoneCounted
  <2> QED BY <1>8, <2>1, <2>2, NoTasksInv
<1>10. CASE next # Len(task)
  <2>1. task' = task /\ next' = next + 1 /\ before' = before /\ next + 1 \in 0 .. Len(task)
    BY <1>1, <1>10 DEF MergeBatch
  <2>2. TypeOK'
    BY <1>1, <1>7, <2>1 DEF IInv, TypeOK
  <2>3. next' # 0 /\ next' > 0 /\ next > 0
    BY <1>1, <2>1
  <2>4. LanesPlaced' /\ ChunksKept' /\ OpenKept'
    BY <2>3 DEF LanesPlaced, ChunksKept, OpenKept
  <2>5. ExclusiveApart' /\ CountsAhead'
    BY <2>1, <2>3 DEF IInv, ExclusiveApart, CountsAhead
  <2>6. FoldsOwn'
    <3> SUFFICES ASSUME NEW k \in DOMAIN task, next + 1 <= k, task[k].lane.exclusive,
                        OpenOf(k) # NoChunk
                 PROVE  db.chunk[OpenOf(k)].owner = task[k].target
      BY <1>7, <2>1 DEF FoldsOwn, OpenOf
    <3>1. next <= k
      BY <1>1
    <3> QED BY <1>1, <3>1 DEF IInv, FoldsOwn
  <2> QED BY <1>8, <2>2, <2>4, <2>5, <2>6 DEF IInv
<1> QED BY <1>9, <1>10

\* Every step of the store and its tasks keeps the invariant.
LEMMA NextInv == IInv /\ [Next]_vars => IInv'
<1> SUFFICES ASSUME IInv, [Next]_vars PROVE IInv'
  OBVIOUS
<1>1. CASE Mint
  BY <1>1, MintInv
<1>2. CASE EnterPartition \/ LeaveScope \/ \E p \in Parts : MintUnder(p)
  BY <1>2, TargetInv
<1>3. ASSUME NEW targets \in TargetLists, OpenEpoch(targets) PROVE IInv'
  BY <1>3, OpenEpochInv
<1>4. ASSUME NEW k \in DOMAIN task, TaskMint(k) PROVE IInv'
  BY <1>4, TaskMintInv
<1>5. CASE MergeChunks
  BY <1>5, MergeChunksInv
<1>6. CASE MergeBatch
  BY <1>6, MergeBatchInv
<1>7. CASE DropBatches
  <2>1. db' = db /\ task' = <<>> /\ next' = 0 /\ before' = before /\ scopes' = scopes
    BY <1>7 DEF DropBatches
  <2>2. TypeOK' /\ OpenIsOwn'
    BY <2>1 DEF IInv, TypeOK, OpenIsOwn
  <2> QED BY <2>1, <2>2, NoTasksInv
<1>8. CASE UNCHANGED vars
  <2>1. db' = db /\ task' = task /\ next' = next /\ before' = before /\ scopes' = scopes
    BY <1>8 DEF vars
  <2>2. TypeOK' /\ OpenIsOwn'
    BY <2>1 DEF IInv, TypeOK, OpenIsOwn
  <2>3. LanesPlaced' /\ ExclusiveApart'
    BY <2>1, Zenon DEF IInv, LanesPlaced, ExclusiveApart, Chunks, Filled
  <2>4. ChunksKept'
    BY <2>1, Zenon DEF IInv, ChunksKept, ChunkChanged, OpenOf, TakenBy
  <2>5. OpenKept' /\ CountsAhead' /\ FoldsOwn'
    BY <2>1, Zenon DEF IInv, OpenKept, CountsAhead, FoldsOwn, OpenOf, TakenBy
  <2> QED BY <2>2, <2>3, <2>4, <2>5 DEF IInv
<1> QED BY <1>1, <1>2, <1>3, <1>4, <1>5, <1>6, <1>7, <1>8 DEF Next

-----------------------------------------------------------------------------
(* The theorems. *)

\* Every reachable state of the minting of store.rs satisfies the invariant.
THEOREM MintingInvariant == Spec => []IInv
BY InitInv, NextInv, PTL DEF Spec

\* The stores keep their types and no chunk index or row count leaves its range,
\* for the minting of `mint!`, `fresh` and `merge` whatever their bounds.
THEOREM MintingTypes == Spec => []TypeOK
<1>1. IInv => TypeOK
  BY DEF IInv
<1> QED BY <1>1, MintingInvariant, PTL

\* A partition's open chunk belongs to it, across scopes, epochs and merges.
THEOREM MintingOpenIsOwn == Spec => []OpenIsOwn
<1>1. IInv => OpenIsOwn
  BY DEF IInv
<1> QED BY <1>1, MintingInvariant, PTL

\* "two tasks never mint one id" (store.rs), for any number of tasks, chunks and rows.
THEOREM MintingApart == Spec => []TasksMintApart
<1>1. IInv => TasksMintApart
  <2> SUFFICES ASSUME IInv, next = 0, NEW k \in DOMAIN task, NEW l \in DOMAIN task, k # l,
                      NEW id \in Ids(task[k]) \ Ids(db), id \in Ids(task[l]) \ Ids(db)
               PROVE  FALSE
    BY DEF TasksMintApart
  <2>1. id[1] \in Indices
    BY DEF Ids, IdsIn
  <2>2. task[k].chunk[id[1]] # db.chunk[id[1]] /\ task[l].chunk[id[1]] # db.chunk[id[1]]
    BY DEF Ids, IdsIn
  <2> QED BY <2>1, <2>2, OneWriter
<1> QED BY <1>1, MintingInvariant, PTL

\* "a commit has nothing to rename" (store.rs): an id of the base or of a batch
\* names a row of the same partition after merge, and every row there is, was.
THEOREM MintingMergeKeepsIds == Spec => MergeKeepsIds
<1> DEFINE Kept == MergeChunks => \A p \in Parts :
             /\ IdsIn(db, p) \subseteq IdsIn(db', p)
             /\ \A k \in DOMAIN task : IdsIn(task[k], p) \subseteq IdsIn(db', p)
             /\ \A i \in IdsIn(db', p) :
                  i \in IdsIn(db, p) \/ \E k \in DOMAIN task : i \in IdsIn(task[k], p)
<1>1. IInv /\ [Next]_vars => [Kept]_vars
  <2> SUFFICES ASSUME IInv, MergeChunks, NEW p \in Parts
               PROVE  /\ IdsIn(db, p) \subseteq IdsIn(db', p)
                      /\ \A k \in DOMAIN task : IdsIn(task[k], p) \subseteq IdsIn(db', p)
                      /\ \A i \in IdsIn(db', p) :
                           i \in IdsIn(db, p) \/ \E k \in DOMAIN task : i \in IdsIn(task[k], p)
    OBVIOUS
  <2>1. next = 0 /\ db \in Dbs /\ \A i \in Indices : db'.chunk[i] = MergedChunk(i)
    BY DEF IInv, TypeOK, MergeChunks, Dbs
  <2>2. p # NoPart
    BY NoneAssumption DEF Parts
  <2>3. ASSUME NEW id \in IdsIn(db, p) PROVE id \in IdsIn(db', p)
    <3>1. /\ id \in Indices \X (0 .. ChunkRows - 1) /\ id[1] \in Indices /\ id[2] \in Nat
          /\ db.chunk[id[1]].owner = p /\ id[2] < db.chunk[id[1]].len
      BY SizeAssumption DEF IdsIn
    <3>2. MergedChunk(id[1]).owner = p /\ db.chunk[id[1]].len <= MergedChunk(id[1]).len
      BY <2>1, <2>2, <3>1, MergeGrows
    <3>3. db.chunk[id[1]].len \in Nat /\ MergedChunk(id[1]).len \in Nat
      <4>1. db' \in Dbs
        BY MergeChunksInv DEF IInv, TypeOK
      <4> QED BY <2>1, <3>1, <4>1, ChunkTypes
    <3>4. id[2] < MergedChunk(id[1]).len
      BY <3>1, <3>2, <3>3
    <3> QED BY <2>1, <3>1, <3>2, <3>4 DEF IdsIn
  <2>4. ASSUME NEW k \in DOMAIN task, NEW id \in IdsIn(task[k], p) PROVE id \in IdsIn(db', p)
    <3>1. id[1] \in Indices
      BY DEF IdsIn
    <3>2. CASE task[k].chunk[id[1]] = db.chunk[id[1]]
      <4>1. id \in IdsIn(db, p)
        BY <3>2 DEF IdsIn
      <4> QED BY <2>3, <4>1
    <3>3. CASE task[k].chunk[id[1]] # db.chunk[id[1]]
      <4>1. db'.chunk[id[1]] = task[k].chunk[id[1]]
        BY <2>1, <3>1, <3>3, MergedIs
      <4> QED BY <4>1 DEF IdsIn
    <3> QED BY <3>2, <3>3
  <2>5. ASSUME NEW id \in IdsIn(db', p)
        PROVE  id \in IdsIn(db, p) \/ \E k \in DOMAIN task : id \in IdsIn(task[k], p)
    <3>1. id[1] \in Indices
      BY DEF IdsIn
    <3>2. CASE \A k \in DOMAIN task : task[k].chunk[id[1]] = db.chunk[id[1]]
      <4>1. db'.chunk[id[1]] = db.chunk[id[1]]
        BY <2>1, <3>1, <3>2, MergedIs
      <4> QED BY <4>1 DEF IdsIn
    <3>3. ASSUME NEW k \in DOMAIN task, task[k].chunk[id[1]] # db.chunk[id[1]]
          PROVE  id \in IdsIn(task[k], p)
      <4>1. db'.chunk[id[1]] = task[k].chunk[id[1]]
        BY <2>1, <3>1, <3>3, MergedIs
      <4> QED BY <4>1 DEF IdsIn
    <3> QED BY <3>2, <3>3
  <2> QED BY <2>3, <2>4, <2>5
<1> QED BY <1>1, MintingInvariant, PTL DEF Spec, MergeKeepsIds

-----------------------------------------------------------------------------
(* Ids ascend when no function has two targets in one epoch. *)

\* tasks::run gives every function it mints into to one task.
TargetsApart ==
  \A targets \in TargetLists : \A k \in DOMAIN targets : targets[k] # 0 => Exclusive(targets, k)

\* No chunk that a row minted in partition `p` must come after is past `x`.
NonePast(d, p, x) ==
  \A i \in Indices : Filled(d, i) /\ (p = 0 \/ d.chunk[i].owner \in {0, p}) => i <= x

Count(d, p) == IF p = 0 THEN d.minted ELSE d.module_minted

\* What `seen` stands for: at the counter's value, the open chunk is the last of its kind.
Recent(d, p) ==
  /\ d.seen[p] <= Count(d, p)
  /\ d.open[p] # NoChunk /\ d.seen[p] = Count(d, p) => NonePast(d, p, d.open[p])

\* A task's chunks are the base's and those its lane took so far.
LaneFilled(d) ==
  /\ d.lane.count # 0
  /\ \A i \in Indices : Filled(d, i) =>
       \/ i < d.lane.base
       \/ \E t \in 0 .. d.lane.taken - 1 : i = d.lane.base + t * d.lane.count + d.lane.index

\* What the target has open is there.
OpenFilled(d) == d.open[d.target] # NoChunk => Filled(d, d.open[d.target])

\* A task that wrote a chunk has counted it.
Counted(k) ==
  /\ task[k].target # 0 => task[k].module_minted = db.module_minted
  /\ \A i \in Indices : task[k].chunk[i] # db.chunk[i] =>
       /\ db.minted < task[k].minted
       /\ task[k].target = 0 => db.module_minted < task[k].module_minted

\* While the merge folds the batches: nothing has been seen that the base had not counted
\* when it began, and for a partition that no task moved on, what is or will be its open
\* chunk is the last of its kind.
Quiet(p) == \A k \in DOMAIN task : Count(task[k], p) = Count(before, p)

Folding(p) ==
  /\ db.seen[p] <= Count(before, p)
  /\ Quiet(p) /\ (\A k \in DOMAIN task : next <= k /\ p # 0 => task[k].target # p)
       /\ db.open[p] # NoChunk /\ db.seen[p] = Count(before, p) => NonePast(db, p, db.open[p])
  /\ \A k \in DOMAIN task :
       Quiet(p) /\ next <= k /\ p # 0 /\ task[k].target = p /\ OpenOf(k) # NoChunk
         /\ task[k].seen[p] = Count(before, p) => NonePast(db, p, OpenOf(k))

Merging ==
  /\ before.minted <= db.minted /\ before.module_minted <= db.module_minted
  /\ \A k \in DOMAIN task :
       /\ k < next => task[k].minted <= db.minted /\ task[k].module_minted <= db.module_minted
       /\ task[k].target # 0 => task[k].module_minted = before.module_minted
  /\ \A p \in Parts : Folding(p)

AInv ==
  /\ \A k \in DOMAIN task :
       /\ Recent(task[k], task[k].target)
       /\ LaneFilled(task[k]) /\ OpenFilled(task[k])
       /\ task[k].lane.exclusive <=> task[k].target # 0
  /\ next = 0 => /\ \A p \in Parts : Recent(db, p)
                 /\ \A k \in DOMAIN task : Counted(k)
  /\ next > 0 => Merging

-----------------------------------------------------------------------------
\* What the counters of a store are.
LEMMA CountTypes ==
  ASSUME NEW d \in Dbs, NEW p \in Parts
  PROVE  /\ Count(d, p) \in Nat /\ d.minted \in Nat /\ d.module_minted \in Nat
         /\ d.seen[p] \in Nat /\ d.open[p] \in Indices \cup {NoChunk} /\ d.target \in Parts
         /\ d.lane \in Lanes
BY DEF Dbs, Count

\* Chunk indices and partitions are numbers, and the Nones are neither.
LEMMA IndexTypes ==
  /\ Indices \subseteq Nat /\ Parts \subseteq Nat /\ 0 \in Parts
  /\ NoChunk \notin Indices /\ NoPart \notin Parts
BY SizeAssumption, NoneAssumption DEF Indices, Parts

\* A fresh index is past every chunk the store has.
LEMMA FreshLast ==
  ASSUME NEW d \in Dbs, ~d.lane.some \/ LaneFilled(d), NEW i \in Indices, Filled(d, i)
  PROVE  i < FreshIndex(d) /\ FreshIndex(d) \in Nat
<1>1. CASE ~d.lane.some
  <2>1. i < Chunks(d) /\ Chunks(d) \in 0 .. MaxChunks
    BY ChunksBound
  <2> QED BY <1>1, <2>1, SizeAssumption DEF FreshIndex
<1>2. CASE d.lane.some
  <2>1. PICK base \in Nat, count \in Nat, taken \in Nat, index \in Nat :
          /\ base = d.lane.base /\ count = d.lane.count
          /\ taken = d.lane.taken /\ index = d.lane.index
    BY DEF Dbs, Lanes
  <2>2. count # 0 /\ (i < base \/ \E t \in 0 .. taken - 1 : i = base + t * count + index)
    BY <1>2, <2>1 DEF LaneFilled
  <2>3. taken * count \in Nat /\ i \in Nat
    BY <2>1, IndexTypes
  <2>4. i < base + taken * count + index
    <3>1. CASE i < base
      BY <2>3, <3>1
    <3>2. CASE \E t \in 0 .. taken - 1 : i = base + t * count + index
      <4>1. PICK t \in 0 .. taken - 1 : i = base + t * count + index
        BY <3>2
      <4>2. t \in Nat /\ t < taken
        OBVIOUS
      <4>3. t * count \in Nat /\ t * count + count <= taken * count
        BY <4>2, MultiplesApart
      <4>4. \A a, b, m, n, c \in Nat : c # 0 /\ m + c <= n => a + m + b < a + n + b
        OBVIOUS
      <4>5. base + t * count + index < base + taken * count + index
        BY <2>2, <2>3, <4>3, <4>4
      <4> QED BY <4>1, <4>5
    <3> QED BY <2>2, <3>1, <3>2
  <2>5. FreshIndex(d) = base + taken * count + index
    BY <1>2, <2>1 DEF FreshIndex
  <2>6. base + taken * count + index \in Nat
    BY <2>3
  <2> QED BY <2>4, <2>5, <2>6
<1> QED BY <1>1, <1>2

\* The next id of a store comes after every id it must come after.
LEMMA RecentAscends ==
  ASSUME NEW d \in Dbs, Recent(d, d.target), ~d.lane.some \/ LaneFilled(d)
  PROVE  Ascends(d)
<1> SUFFICES ASSUME NEW p \in Parts, p = d.target \/ p = 0 \/ d.target = 0,
                    NEW id \in IdsIn(d, p)
             PROVE  Before(id, MintedId(d))
  BY DEF Ascends
<1>1. /\ id[1] \in Indices /\ id[2] \in 0 .. ChunkRows - 1
      /\ d.chunk[id[1]].owner = p /\ id[2] < d.chunk[id[1]].len
  BY DEF IdsIn
<1>2. Filled(d, id[1]) /\ id[1] \in Nat
  BY <1>1, IndexTypes DEF Filled
<1>3. CASE HasOpen(d)
  <2> DEFINE x == d.open[d.target]
  <2>1. x # NoChunk /\ d.seen[d.target] = Count(d, d.target)
    BY <1>3 DEF HasOpen, Current, Count
  <2>2. x \in Indices /\ x \in Nat
    BY <2>1, CountTypes, IndexTypes DEF Dbs
  <2>3. id[1] <= x
    BY <1>1, <1>2, <2>1 DEF Recent, NonePast
  <2>4. MintedId(d)[1] = x /\ MintedId(d)[2] = d.chunk[x].len
    BY <1>3 DEF MintedId, MintIndex
  <2>5. id[1] < x \/ id[1] = x
    BY <1>2, <2>2, <2>3
  <2> QED BY <1>1, <2>4, <2>5 DEF Before
<1>4. CASE ~HasOpen(d)
  <2>1. MintedId(d)[1] = FreshIndex(d)
    BY <1>4 DEF MintedId, MintIndex
  <2>2. id[1] < FreshIndex(d)
    BY <1>1, <1>2, FreshLast
  <2> QED BY <2>1, <2>2 DEF Before
<1> QED BY <1>3, <1>4

\* What minting leaves of the counters.
LEMMA MintedCounts ==
  ASSUME NEW d \in Dbs
  PROVE  /\ Minted(d).minted = d.minted + 1
         /\ Minted(d).module_minted =
              IF d.target = 0 THEN d.module_minted + 1 ELSE d.module_minted
         /\ Minted(d).seen = [d.seen EXCEPT ![d.target] =
                                IF d.target = 0 THEN d.minted + 1 ELSE d.module_minted]
         /\ Minted(d).lane.taken =
              IF d.lane.some /\ ~HasOpen(d) THEN d.lane.taken + 1 ELSE d.lane.taken
<1>1. /\ Minted(d).minted = d.minted + 1
      /\ Minted(d).module_minted = IF d.target = 0 THEN d.module_minted + 1 ELSE d.module_minted
  BY DEF Minted, Dbs
<1>2. Minted(d).seen = [d.seen EXCEPT ![d.target] =
                          IF d.target = 0 THEN d.minted + 1 ELSE d.module_minted]
  BY DEF Minted, Dbs
<1>3. Minted(d).lane.taken =
        IF d.lane.some /\ ~HasOpen(d) THEN d.lane.taken + 1 ELSE d.lane.taken
  BY DEF Minted, Dbs, Lanes
<1> QED BY <1>1, <1>2, <1>3

\* A row that is minted leaves the chunk it is in the last of its kind.
LEMMA MintedRecent ==
  ASSUME NEW d \in Dbs, CanMint(d), Recent(d, d.target), ~d.lane.some \/ LaneFilled(d)
  PROVE  Recent(Minted(d), d.target)
<1> DEFINE e == Minted(d)
           p == d.target
<1>1. MintedFrom(e, d) /\ p \in Parts
  BY MintedStore DEF Dbs
<1>2. e.seen[p] = Count(e, p) /\ Count(e, p) \in Nat
  BY <1>1, MintedCounts, CountTypes DEF Count, Dbs, MintedFrom
<1>3. e.open[p] = MintIndex(d) /\ MintIndex(d) \in Indices
  BY <1>1 DEF MintedFrom, Dbs
<1>4. ASSUME NEW i \in Indices, Filled(e, i), p = 0 \/ e.chunk[i].owner \in {0, p}
      PROVE  i <= MintIndex(d)
  <2>0. i \in Nat /\ MintIndex(d) \in Nat
    BY <1>3, IndexTypes
  <2>1. CASE i = MintIndex(d)
    BY <2>0, <2>1
  <2>2. CASE i # MintIndex(d)
    <3>1. e.chunk[i] = d.chunk[i]
      BY <1>1, <2>2 DEF MintedFrom
    <3>2. Filled(d, i) /\ (p = 0 \/ d.chunk[i].owner \in {0, p})
      BY <1>4, <3>1 DEF Filled
    <3>3. CASE HasOpen(d)
      <4>1. /\ MintIndex(d) = d.open[p] /\ d.open[p] # NoChunk /\ d.seen[p] = Count(d, p)
        BY <3>3 DEF HasOpen, MintIndex, Current, Count
      <4> QED BY <3>2, <4>1 DEF Recent, NonePast
    <3>4. CASE ~HasOpen(d)
      <4>1. MintIndex(d) = FreshIndex(d)
        BY <3>4 DEF MintIndex
      <4>2. i < FreshIndex(d) /\ FreshIndex(d) \in Nat
        BY <3>2, FreshLast
      <4> QED BY <2>0, <4>1, <4>2
    <3> QED BY <3>3, <3>4
  <2> QED BY <2>1, <2>2
<1>5. e.seen[p] <= Count(e, p)
  BY <1>2
<1> QED BY <1>3, <1>4, <1>5 DEF Recent, NonePast

\* A lane that takes a chunk has taken one more.
LEMMA MintedLane ==
  ASSUME NEW d \in Dbs, CanMint(d), d.lane.some, LaneFilled(d), OpenFilled(d)
  PROVE  LaneFilled(Minted(d))
<1> DEFINE e == Minted(d)
<1>1. MintedFrom(e, d) /\ SameLane(e.lane, d.lane)
  BY MintedStore DEF MintedFrom
<1>2. PICK taken \in Nat : taken = d.lane.taken
  BY DEF Dbs, Lanes
<1>3. /\ HasOpen(d) => e.lane.taken = taken
      /\ ~HasOpen(d) => e.lane.taken = taken + 1
  BY <1>2, MintedCounts
<1>4. 0 .. taken - 1 \subseteq 0 .. (taken + 1) - 1 /\ taken \in 0 .. (taken + 1) - 1
  BY <1>2
<1>5. 0 .. taken - 1 \subseteq 0 .. e.lane.taken - 1
  BY <1>3, <1>4
<1> SUFFICES ASSUME NEW i \in Indices, Filled(e, i)
             PROVE  \/ i < d.lane.base
                    \/ \E t \in 0 .. e.lane.taken - 1 :
                         i = d.lane.base + t * d.lane.count + d.lane.index
  BY <1>1 DEF LaneFilled, SameLane
<1>6. CASE Filled(d, i)
  BY <1>2, <1>5, <1>6 DEF LaneFilled
<1>7. CASE ~Filled(d, i)
  <2>1. i = MintIndex(d)
    BY <1>1, <1>7 DEF MintedFrom, Filled
  <2>2. ~HasOpen(d)
    BY <1>7, <2>1 DEF OpenFilled, HasOpen, MintIndex
  <2>3. i = d.lane.base + taken * d.lane.count + d.lane.index
    BY <1>2, <2>1, <2>2 DEF MintIndex, FreshIndex
  <2>4. taken \in 0 .. e.lane.taken - 1
    BY <1>3, <1>4, <2>2
  <2> QED BY <2>3, <2>4
<1> QED BY <1>6, <1>7

\* The row minted is in the chunk the target has open.
LEMMA MintedOpen ==
  ASSUME NEW d \in Dbs, CanMint(d), OpenFilled(d)
  PROVE  OpenFilled(Minted(d))
<1> DEFINE e == Minted(d)
<1>1. MintedFrom(e, d) /\ d.target \in Parts
  BY MintedStore DEF Dbs
<1>2. e.target = d.target /\ e.open[d.target] = MintIndex(d) /\ MintIndex(d) \in Indices
  BY <1>1 DEF MintedFrom, Dbs
<1>3. CASE HasOpen(d)
  <2>1. MintIndex(d) = d.open[d.target] /\ e.chunk[MintIndex(d)].owner = d.chunk[MintIndex(d)].owner
    BY <1>1, <1>3 DEF MintedFrom
  <2>2. Filled(d, MintIndex(d))
    BY <1>3, <2>1 DEF OpenFilled, HasOpen
  <2> QED BY <1>2, <2>1, <2>2 DEF OpenFilled, Filled
<1>4. CASE ~HasOpen(d)
  <2>1. e.chunk[MintIndex(d)].owner = d.target
    BY <1>1, <1>4 DEF MintedFrom
  <2> QED BY <1>1, <1>2, <2>1, IndexTypes DEF OpenFilled, Filled
<1> QED BY <1>3, <1>4

\* Recent and OpenFilled are about the chunks and the counters alone.
LEMMA SameRecent ==
  ASSUME NEW d, NEW e, NEW p, Recent(d, p), e.chunk = d.chunk, e.open = d.open, e.seen = d.seen,
         e.minted = d.minted, e.module_minted = d.module_minted
  PROVE  Recent(e, p)
BY DEF Recent, NonePast, Filled, Count

\* A new store has no chunk open and has counted nothing.
LEMMA InitAscends == Init => AInv
<1> SUFFICES ASSUME Init PROVE AInv
  OBVIOUS
<1>1. DOMAIN task = {} /\ next = 0
  BY DEF Init
<1>2. ASSUME NEW p \in Parts PROVE Recent(db, p)
  <2>1. db.seen[p] = 0 /\ Count(db, p) = 0 /\ db.open[p] = NoChunk
    BY DEF Init, New, Count
  <2> QED BY <2>1 DEF Recent
<1> QED BY <1>1, <1>2 DEF AInv

\* Minting through the context leaves the counter of a partition past what it has seen, or
\* its chunks alone.
LEMMA MintAscends == IInv /\ AInv /\ Mint => AInv'
<1> SUFFICES ASSUME IInv, AInv, Mint PROVE AInv'
  OBVIOUS
<1>1. /\ db \in Dbs /\ CanMint(db) /\ ~db.lane.some /\ db.target \in Parts
      /\ task = <<>> /\ task' = <<>> /\ next = 0 /\ next' = 0 /\ db' = Minted(db)
  BY DEF IInv, TypeOK, Mint, InEpoch, NoLane, Dbs
<1>2. MintedFrom(db', db)
  BY <1>1, MintedStore
<1>3. \A p \in Parts : Recent(db, p)
  BY <1>1 DEF AInv
<1>4. ASSUME NEW p \in Parts PROVE Recent(db', p)
  <2>1. CASE p = db.target
    BY <1>1, <1>3, <2>1, MintedRecent
  <2>2. CASE p # db.target
    <3>1. db'.seen[p] = db.seen[p] /\ db'.open[p] = db.open[p]
      <4>1. db.seen \in [Parts -> Nat] /\ db.open \in [Parts -> Indices \cup {NoChunk}]
        BY <1>1 DEF Dbs
      <4>2. db'.open = [db.open EXCEPT ![db.target] = MintIndex(db)]
        BY <1>2 DEF MintedFrom
      <4>3. db'.seen = [db.seen EXCEPT ![db.target] =
                          IF db.target = 0 THEN db.minted + 1 ELSE db.module_minted]
        BY <1>1, MintedCounts
      <4> QED BY <2>2, <4>1, <4>2, <4>3
    <3>2. db.seen[p] \in Nat /\ Count(db, p) \in Nat /\ db.seen[p] <= Count(db, p)
      BY <1>1, <1>3, CountTypes DEF Recent
    <3>3. CASE db.target = 0 \/ p = 0
      <4>1. Count(db', p) = Count(db, p) + 1
        BY <1>1, <2>2, <3>3, MintedCounts DEF Count
      <4>2. \A x, y \in Nat : x <= y => x <= y + 1 /\ x # y + 1
        OBVIOUS
      <4>3. db'.seen[p] <= Count(db', p) /\ db'.seen[p] # Count(db', p)
        BY <3>1, <3>2, <4>1, <4>2
      <4> QED BY <4>3 DEF Recent
    <3>4. CASE db.target # 0 /\ p # 0
      <4>1. Count(db', p) = Count(db, p)
        BY <1>1, <3>4, MintedCounts DEF Count
      <4>2. db'.chunk[MintIndex(db)].owner = db.target
        <5>1. CASE HasOpen(db)
          <6>1. db.open[db.target] # NoChunk /\ MintIndex(db) = db.open[db.target]
            BY <5>1 DEF HasOpen, MintIndex
          <6>2. db.chunk[MintIndex(db)].owner = db.target
            BY <1>1, <6>1 DEF IInv, OpenIsOwn
          <6> QED BY <1>2, <5>1, <6>2 DEF MintedFrom
        <5>2. CASE ~HasOpen(db)
          BY <1>2, <5>2 DEF MintedFrom
        <5> QED BY <5>1, <5>2
      <4>3. ASSUME NEW i \in Indices, Filled(db', i), db'.chunk[i].owner \in {0, p}
            PROVE  Filled(db, i) /\ db.chunk[i].owner \in {0, p}
        <5>1. i # MintIndex(db)
          BY <2>2, <3>4, <4>2, <4>3
        <5>2. db'.chunk[i] = db.chunk[i]
          BY <1>2, <5>1 DEF MintedFrom
        <5> QED BY <4>3, <5>2 DEF Filled
      <4>4. NonePast(db, p, db.open[p]) => NonePast(db', p, db'.open[p])
        BY <3>1, <3>4, <4>3 DEF NonePast
      <4> QED BY <1>3, <3>1, <4>1, <4>4 DEF Recent
    <3> QED BY <3>3, <3>4
  <2> QED BY <2>1, <2>2
<1>5. DOMAIN task' = {} /\ ~(next' > 0)
  BY <1>1
<1> QED BY <1>4, <1>5, Zenon DEF AInv

\* The scopes move only the target.
LEMMA TargetAscends ==
  IInv /\ AInv /\ (EnterPartition \/ LeaveScope \/ \E p \in Parts : MintUnder(p)) => AInv'
<1> SUFFICES ASSUME IInv, AInv, EnterPartition \/ LeaveScope \/ \E p \in Parts : MintUnder(p)
             PROVE  AInv'
  OBVIOUS
<1>1. db \in Dbs /\ task = <<>> /\ task' = <<>> /\ next = 0 /\ next' = 0
  BY DEF IInv, TypeOK, EnterPartition, LeaveScope, MintUnder, InEpoch
<1>2. /\ db'.chunk = db.chunk /\ db'.open = db.open /\ db'.seen = db.seen
      /\ db'.minted = db.minted /\ db'.module_minted = db.module_minted
  BY <1>1 DEF EnterPartition, LeaveScope, MintUnder, Dbs
<1>3. \A p \in Parts : Recent(db', p)
  BY <1>1, <1>2, SameRecent DEF AInv
<1>4. DOMAIN task' = {} /\ ~(next' > 0)
  BY <1>1
<1> QED BY <1>3, <1>4, Zenon DEF AInv

\* A task starts with the store's chunks, all below its lane's base.
LEMMA OpenEpochAscends ==
  ASSUME TargetsApart, NEW targets \in TargetLists, IInv, AInv, OpenEpoch(targets)
  PROVE  AInv'
<1>1. targets \in Seq(Parts) /\ targets # <<>> /\ db \in Dbs
  BY NoneAssumption DEF IInv, TypeOK
<1>2. /\ next = 0 /\ next' = 0 /\ db' = db
      /\ task' = [k \in DOMAIN targets |-> Lane(targets, k)]
  BY DEF IInv, TypeOK, OpenEpoch, InEpoch
<1>3. ASSUME NEW k \in DOMAIN targets
      PROVE  LET t == Lane(targets, k) IN
             /\ t.chunk = db.chunk /\ t.open = db.open /\ t.seen = db.seen
             /\ t.minted = db.minted /\ t.module_minted = db.module_minted
             /\ t.target = targets[k] /\ t.lane.count = Len(targets) /\ t.lane.base = Chunks(db)
             /\ t.lane.exclusive = Exclusive(targets, k)
  BY <1>1 DEF Lane, Dbs, Lanes
<1>4. ASSUME NEW k \in DOMAIN task'
      PROVE  /\ Recent(task[k], task[k].target)'
             /\ LaneFilled(task[k])' /\ OpenFilled(task[k])'
             /\ (task[k].lane.exclusive <=> task[k].target # 0)'
             /\ Counted(k)'
  <2>1. k \in DOMAIN targets /\ task'[k] = Lane(targets, k) /\ targets[k] \in Parts
    BY <1>1, <1>2
  <2>2. /\ task'[k].chunk = db.chunk /\ task'[k].open = db.open /\ task'[k].seen = db.seen
        /\ task'[k].minted = db.minted /\ task'[k].module_minted = db.module_minted
        /\ task'[k].target = targets[k] /\ task'[k].lane.count = Len(targets)
        /\ task'[k].lane.base = Chunks(db) /\ task'[k].lane.exclusive = Exclusive(targets, k)
    BY <1>3, <2>1
  <2>3. Recent(task'[k], task'[k].target)
    <3>1. Recent(db, targets[k])
      BY <1>2, <2>1 DEF AInv
    <3> QED BY <2>2, <3>1, SameRecent
  <2>4. LaneFilled(task'[k])
    <3>1. Len(targets) # 0
      BY <1>1
    <3>2. \A i \in Indices : Filled(db, i) => i < Chunks(db)
      BY <1>1, ChunksBound
    <3> QED BY <2>2, <3>1, <3>2 DEF LaneFilled, Filled
  <2>5. OpenFilled(task'[k])
    <3>1. db.open[targets[k]] # NoChunk => db.chunk[db.open[targets[k]]].owner = targets[k]
      BY <2>1 DEF IInv, OpenIsOwn
    <3>2. targets[k] # NoPart
      BY <2>1, IndexTypes
    <3> QED BY <2>2, <3>1, <3>2 DEF OpenFilled, Filled
  <2>6. task'[k].lane.exclusive <=> task'[k].target # 0
    BY <2>1, <2>2 DEF TargetsApart, Exclusive
  <2>7. Counted(k)'
    BY <1>2, <2>2 DEF Counted
  <2> QED BY <2>3, <2>4, <2>5, <2>6, <2>7, Zenon
<1>5. \A p \in Parts : Recent(db', p)
  BY <1>2 DEF AInv
<1>6. ~(next' > 0)
  BY <1>2
<1> QED BY <1>4, <1>5, <1>6, Zenon DEF AInv

\* A task's row is counted, and is in the last chunk of its kind.
LEMMA TaskMintAscends ==
  ASSUME NEW k \in DOMAIN task, IInv, AInv, TaskMint(k)
  PROVE  AInv'
<1>1. /\ db \in Dbs /\ task \in Seq(Dbs) /\ task[k] \in Dbs /\ CanMint(task[k]) /\ task[k].lane.some
      /\ next = 0 /\ next' = 0 /\ db' = db
      /\ task' = [task EXCEPT ![k] = Minted(task[k])]
  BY DEF IInv, TypeOK, TaskMint
<1>2. task'[k] = Minted(task[k]) /\ MintedFrom(task'[k], task[k])
  BY <1>1, MintedStore
<1>3. DOMAIN task' = DOMAIN task /\ \A l \in DOMAIN task : l # k => task'[l] = task[l]
  BY <1>1
<1>4. /\ Recent(task[k], task[k].target) /\ LaneFilled(task[k]) /\ OpenFilled(task[k])
      /\ task[k].lane.exclusive <=> task[k].target # 0
      /\ Counted(k)
  BY <1>1 DEF AInv
<1>5. task'[k].target = task[k].target /\ SameLane(task'[k].lane, task[k].lane)
  BY <1>2 DEF MintedFrom
<1>6. /\ Recent(task'[k], task'[k].target) /\ LaneFilled(task'[k]) /\ OpenFilled(task'[k])
      /\ task'[k].lane.exclusive <=> task'[k].target # 0
  BY <1>1, <1>2, <1>4, <1>5, MintedRecent, MintedLane, MintedOpen DEF SameLane
<1>7. Counted(k)'
  <2>1. /\ db.minted \in Nat /\ db.module_minted \in Nat
        /\ task[k].minted \in Nat /\ task[k].module_minted \in Nat
        /\ db.minted <= task[k].minted /\ db.module_minted <= task[k].module_minted
    BY <1>1 DEF IInv, CountsAhead, Dbs
  <2>2. /\ task'[k].minted = task[k].minted + 1
        /\ task[k].target = 0 => task'[k].module_minted = task[k].module_minted + 1
        /\ task[k].target # 0 => task'[k].module_minted = task[k].module_minted
    BY <1>1, <1>2, MintedCounts
  <2>3. /\ db.minted < task'[k].minted
        /\ task[k].target = 0 => db.module_minted < task'[k].module_minted
    BY <2>1, <2>2
  <2> QED BY <1>1, <1>4, <1>5, <2>2, <2>3 DEF Counted
<1>8. ASSUME NEW l \in DOMAIN task, l # k
      PROVE  /\ Recent(task'[l], task'[l].target) /\ LaneFilled(task'[l]) /\ OpenFilled(task'[l])
             /\ task'[l].lane.exclusive <=> task'[l].target # 0
             /\ Counted(l)'
  BY <1>1, <1>3, <1>8 DEF AInv, Counted
<1>9. \A p \in Parts : Recent(db', p)
  BY <1>1 DEF AInv
<1>10. ~(next' > 0)
  BY <1>1
<1> QED BY <1>3, <1>6, <1>7, <1>8, <1>9, <1>10, Zenon DEF AInv

\* A chunk of the merged store is the base's, which every task has as it was, or is the
\* copy of a task that minted in it and counted that.
LEMMA MergedSource ==
  ASSUME IInv, AInv, next = 0, NEW i \in Indices
  PROVE  \/ \A k \in DOMAIN task : task[k].chunk[i] = MergedChunk(i)
         \/ \E k \in DOMAIN task :
              /\ MergedChunk(i) = task[k].chunk[i]
              /\ MergedChunk(i).owner = task[k].target
              /\ db.minted < task[k].minted
              /\ task[k].target = 0 => db.module_minted < task[k].module_minted
<1>1. CASE \A k \in DOMAIN task : task[k].chunk[i] = db.chunk[i]
  BY <1>1, MergedIs
<1>2. ASSUME NEW k \in DOMAIN task, task[k].chunk[i] # db.chunk[i]
      PROVE  /\ MergedChunk(i) = task[k].chunk[i]
             /\ MergedChunk(i).owner = task[k].target
             /\ db.minted < task[k].minted
             /\ task[k].target = 0 => db.module_minted < task[k].module_minted
  <2>1. MergedChunk(i) = task[k].chunk[i]
    BY <1>2, MergedIs
  <2>2. task[k].chunk[i].owner = task[k].target
    BY <1>2 DEF IInv, ChunksKept, ChunkChanged
  <2> QED BY <1>2, <2>1, <2>2 DEF AInv, Counted
<1> QED BY <1>1, <1>2

\* For a partition no task moved on, the chunks a row of it must come after are those a
\* task that mints into it has, or those the base has when none does.
LEMMA MergeChunksAscends == IInv /\ AInv /\ MergeChunks => AInv'
<1> SUFFICES ASSUME IInv, AInv, MergeChunks PROVE AInv'
  OBVIOUS
<1>1. /\ db \in Dbs /\ next = 0 /\ next' = 1 /\ task' = task /\ task # <<>> /\ task \in Seq(Dbs)
      /\ before' = [minted |-> db.minted, module_minted |-> db.module_minted]
      /\ db' = [db EXCEPT !.chunk = [i \in Indices |-> MergedChunk(i)]]
  BY DEF IInv, TypeOK, MergeChunks, InEpoch
<1>2. /\ db'.open = db.open /\ db'.seen = db.seen
      /\ db'.minted = db.minted /\ db'.module_minted = db.module_minted
      /\ \A i \in Indices : db'.chunk[i] = MergedChunk(i)
      /\ before'.minted = db.minted /\ before'.module_minted = db.module_minted
  BY <1>1 DEF Dbs
<1>3. \A p \in Parts : Count(before', p) = Count(db, p)
  BY <1>2 DEF Count
<1>4. ASSUME NEW p \in Parts, Quiet(p)', NEW k \in DOMAIN task,
             db.minted < task[k].minted,
             task[k].target = 0 => db.module_minted < task[k].module_minted
      PROVE  p # 0 /\ task[k].target # 0
  <2>1. Count(task[k], p) = Count(db, p)
    BY <1>1, <1>3, <1>4 DEF Quiet
  <2>2. /\ db.minted \in Nat /\ db.module_minted \in Nat
        /\ task[k].minted \in Nat /\ task[k].module_minted \in Nat
    <3>1. task[k] \in Dbs
      BY <1>1
    <3> QED BY <1>1, <3>1, CountTypes, IndexTypes
  <2>3. \A x, y \in Nat : x < y => x # y
    OBVIOUS
  <2>4. db.minted # task[k].minted
    BY <1>4, <2>2, <2>3
  <2>5. task[k].target = 0 => db.module_minted # task[k].module_minted
    BY <1>4, <2>2, <2>3
  <2> QED BY <2>1, <2>4, <2>5 DEF Count
<1>5. ASSUME NEW p \in Parts, Quiet(p)', NEW i \in Indices, Filled(db', i),
             p = 0 \/ db'.chunk[i].owner \in {0, p}
      PROVE  \/ \A k \in DOMAIN task : task[k].chunk[i] = db'.chunk[i]
             \/ p # 0 /\ \E k \in DOMAIN task : db'.chunk[i] = task[k].chunk[i] /\ task[k].target = p
  <2>1. CASE \A k \in DOMAIN task : task[k].chunk[i] = MergedChunk(i)
    BY <1>2, <2>1
  <2>2. ASSUME NEW k \in DOMAIN task,
               MergedChunk(i) = task[k].chunk[i], MergedChunk(i).owner = task[k].target,
               db.minted < task[k].minted,
               task[k].target = 0 => db.module_minted < task[k].module_minted
        PROVE  p # 0 /\ db'.chunk[i] = task[k].chunk[i] /\ task[k].target = p
    <3>1. p # 0 /\ task[k].target # 0
      BY <1>4, <1>5, <2>2
    <3>2. db'.chunk[i] = MergedChunk(i)
      BY <1>2
    <3>3. task[k].target \in {0, p}
      BY <1>5, <2>2, <3>1, <3>2, Zenon
    <3> QED BY <2>2, <3>1, <3>2, <3>3
  <2> QED BY <1>1, <2>1, <2>2, MergedSource
<1>6. ASSUME NEW p \in Parts PROVE Folding(p)'
  <2>0. Recent(db, p)
    BY <1>1 DEF AInv
  <2>1. db'.seen[p] <= Count(before', p)
    BY <1>2, <1>3, <2>0 DEF Recent
  <2>2. ASSUME Quiet(p)', \A k \in DOMAIN task' : next' <= k /\ p # 0 => task'[k].target # p,
               db'.open[p] # NoChunk, db'.seen[p] = Count(before', p)
        PROVE  NonePast(db', p, db'.open[p])
    <3>1. NonePast(db, p, db.open[p])
      BY <1>2, <1>3, <2>0, <2>2 DEF Recent
    <3>2. \A k \in DOMAIN task : next' <= k
      BY <1>1
    <3>3. p # 0 => \A k \in DOMAIN task : task[k].target # p
      BY <1>1, <2>2, <3>2
    <3>4. ASSUME NEW i \in Indices, Filled(db', i), p = 0 \/ db'.chunk[i].owner \in {0, p}
          PROVE  db'.chunk[i] = db.chunk[i]
      <4>1. \A k \in DOMAIN task : task[k].chunk[i] = db'.chunk[i]
        BY <1>5, <2>2, <3>3, <3>4
      <4>2. 1 \in DOMAIN task
        BY <1>1
      <4>3. CASE task[1].chunk[i] = db.chunk[i]
        BY <4>1, <4>2, <4>3
      <4>4. CASE task[1].chunk[i] # db.chunk[i]
        <5>1. task[1].chunk[i].owner = task[1].target
          BY <1>1, <4>2, <4>4 DEF IInv, ChunksKept, ChunkChanged
        <5>2. /\ db.minted < task[1].minted
              /\ task[1].target = 0 => db.module_minted < task[1].module_minted
          BY <1>1, <4>2, <4>4 DEF AInv, Counted
        <5>3. p # 0 /\ task[1].target # 0
          BY <1>4, <2>2, <4>2, <5>2
        <5> QED BY <3>3, <3>4, <4>1, <4>2, <5>1, <5>3
      <4> QED BY <4>3, <4>4
    <3> QED BY <1>2, <3>1, <3>4 DEF NonePast, Filled
  <2>3. ASSUME NEW k \in DOMAIN task, Quiet(p)', p # 0, task[k].target = p, OpenOf(k) # NoChunk,
               task[k].seen[p] = Count(before', p)
        PROVE  NonePast(db', p, OpenOf(k))
    <3>1. Count(task[k], p) = Count(before', p)
      BY <1>1, <2>3 DEF Quiet
    <3>2. NonePast(task[k], p, OpenOf(k))
      BY <2>3, <3>1 DEF AInv, Recent, OpenOf
    <3>3. ASSUME NEW i \in Indices, Filled(db', i), db'.chunk[i].owner \in {0, p}
          PROVE  db'.chunk[i] = task[k].chunk[i]
      <4>1. CASE \A l \in DOMAIN task : task[l].chunk[i] = db'.chunk[i]
        BY <4>1
      <4>2. ASSUME NEW l \in DOMAIN task, db'.chunk[i] = task[l].chunk[i], task[l].target = p
            PROVE  db'.chunk[i] = task[k].chunk[i]
        <5>1. task[k].lane.exclusive
          BY <2>3 DEF AInv
        <5>2. l = k
          BY <2>3, <4>2, <5>1 DEF IInv, ExclusiveApart
        <5> QED BY <4>2, <5>2
      <4> QED BY <1>5, <2>3, <3>3, <4>1, <4>2
    <3> QED BY <2>3, <3>2, <3>3 DEF NonePast, Filled
  <2>4. \A k \in DOMAIN task : OpenOf(k)' = OpenOf(k)
    BY <1>1 DEF OpenOf
  <2> QED BY <1>1, <2>1, <2>2, <2>3, <2>4 DEF Folding
<1>7. /\ before'.minted <= db'.minted /\ before'.module_minted <= db'.module_minted
      /\ \A k \in DOMAIN task : ~(k < next')
  <2>1. db.minted \in Nat /\ db.module_minted \in Nat
    BY <1>1 DEF Dbs
  <2>2. before'.minted <= db'.minted /\ before'.module_minted <= db'.module_minted
    BY <1>2, <2>1
  <2>3. \A k \in DOMAIN task : ~(k < next')
    BY <1>1
  <2> QED BY <2>2, <2>3
<1>8. \A k \in DOMAIN task : task[k].target # 0 => task[k].module_minted = before'.module_minted
  BY <1>1, <1>2 DEF AInv, Counted
<1>9. Merging'
  BY <1>1, <1>6, <1>7, <1>8 DEF Merging
<1>10. next' > 0 /\ next' # 0
  BY <1>1
<1> QED BY <1>1, <1>9, <1>10 DEF AInv

\* What a fold makes of a partition: nothing has been seen that was not counted, and once
\* every batch of it is folded the chunk it has open is the last of its kind.
LEMMA FoldedPart ==
  ASSUME IInv, AInv, MergeBatch, NEW p \in Parts
  PROVE  /\ db'.seen[p] <= Count(before, p)
         /\ Quiet(p) /\ (\A k \in DOMAIN task : next + 1 <= k /\ p # 0 => task[k].target # p)
              /\ db'.open[p] # NoChunk /\ db'.seen[p] = Count(before, p)
            => NonePast(db', p, db'.open[p])
<1> DEFINE batch == task[next]
           q == batch.target
<1>1. /\ db \in Dbs /\ task \in Seq(Dbs) /\ next \in 1 .. Len(task) /\ next \in DOMAIN task
      /\ db' = Folded(task[next]) /\ next > 0
  BY DEF IInv, TypeOK, MergeBatch
<1>2. batch \in Dbs /\ q \in Parts
  <2>1. batch \in Dbs
    BY <1>1
  <2> QED BY <2>1 DEF Dbs
<1>3. Merging /\ Folding(p) /\ (batch.lane.exclusive <=> q # 0) /\ Recent(batch, q)
  BY <1>1 DEF AInv, Merging
<1>4. /\ db'.chunk = db.chunk
      /\ db'.open = [db.open EXCEPT ![q] = IF batch.lane.exclusive THEN batch.open[q] ELSE @]
      /\ db'.seen = [db.seen EXCEPT ![q] = IF batch.lane.exclusive THEN batch.seen[q] ELSE @]
  BY <1>1 DEF Folded, Dbs
<1>5. db.open \in [Parts -> Indices \cup {NoChunk}] /\ db.seen \in [Parts -> Nat]
  BY <1>1 DEF Dbs
<1>6. \A x : NonePast(db', p, x) <=> NonePast(db, p, x)
  BY <1>4 DEF NonePast, Filled
<1>7. CASE p = q /\ p # 0
  <2>1. db'.open[p] = OpenOf(next) /\ db'.seen[p] = batch.seen[p]
    BY <1>2, <1>3, <1>4, <1>5, <1>7 DEF OpenOf
  <2>2. batch.seen[p] <= Count(batch, p) /\ Count(batch, p) = Count(before, p)
    BY <1>1, <1>3, <1>7 DEF Recent, Merging, Count
  <2>3. next <= next
    BY <1>1
  <2>4. Quiet(p) /\ OpenOf(next) # NoChunk /\ batch.seen[p] = Count(before, p)
          => NonePast(db, p, OpenOf(next))
    BY <1>1, <1>3, <1>7, <2>3 DEF Folding
  <2>5. db'.seen[p] <= Count(before, p)
    BY <2>1, <2>2
  <2> QED BY <1>6, <2>1, <2>4, <2>5, Zenon
<1>8. CASE p # q \/ p = 0
  <2>1. db'.open[p] = db.open[p] /\ db'.seen[p] = db.seen[p]
    BY <1>2, <1>3, <1>4, <1>5, <1>8
  <2>2. ASSUME \A k \in DOMAIN task : next + 1 <= k /\ p # 0 => task[k].target # p
        PROVE  \A k \in DOMAIN task : next <= k /\ p # 0 => task[k].target # p
    <3>1. \A k \in DOMAIN task : next <= k => k = next \/ next + 1 <= k
      BY <1>1
    <3> QED BY <1>8, <2>2, <3>1
  <2> QED BY <1>3, <1>6, <2>1, <2>2 DEF Folding
<1> QED BY <1>7, <1>8

\* The counters take in what each batch counted; where they end at what a partition has
\* seen, no batch moved it on.
LEMMA MergeBatchAscends == IInv /\ AInv /\ MergeBatch => AInv'
<1> SUFFICES ASSUME IInv, AInv, MergeBatch PROVE AInv'
  OBVIOUS
<1> DEFINE batch == task[next]
<1>1. /\ db \in Dbs /\ task \in Seq(Dbs) /\ next \in 1 .. Len(task) /\ next \in DOMAIN task
      /\ before \in [minted : Nat, module_minted : Nat]
      /\ db' = Folded(task[next]) /\ next > 0 /\ db' \in Dbs
  <2>1. TypeOK'
    BY MergeBatchInv DEF IInv
  <2> QED BY <2>1 DEF IInv, TypeOK, MergeBatch
<1>2. Merging
  BY <1>1 DEF AInv
<1>3. ASSUME NEW k \in DOMAIN task
      PROVE  /\ task[k].minted \in Nat /\ task[k].module_minted \in Nat
             /\ before.minted <= task[k].minted /\ before.module_minted <= task[k].module_minted
  <2>1. task[k] \in Dbs
    BY <1>1
  <2>2. task[k].minted \in Nat /\ task[k].module_minted \in Nat
    BY <2>1 DEF Dbs
  <2>3. before.minted <= task[k].minted /\ before.module_minted <= task[k].module_minted
    BY <1>1 DEF IInv, CountsAhead
  <2> QED BY <2>2, <2>3
<1>4. /\ db.minted \in Nat /\ db.module_minted \in Nat
      /\ db'.minted \in Nat /\ db'.module_minted \in Nat
      /\ before.minted \in Nat /\ before.module_minted \in Nat
      /\ before.minted <= db.minted /\ before.module_minted <= db.module_minted
  BY <1>1, <1>2 DEF Dbs, Merging
<1>5. /\ db'.minted = db.minted + (batch.minted - before.minted)
      /\ db'.module_minted = db.module_minted + (batch.module_minted - before.module_minted)
  BY <1>1 DEF Folded, Dbs
<1>6. \A x, y, z, w \in Nat : x <= y /\ x <= z /\ w = y + (z - x) => y <= w /\ z <= w /\ x <= w
  OBVIOUS
<1>7. /\ db.minted <= db'.minted /\ batch.minted <= db'.minted /\ before.minted <= db'.minted
      /\ db.module_minted <= db'.module_minted /\ batch.module_minted <= db'.module_minted
      /\ before.module_minted <= db'.module_minted
  <2>1. /\ batch.minted \in Nat /\ batch.module_minted \in Nat
        /\ before.minted <= batch.minted /\ before.module_minted <= batch.module_minted
    BY <1>1, <1>3
  <2> HIDE DEF batch
  <2>2. db.minted <= db'.minted /\ batch.minted <= db'.minted /\ before.minted <= db'.minted
    BY <1>4, <1>5, <1>6, <2>1, Zenon
  <2>3. /\ db.module_minted <= db'.module_minted /\ batch.module_minted <= db'.module_minted
        /\ before.module_minted <= db'.module_minted
    BY <1>4, <1>5, <1>6, <2>1, Zenon
  <2> QED BY <2>2, <2>3
<1>8. ASSUME NEW k \in DOMAIN task, k <= next
      PROVE  task[k].minted <= db'.minted /\ task[k].module_minted <= db'.module_minted
  <2>1. CASE k = next
    BY <1>7, <2>1
  <2>2. CASE k < next
    <3>1. task[k].minted <= db.minted /\ task[k].module_minted <= db.module_minted
      BY <1>2, <2>2 DEF Merging
    <3> QED BY <1>3, <1>4, <1>7, <3>1, AtMostTransitive, Zenon
  <2>3. k = next \/ k < next
    BY <1>1, <1>8
  <2> QED BY <2>1, <2>2, <2>3
<1>9. CASE next = Len(task)
  <2>1. next' = 0 /\ task' = <<>> /\ DOMAIN task' = {}
    BY <1>9 DEF MergeBatch
  <2>2. ASSUME NEW p \in Parts PROVE Recent(db', p)
    <3>1. /\ Count(before, p) \in Nat /\ Count(db', p) \in Nat /\ db'.seen[p] \in Nat
          /\ Count(before, p) <= Count(db', p) /\ db'.seen[p] <= Count(before, p)
      <4>1. db'.seen[p] \in Nat /\ db'.seen[p] <= Count(before, p)
        BY <1>1, CountTypes, FoldedPart
      <4>2. /\ Count(before, p) \in Nat /\ Count(db', p) \in Nat
            /\ Count(before, p) <= Count(db', p)
        BY <1>4, <1>7 DEF Count
      <4> QED BY <4>1, <4>2
    <3>2. db'.seen[p] <= Count(db', p)
      BY <3>1, AtMostTransitive, Zenon
    <3>3. ASSUME db'.open[p] # NoChunk, db'.seen[p] = Count(db', p)
          PROVE  NonePast(db', p, db'.open[p])
      <4>1. Count(before, p) = Count(db', p) /\ db'.seen[p] = Count(before, p)
        BY <3>1, <3>3
      <4>2. \A k \in DOMAIN task : k <= next /\ ~(next + 1 <= k)
        BY <1>1, <1>9
      <4>3. ASSUME NEW k \in DOMAIN task PROVE Count(task[k], p) = Count(before, p)
        <5>1. /\ Count(task[k], p) \in Nat /\ Count(before, p) <= Count(task[k], p)
              /\ Count(task[k], p) <= Count(db', p)
          BY <1>3, <1>8, <4>2 DEF Count
        <5> QED BY <3>1, <4>1, <5>1
      <4>4. Quiet(p)
        BY <4>3 DEF Quiet
      <4> QED BY <3>3, <4>1, <4>2, <4>4, FoldedPart
    <3> QED BY <3>2, <3>3 DEF Recent
  <2>3. ~(next' > 0)
    BY <2>1
  <2> QED BY <2>1, <2>2, <2>3 DEF AInv
<1>10. CASE next # Len(task)
  <2>1. next' = next + 1 /\ task' = task /\ before' = before /\ next' > 0 /\ next' # 0
    BY <1>1, <1>10 DEF MergeBatch
  <2>2. ASSUME NEW p \in Parts PROVE Folding(p)'
    <3>1. /\ Quiet(p)' <=> Quiet(p)
          /\ Count(before', p) = Count(before, p)
          /\ \A k \in DOMAIN task : OpenOf(k)' = OpenOf(k)
      BY <2>1 DEF Quiet, OpenOf
    <3>2. \A k \in DOMAIN task : next + 1 <= k => next <= k
      BY <1>1
    <3>3. \A x : NonePast(db', p, x) <=> NonePast(db, p, x)
      <4>1. db'.chunk = db.chunk
        BY <1>1 DEF Folded, Dbs
      <4> QED BY <4>1 DEF NonePast, Filled
    <3>4. Folding(p)
      BY <1>2 DEF Merging
    <3>5. \A k \in DOMAIN task :
            Quiet(p) /\ next + 1 <= k /\ p # 0 /\ task[k].target = p /\ OpenOf(k) # NoChunk
              /\ task[k].seen[p] = Count(before, p) => NonePast(db', p, OpenOf(k))
      BY <3>2, <3>3, <3>4 DEF Folding
    <3> QED BY <2>1, <3>1, <3>5, FoldedPart DEF Folding
  <2>3. \A k \in DOMAIN task : k < next + 1 => k <= next
    BY <1>1
  <2>4. \A k \in DOMAIN task : task[k].target # 0 => task[k].module_minted = before.module_minted
    BY <1>2 DEF Merging
  <2>5. Merging'
    BY <1>7, <1>8, <2>1, <2>2, <2>3, <2>4 DEF Merging
  <2> QED BY <2>1, <2>5 DEF AInv
<1> QED BY <1>9, <1>10

\* Every step keeps AInv, when no two targets of an epoch share a function.
LEMMA NextAscends ==
  ASSUME TargetsApart
  PROVE  IInv /\ AInv /\ [Next]_vars => AInv'
<1> SUFFICES ASSUME IInv, AInv, [Next]_vars PROVE AInv'
  OBVIOUS
<1>1. CASE Mint
  BY <1>1, MintAscends
<1>2. CASE EnterPartition \/ LeaveScope \/ \E p \in Parts : MintUnder(p)
  BY <1>2, TargetAscends
<1>3. ASSUME NEW targets \in TargetLists, OpenEpoch(targets) PROVE AInv'
  BY <1>3, OpenEpochAscends
<1>4. ASSUME NEW k \in DOMAIN task, TaskMint(k) PROVE AInv'
  BY <1>4, TaskMintAscends
<1>5. CASE MergeChunks
  BY <1>5, MergeChunksAscends
<1>6. CASE MergeBatch
  BY <1>6, MergeBatchAscends
<1>7. CASE DropBatches
  <2>1. DOMAIN task' = {} /\ next = 0 /\ next' = 0 /\ db' = db /\ ~(next' > 0)
    BY <1>7 DEF DropBatches
  <2>2. \A p \in Parts : Recent(db', p)
    BY <2>1 DEF AInv
  <2> QED BY <2>1, <2>2, Zenon DEF AInv
<1>8. CASE UNCHANGED vars
  <2>1. db' = db /\ task' = task /\ next' = next /\ before' = before
    BY <1>8 DEF vars
  <2>2. \A p \in Parts : Quiet(p)' = Quiet(p)
    BY <2>1 DEF Quiet
  <2>3. \A k \in DOMAIN task : OpenOf(k)' = OpenOf(k) /\ Counted(k)' = Counted(k)
    BY <2>1 DEF OpenOf, Counted
  <2>4. \A p \in Parts : Folding(p) => Folding(p)'
    BY <2>1, <2>2, <2>3, Zenon DEF Folding
  <2>5. Merging => Merging'
    BY <2>1, <2>4, Zenon DEF Merging
  <2> QED BY <2>1, <2>3, <2>5, Zenon DEF AInv
<1> QED BY <1>1, <1>2, <1>3, <1>4, <1>5, <1>6, <1>7, <1>8 DEF Next

\* "Ids therefore ascend with creation inside a partition and against the module's ids"
\* (store.rs), for any number of tasks, partitions, chunks and rows, when an epoch gives
\* each function to one task.
THEOREM MintingIdsAscend == TargetsApart => (Spec => []IdsAscend)
<1> SUFFICES ASSUME TargetsApart PROVE Spec => []IdsAscend
  OBVIOUS
<1>1. IInv /\ AInv => IdsAscend
  <2> SUFFICES ASSUME IInv, AInv PROVE IdsAscend
    OBVIOUS
  <2>1. ASSUME ~InEpoch PROVE Ascends(db)
    <3>1. db \in Dbs /\ ~db.lane.some /\ next = 0 /\ db.target \in Parts
      BY <2>1 DEF IInv, TypeOK, InEpoch, NoLane, Dbs
    <3> QED BY <3>1, RecentAscends DEF AInv
  <2>2. ASSUME NEW k \in DOMAIN task PROVE Ascends(task[k])
    <3>1. task[k] \in Dbs
      BY DEF IInv, TypeOK
    <3> QED BY <3>1, RecentAscends DEF AInv
  <2> QED BY <2>1, <2>2 DEF IdsAscend
<1>2. Spec => [](IInv /\ AInv)
  BY InitInv, InitAscends, NextInv, NextAscends, PTL DEF Spec
<1> QED BY <1>1, <1>2, PTL
=============================================================================
