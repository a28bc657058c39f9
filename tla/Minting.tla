------------------------------ MODULE Minting ------------------------------
(***************************************************************************)
(* How the store of core/src/store.rs mints ids.  An id is a row of a      *)
(* chunk; a chunk belongs to one partition; a partition fills the chunk it *)
(* has open and takes a fresh one when that is full or out of order.  The  *)
(* tasks of a parallel epoch mint in clones of the store, from chunk       *)
(* indices reserved for their place in the epoch, and a commit puts their  *)
(* chunks into the store they were cloned from.                            *)
(*                                                                         *)
(* The four id spaces mint alike and apart, so one is modelled.  Edits of  *)
(* rows that are already there are the subject of Epoch.                   *)
(***************************************************************************)
EXTENDS Naturals, Sequences

CONSTANTS
  MaxChunks,                        \* MAX_CHUNKS
  ChunkRows,                        \* CHUNK_ROWS
  MaxParts,                         \* bound: partitions ever opened
  MaxScopes,                        \* bound: nesting of function scopes
  TargetLists,                      \* bound: the target lists an epoch may have
  NoChunk, NoPart                   \* the Nones of the code

ASSUME SizeAssumption ==
  /\ MaxChunks \in Nat \ {0}
  /\ ChunkRows \in Nat \ {0}
  /\ MaxParts \in Nat \ {0}
  /\ MaxScopes \in Nat

Indices == 0 .. MaxChunks - 1
Parts == 0 .. MaxParts - 1          \* 0 is the module

ASSUME NoneAssumption ==
  /\ NoChunk \notin Nat
  /\ NoPart \notin Nat
  /\ TargetLists \subseteq Seq(Parts) \ {<<>>}

VARIABLES
  db,                               \* the context's store
  task,                             \* the stores of the epoch's tasks, in target order
  next,                             \* the batch the merge folds next, 0 outside it
  before,                           \* the base's counters when the merge folds the first
  scopes                            \* the targets the open function scopes will restore

vars == <<db, task, next, before, scopes>>

Lanes == [some : BOOLEAN, index : Nat, count : Nat, base : Nat, taken : Nat,
          exclusive : BOOLEAN]

NoLane == [some |-> FALSE, index |-> 0, count |-> 0, base |-> 0, taken |-> 0,
           exclusive |-> FALSE]

Missing == [owner |-> NoPart, len |-> 0]

Dbs ==
  [chunk : [Indices -> [owner : Parts \cup {NoPart}, len : 0 .. ChunkRows]],
   parts : 1 .. MaxParts,
   open : [Parts -> Indices \cup {NoChunk}],
   seen : [Parts -> Nat],
   minted : Nat,
   module_minted : Nat,
   target : Parts,
   lane : Lanes]

\* Db::new: the module partition, and no chunk.
New ==
  [chunk |-> [i \in Indices |-> Missing],
   parts |-> 1,
   open |-> [p \in Parts |-> NoChunk],
   seen |-> [p \in Parts |-> 0],
   minted |-> 0,
   module_minted |-> 0,
   target |-> 0,
   lane |-> NoLane]

Filled(d, i) == d.chunk[i].owner # NoPart

\* Space::chunks: one past the highest index a chunk was put at.
Chunks(d) ==
  CHOOSE n \in 0 .. MaxChunks :
    /\ \A i \in Indices : Filled(d, i) => i < n
    /\ n > 0 => Filled(d, n - 1)

\* How many rows the target's open chunk must have seen to be taken up again.
Current(d) == IF d.target = 0 THEN d.minted ELSE d.module_minted

Own(d, index) ==
  \/ ~d.lane.some
  \/ index >= d.lane.base
  \/ d.lane.exclusive /\ d.target # 0

\* Mutant: the open chunk is not asked what was minted since.
HasOpenUnseen(d) ==
  LET index == d.open[d.target] IN
  /\ index # NoChunk
  /\ d.chunk[index].len < ChunkRows
  /\ Own(d, index)

\* open_chunk, with the answer None as FALSE.
HasOpen(d) ==
  LET index == d.open[d.target] IN
  /\ index # NoChunk
  /\ d.chunk[index].len < ChunkRows
  /\ d.seen[d.target] = Current(d)
  /\ Own(d, index)

\* Mutant: every task numbers its fresh chunks from the same place.
FreshWithoutPlace(d) ==
  IF ~d.lane.some THEN Chunks(d) ELSE d.lane.base + d.lane.taken

\* The index `fresh` hands out; it panics when that reaches MAX_CHUNKS.
FreshIndex(d) ==
  IF ~d.lane.some THEN Chunks(d)
  ELSE d.lane.base + d.lane.taken * d.lane.count + d.lane.index

MintIndex(d) == IF HasOpen(d) THEN d.open[d.target] ELSE FreshIndex(d)

CanMint(d) == HasOpen(d) \/ FreshIndex(d) < MaxChunks

\* The id of the row that minting in `d` makes.
MintedId(d) == <<MintIndex(d), IF HasOpen(d) THEN d.chunk[MintIndex(d)].len ELSE 0>>

\* mint!, then minted: a row is pushed to the open chunk or to a new one put
\* at the fresh index, the counters move, and the chunk is the target's open
\* one at what they now count.
Minted(d) ==
  LET index == MintIndex(d)
      total == d.minted + 1
      module == IF d.target = 0 THEN d.module_minted + 1 ELSE d.module_minted
  IN
  [d EXCEPT
     !.chunk[index] = IF HasOpen(d) THEN [owner |-> @.owner, len |-> @.len + 1]
                      ELSE [owner |-> d.target, len |-> 1],
     !.minted = total,
     !.module_minted = module,
     !.open[d.target] = index,
     !.seen[d.target] = IF d.target = 0 THEN total ELSE module,
     !.lane.taken = IF d.lane.some /\ ~HasOpen(d) THEN @ + 1 ELSE @]

-----------------------------------------------------------------------------

InEpoch == task # <<>>

NoneCounted == [minted |-> 0, module_minted |-> 0]

Init ==
  /\ db = New
  /\ task = <<>>
  /\ next = 0
  /\ before = NoneCounted
  /\ scopes = <<>>

\* A row made through the context itself, between epochs.
Mint ==
  /\ ~InEpoch
  /\ CanMint(db)
  /\ db' = Minted(db)
  /\ UNCHANGED <<task, next, before, scopes>>

\* function_scope: a partition of its own for what is created inside.
EnterPartition ==
  /\ ~InEpoch
  /\ Len(scopes) < MaxScopes
  /\ db.parts < MaxParts
  /\ db' = [db EXCEPT !.parts = @ + 1, !.target = db.parts]
  /\ scopes' = Append(scopes, db.target)
  /\ UNCHANGED <<task, next, before>>

\* Whether partition `p` has an op in `d`.
Populated(d, p) == \E i \in Indices : d.chunk[i].owner = p

\* partition_scope: mint_under moves the target to the partition of an op.
MintUnder(p) ==
  /\ ~InEpoch
  /\ Len(scopes) < MaxScopes
  /\ p # 0 /\ p # db.target
  /\ Populated(db, p)
  /\ db' = [db EXCEPT !.target = p]
  /\ scopes' = Append(scopes, db.target)
  /\ UNCHANGED <<task, next, before>>

\* FunctionScope::drop: mint_into(previous).
LeaveScope ==
  /\ ~InEpoch
  /\ scopes # <<>>
  /\ db' = [db EXCEPT !.target = scopes[Len(scopes)]]
  /\ scopes' = SubSeq(scopes, 1, Len(scopes) - 1)
  /\ UNCHANGED <<task, next, before>>

\* tasks::run: a task whose partition no other target shares keeps filling it.
Exclusive(targets, k) ==
  /\ targets[k] # 0
  /\ \A l \in DOMAIN targets : l # k => targets[l] # targets[k]

\* Db::lane: a clone that mints into `target` at its place in the epoch.
Lane(targets, k) ==
  [db EXCEPT
     !.target = targets[k],
     !.lane = [some |-> TRUE, index |-> k - 1, count |-> Len(targets), base |-> Chunks(db),
               taken |-> 0, exclusive |-> Exclusive(targets, k)]]

\* The epoch opens: one clone of the committed store for each target.
OpenEpoch(targets) ==
  /\ ~InEpoch
  /\ \A k \in DOMAIN targets : Populated(db, targets[k])
  /\ task' = [k \in DOMAIN targets |-> Lane(targets, k)]
  /\ UNCHANGED <<db, next, before, scopes>>

\* A row made by the pipeline of task `k`.
TaskMint(k) ==
  /\ next = 0
  /\ CanMint(task[k])
  /\ task' = [task EXCEPT ![k] = Minted(task[k])]
  /\ UNCHANGED <<db, next, before, scopes>>

Writers(i) == {k \in DOMAIN task : task[k].chunk[i] # db.chunk[i]}

\* Mutant: a chunk of the base is kept.
MergedIfFresh(i) ==
  IF Writers(i) = {} \/ Filled(db, i) THEN db.chunk[i]
  ELSE task[CHOOSE k \in Writers(i) : TRUE].chunk[i]

\* What merge_space makes of chunk `i`: the copy of the batch that minted in it.
MergedChunk(i) ==
  IF Writers(i) = {} THEN db.chunk[i] ELSE task[CHOOSE k \in Writers(i) : TRUE].chunk[i]

\* Db::merge takes the chunks the batches wrote.
MergeChunks ==
  /\ InEpoch /\ next = 0
  /\ db' = [db EXCEPT !.chunk = [i \in Indices |-> MergedChunk(i)]]
  /\ next' = 1
  /\ before' = [minted |-> db.minted, module_minted |-> db.module_minted]
  /\ UNCHANGED <<task, scopes>>

\* The counters move by what the batch minted; a partition one task had to
\* itself goes on from the chunk that task left open.
Folded(batch) ==
  [db EXCEPT
     !.minted = @ + (batch.minted - before.minted),
     !.module_minted = @ + (batch.module_minted - before.module_minted),
     !.open[batch.target] = IF batch.lane.exclusive THEN batch.open[batch.target] ELSE @,
     !.seen[batch.target] = IF batch.lane.exclusive THEN batch.seen[batch.target] ELSE @]

\* Then merge folds the batches in target order; nothing runs in between.
MergeBatch ==
  /\ next > 0
  /\ db' = Folded(task[next])
  /\ IF next = Len(task)
     THEN next' = 0 /\ task' = <<>> /\ before' = NoneCounted
     ELSE next' = next + 1 /\ UNCHANGED <<task, before>>
  /\ UNCHANGED scopes

\* A task failed, or two edited one row: the batches are dropped.
DropBatches ==
  /\ InEpoch /\ next = 0
  /\ task' = <<>>
  /\ UNCHANGED <<db, next, before, scopes>>

Next ==
  \/ Mint
  \/ EnterPartition
  \/ \E p \in Parts : MintUnder(p)
  \/ LeaveScope
  \/ \E targets \in TargetLists : OpenEpoch(targets)
  \/ \E k \in DOMAIN task : TaskMint(k)
  \/ MergeChunks
  \/ MergeBatch
  \/ DropBatches

Spec == Init /\ [][Next]_vars

-----------------------------------------------------------------------------

TypeOK ==
  /\ db \in Dbs /\ db.lane = NoLane
  /\ task \in Seq(Dbs)
  /\ \A k \in DOMAIN task : task[k].lane.some
  /\ next \in 0 .. Len(task)
  /\ before \in [minted : Nat, module_minted : Nat]
  /\ scopes \in Seq(Parts)

Before(a, b) == a[1] < b[1] \/ (a[1] = b[1] /\ a[2] < b[2])

IdsIn(d, p) == {id \in Indices \X (0 .. ChunkRows - 1) :
                  d.chunk[id[1]].owner = p /\ id[2] < d.chunk[id[1]].len}

Ids(d) == UNION {IdsIn(d, p) : p \in Parts}

\* "two tasks never mint one id" (store.rs, module doc; Lane): what two tasks
\* of an epoch minted so far is disjoint.
TasksMintApart ==
  next = 0 => \A k, l \in DOMAIN task :
    k # l => (Ids(task[k]) \ Ids(db)) \cap (Ids(task[l]) \ Ids(db)) = {}

\* "and a commit has nothing to rename": each id a task minted names, after the
\* merge, a row of the same partition, and no id of the base moves.
MergeKeepsIds ==
  [][ MergeChunks => \A p \in Parts :
        /\ IdsIn(db, p) \subseteq IdsIn(db', p)
        /\ \A k \in DOMAIN task : IdsIn(task[k], p) \subseteq IdsIn(db', p)
        /\ \A i \in IdsIn(db', p) : i \in IdsIn(db, p) \/ \E k \in DOMAIN task : i \in IdsIn(task[k], p)
    ]_vars

\* What the id minted next in `d` comes after: every id of its own partition and
\* of the module, and for the module every id at all.
Ascends(d) ==
  CanMint(d) =>
    \A p \in Parts : p = d.target \/ p = 0 \/ d.target = 0 =>
      \A i \in IdsIn(d, p) : Before(i, MintedId(d))

\* "Ids therefore ascend with creation inside a partition and against the
\* module's ids" (store.rs, module doc): for what a task mints and for what the
\* context mints between epochs.
IdsAscend == (~InEpoch => Ascends(db)) /\ \A k \in DOMAIN task : Ascends(task[k])

\* A chunk holds rows of one partition: what a partition has open is its own.
OpenIsOwn ==
  \A p \in Parts : db.open[p] # NoChunk => db.chunk[db.open[p]].owner = p
=============================================================================
