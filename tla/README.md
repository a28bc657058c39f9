# TIR: a TLA+ verification project

TIR is a compiler infrastructure in Rust. Its IR lives in a store of rows
(`core/src/store.rs`) that one context owns. The pass manager
(`core/src/pass.rs`) runs a nest of passes over many functions at once by giving
every function's task a clone of the store and merging the clones. Beside that
core stand libraries with state of their own: an e-graph over a layered
relational store, a SAT solver, and a simulator that runs machine instructions
over guest memory. This project models the parts whose correctness depends on
the order things happen in.

`PROJECT.json` lists the components, runs, mutants, the map from definitions to
source lines, findings, hazards and theorems. Paths below are relative to `src/`.

## The system

| part | state | operations | what is hard about it |
|---|---|---|---|
| task pool, `pass.rs` `mod tasks` | a shared counter, result slots | claim, run, store, join | workers finish in any order; a task fails or panics |
| id minting, `store.rs` | chunks, the open chunk of each partition, counters, lanes | mint, open a scope, open an epoch, merge | two clones mint at once; a commit must rename nothing |
| epoch and commit, `store.rs` `merge` | rows, stamps, use replacements, edit counts, settled passes | edits of a task, merge, refusal | edits of one task meet rows of another |
| use lists, `grouping.rs` `Grouping` | a sorted base, a tail, a log, stamps | writes, refresh, fold, merge | an index brought up to date lazily from a log |
| op order, `store.rs` positions | a position per op, a counter per block | append, insert, replace, remove, reorder | gaps fill, the counter runs out, everything is renumbered |
| union-find, `libs/relational` | parents, offsets, zeros, how far the forest is flat | union, find, flatten, clear | offsets compose along a path that flattening rewrites |
| relational store and e-graph, `libs/relational`, `libs/egraph` | tables, layers over them, class lists, a change log | add, union, rebuild, seed, push and pop a context | rows go stale under layers; closing one must undo it all |
| SAT solver, `libs/symbolic` | clauses, watch lists, the trail, the heap | add, propagate, decide, analyze, learn, restart | a conflict interrupts a propagation half way |
| simulated memory, `libs/simcore` | mappings, backings, devices, staged stores, a reservation | map, begin, service, commit, abort | an instruction faults on its third access; a handler remaps memory |
| front ends, dialects, passes, backends, tools | | | sequential; see *Not modelled* |

The IR parts interact in one cycle. The pass manager commits the store and opens
an epoch. The pool runs each target's pipeline over a lane, which is a clone that
mints at its own place. The pipelines edit rows, which moves positions and logs
writes for the lists. The pool hands the batches over in target order. The merge
takes rows from the batches, replays use replacements and forgets the lists of
the partitions it wrote. The e-graph drives the relational store, which keeps its
ids in the union-find. The simulator's executor drives the memory service, which
resolves accesses through the address space.

## Modules

| module | models | state and actions |
|---|---|---|
| `Tasks` | what an epoch promises its caller | which targets ran, the answer |
| `WorkerPool` | `tasks::run` | `Claim` is the `fetch_add`, `Run` the pipeline, `Store` the slot write under the lock, `Join` the scope's end and the collection |
| `Minting` | `open_chunk`, `fresh`, `mint!`, scopes, `lane`, the counters in `merge` | a store is a record; the context's and each task's are of one kind. `MergeChunks` then one `MergeBatch` per batch |
| `Epoch` | the edits of tasks and `merge` | a store holds op rows (liveness, one operand, one cell for the rest), value rows, readers of each chunk, edit counts, settled passes. A layout says which op lies in which chunk and what a base reads |
| `UseLists` | `Grouping` over the operand rows of a partition | rows and stamps; `base`, `built`, `tail`, `log`; one action per write, `RefreshUses`, `Commit`, `Merge` |
| `Positions` | the arithmetic of `next_position`, `set_held`, `insert_held` | operators over held ops and positions |
| `OpOrder` | what a block promises of the order of its ops | an order, and what each edit does to it |
| `BlockOrder` | the edits of `block.rs` down to positions | `held`, `pos`, `next` |
| `BlockEpoch` | two tasks editing one block, and the commit | a copy of the rows per task, what each wrote |
| `Offsets`, `Partition` | carriers of offsets; the sets a union-find stands for | a representative and an offset per id; union relabels a whole set |
| `UnionFind` | `unionfind.rs`, loops a step at a time | `parent`, `delta`, `carried`, `pinned`, `conflict`, `flatBelow`; a call is a climb or a sweep of several steps |
| `Tables`, `Database` | `store/mod.rs` and `db.rs`, as a value and operators on it | base tables, the partition, a stack of layers with overlays, own and stale rows, the change log |
| `EGraph` | `engine.rs` over `Database` | `Add`, `Reserve`, `StoreBatch`, `Unite`, `Pass` and `Unlist` of a rebuild, `Open`, `PopContext`, `Drain` |
| `Sat` | the CDCL solver | one record for `Solver`; an action per round of `solve`: `Propagate`, `Decide`, `Learn`, the answers |
| `Memory` | mappings and accesses of `memory.rs` | operators over a space and backings |
| `MemoryService` | `memory_service.rs` | the active instruction with its staged stores, devices, the reservation, the memory order |
| `Executor` | `execute_frame` and `drive_frame`, and the host | `Start`, `Effect`, `Exception`, `Fault`, `CommitFault`, `Commit`, `Host` |
| `*Proofs` | lemmas and proofs | |
| `MC*` | constants for TLC | |

`WorkerPool` implements `Tasks`, `BlockOrder` implements `OpOrder` and
`UnionFind` implements `Partition`, each by `INSTANCE ... WITH` a refinement
mapping. `EGraph` composes the engine with the store, and `Executor` the
executor with the memory service and the address space. The other modules share
no state and rest on each other's results: `Epoch` gives each task ops of its own
to make, which is what `Minting` shows, and reads use lists as what they promise,
which is what `UseLists` shows; `Database` keeps the base's ids in the partition
that `UnionFind` is shown to be.

## Runs

| run | shows | bounds |
|---|---|---|
| `worker_pool` | no target runs twice or is dropped, the answer is that of a loop over the targets, and it comes | 4 targets, up to 3 workers, every outcome of every target: more targets than workers, so workers go round |
| `minting` | two tasks never mint one id, a commit renames none, ids ascend | chunks of 2 rows, 5 chunks, 3 partitions: chunks fill and change within an epoch |
| `epoch` | no read of an erased value, no edit lost, replacing uses elsewhere is never refused, merging rows agrees with taking chunks whole, edit counts and settled passes tell who edited | 2 tasks, 2 edits each, one epoch; two layouts, with the tasks on two functions that read each other's values and with both in one chunk |
| `use_lists` | a lookup answers exactly the operands of live ops, each once | 2 ops, 2 values, 2 operands, 5 ticks; a tail limit of 0, so that folds happen |
| `block_order` | the list read back changes as the edit says | 3 ops, stride 4, so that gaps fill after two inserts; positions up to 30, so that the counter runs out; edits unbounded |
| `block_epoch` | inserts and later appends keep their place after a commit, in epochs without renumbering | 2 tasks, 2 edits each, blocks left by up to 7 appends and erasures |
| `union_find` | the forest is the partition, the representative is the zero or the smallest id, a union makes its references equal, the flat part is the map, climbs end | 4 ids, 3 calls, a carrier of two bits so that offsets wrap, zeros among the ids, a clear down to one id |
| `egraph` | the graph is the congruence closure of what the open contexts said, e-nodes are hash-consed, rows are canonical after a rebuild, the class lists and the change log are complete, a class outside the dirty scope reads as before | 4 ids, a leaf and a unary label, 2 nested contexts, 2 unions: enough for a collision that causes another under a layer |
| `egraph_seeding` | a program stored in batches gives the graph one-at-a-time insertion gives, and every pass of a rebuild merges | 5 ids, the same labels, 1 union, batches in any order of labels |
| `sat` | answers are right, the watch lists stand, reasons come first in their clause, every conflict teaches a clause the solver did not have | 4 variables; any subset of up to 6 of 12 clauses in order, with units, duplicates and tautologies among them; restarts after a conflict or two, budgets of none and one |
| `executor` | memory is what the ordered writes leave and a read sees those before it, a conditional store needs its reservation, traps are precise, an instruction with several accesses that began commits | 4 addresses, RAM of 2 bytes, 3 changes of mappings over 3 ranges, one more backing (RAM, an alias or a device), 3 of 10 instructions: loads and stores across mappings, pairs of accesses, reserve and conditional, an exchange, an exception |

Ops and values are interchangeable in `use_lists`, which uses symmetry; its
properties are invariants. Deadlock is checked in `worker_pool`, the `epoch`
runs, `block_order` and `union_find`. The other models stop where a bound is
reached, an id space is full, the caller has no more to ask or a commit was
refused.

Every property of a passing run has a mutant: a plausible slip in one mapped
definition under which TLC finds that property violated.

**Fairness** is assumed in two runs. In `worker_pool` it is weak fairness of each
started worker and of the join: the operating system schedules every running
thread. The assumption includes that a pipeline returns or panics, and that the
locks a step takes (the slots, and those of passes) are held only for a while.
In `union_find` it is weak fairness of the steps of a loop that was entered,
which a thread that called `find` or `flatten` goes on taking; no call has to be
made. That `rebuild` and `solve` end is not stated as liveness. `PassesMerge`
and `LearnsAnew` state the variant instead: every pass that is followed by
another lowers the number of classes, every conflict adds a clause that no
clause of the solver implies by inclusion, and both are bounded.

### Where the code and its documentation disagree

`epoch_two` ends in a violation, and `PROJECT.json` quotes the text it is about:
the merge rewrites operands without noting the reading partition, so replacing
the value again in a later epoch misses a read. It is a trace of the model and
was not reproduced by running the Rust program.

Five more places where the promise of a comment needs a condition shaped the
models. They have no run of their own:

* replacements of several batches are replayed once, in batch order, so a read
  redirected to a value that an earlier batch erased stays on it. The layouts of
  `epoch` give no two tasks replacements that chain (`Unchained`);
* a task that replaces one value by another, and later the same value by a third
  one, ends with a map that says the third (`retarget_map`). A row of another
  function that was redirected the first time does not agree with that map,
  counts as an edit, and two tasks with a function each can be refused. TLC finds
  it when a task may do so. The layouts of `epoch` do not let it
  (`ReplacesOnce`);
* the merge rewrites operands of a function another task settled, and counts no
  edit for it. `TaskSettledIsFresh` speaks of what the task itself settled;
* after an epoch with two targets in one function, the function goes on filling
  an older chunk and its ids do not ascend. `IdsAscend` is checked for targets
  with a function each or in the module;
* one task renumbers a block, another inserts by the old numbering; their rows do
  not overlap and the op lands behind its target. The renumbered counter can
  likewise fall short of an op the other task placed. `block_epoch` states its
  two properties for epochs without a renumbering.

## Proofs

TLAPS checks all of these for every value of the constants that the named
`ASSUME`s allow.

* `WorkerPoolProofs`, for any number of targets and workers. Claiming once is not
  inductive alone, since nothing in it ties a claimed index to the counter.
  `HandedOut` adds that an index below the counter is in its slot or in the
  hands of a worker, and that slots hold their target's outcome. From it follow
  `ClaimedOnce`, that every target ran when the answer is collected, and that the
  pool implements `Tasks`.
* `MintingProofs`, for any number of chunks, rows, partitions and tasks. The
  invariant places each lane (`LanesPlaced`), and says that a chunk in which a
  task differs from the base is its lane's, or one its partition had and no
  other task may fill (`ChunksKept`, `ExclusiveApart`). Two lanes take indices
  with different remainders (`PlacesApart`), so tasks mint
  apart and a merge keeps every id. That the chunk a partition has open is its
  own, and that indices stay in range, is proved and not run. `IdsAscend` is
  proved under `TargetsApart`: an epoch has at most one target in a function, as
  in the run. It needs a second invariant, `AInv`. A partition has seen at most
  what the counter counts, and where it has seen all of it the chunk it has open
  is the last of those its ids must come after (`Recent`). During a merge the
  same is said of a partition that no batch moved on (`Folding`, `Quiet`), since
  the counters reach what was seen only when no batch counted anything.
* `EpochProofs`, for any number of tasks, edits, ops and chunks, and any layout in
  which a task makes and replaces ops of the partition it mints into
  (`IdsAssumption`, `LayoutsAssumption`). The properties compare stores across a
  commit, so the invariant `IInv` says what a store is against the base it was
  cloned from. Rows, values and counts that a task did not write are the base's,
  and it made and replaced only what it may (`Kept`). A row it wrote in another
  partition is the base's with the replacements of its map (`Reached`, `Once`).
  Until the first commit every read is of a live value and of one whose readers
  are listed, and an erased value was replaced (`Sound`, `Noticed`); a version a
  pass settled at is current only over the rows it settled on (`Marked`). What a
  commit makes of this is found by induction over the batches: `Replayed` and
  the counts are recursive functions, and `Iterated` and `Induction`, from the
  least element of a set of naturals, give the values they go through. Then
  every merged row is a batch's, the base's or untouched (`RowComesFrom`).
  `NoLostEdit` and `VersionsKept` hold for any number of epochs and without
  conditions. `NeverRefused` is proved for tasks that replace no value twice or
  in a chain (`ReplacesOnce`), `ChunkingIrrelevant` for replacements that do not
  chain across tasks (`Unchained`), and `NoDanglingReads` under the same and for
  one epoch. `TaskSettledIsFresh` is proved for the first epoch. The layouts of
  the run satisfy these conditions; the list above and `epoch_two` say what goes
  wrong without them.
* `UseListsProofs`, for any ops, values and limits. `GroupingStands` is the
  invariant: an op not written since the base was built is as the base has it,
  one written since is as the tail has it or is in the log, and one written at
  this tick is in the log. `LookupExact` and `ReadsOnce` follow.
* `BlockOrderProofs`, for any finite set of op ids, any stride of at least 2 and
  any width with room to number every op (`StrideAssumption`). `TypeOK` and
  `PositionsSpread` together are inductive: positions differ and the counter is
  beyond them. Every edit, with the renumbering it may cause, then maps to the
  edit of `OpOrder`.
* `BlockEpochProofs`, for any finite set of tasks, any number of edits, any base
  and the strides above. The two properties only speak of committed rows, so the
  invariant `EInv` says what the copies hold until then: rows and counter that a
  task did not write are the committed ones (`Unwritten`), an op placed before a
  target is ahead of it in the copy of its task (`AskedKept`), and a copy's
  counter is beyond its ops. A commit without overlap takes an op and its target
  from that copy. Positions of a committed block may coincide, so nothing here
  rests on their being different.
* `UnionFindProofs`, for any number of ids and any commutative group of offsets
  (`OffsetsAssumption`). The invariant ties every edge of the forest to the
  partition: an edge stays within a set, its delta is the difference of the
  offsets at its ends, and it points down or to a zero. It also says where a
  climb may be between two steps and what a flattening has still to do. From it
  follow that the forest implements `Partition`, that `find` is right on its
  fast path too, `RepresentativeOfTheSet`, `MapBelowFlat` and `UnionEquates`.
* `ExecutorProofs`, for any address space, any instructions
  (`InstructionsAssumption`: sequences of the seven effects, where a store has
  the size of its bytes) and any host (`SizesAssumption`: its ranges are of
  naturals). `Precise` is not inductive, since it only
  speaks of the step that traps. The invariant says that frame and service are
  at the same effect and that staged stores are to memory they may write
  (`InStep`); that an instruction with several effects stands as the preflight
  found it, and has staged stores only once it is past its loads (`Several`);
  and that one with a single effect has changed nothing until that effect
  succeeds (`Single`). `SeveralNeverTraps` rules the error paths out for the
  first kind, and `Precise` and `BeganCommits` follow. TLC checked the invariant
  on an instance with two changes of mappings before it was proved.
  `ReservationHeld` speaks of the recorded events. Its invariant `RInv` adds that
  a reservation the service holds is that of the last load_reserved event, with
  no store_conditional after it (`ReservationKnown`).
  `SerialOrder` needs a third invariant, `SInv`. A byte of memory is the one that
  the events below the next memory order leave (`MemoryIn`), and a byte that was
  read is the one the events below the order of its read leave (`ReadsIn`). Each
  staged store has its event, without an order and with the cells that the commit
  will write (`StoresRecorded`), as mappings do not change while a store is
  staged. Orders the service gave are those of the events (`OrdersAgree`), no two
  events are of one effect (`EventsApart`), and every mapping lies within its
  backing (`MemoryTyped`), so that an access that was let through leads to cells
  there are, through whatever alias. A commit is an induction over the staged
  stores: the n-th one published leaves what the writes up to its order leave
  (`StoresPublished`). TLC checked `SInv` on the instance of `executor` first.

`MaxTick`, `MaxOperands`, `MaxParts`, `MaxScopes`, `TargetLists`, `MaxCalls`,
`MaxInstructions`, `MaxGeneration`, `MaxBackings`, `MaxEdits` and `MaxStart` are
bounds of the models; the theorems hold for every value of them.

TLC checked `AInv` on the instance of `minting`, `EInv`, with its types bounded, on
that of `block_epoch` and with three edits of a task, and the invariant of
`EpochProofs` on the instance of `epoch` and with more replacements and three
edits of a task, before they were proved.

Only model-checked:

* `Answered` and `Returns`: liveness is out of the prover's reach;
* everything in `EGraph` and `Sat`, whose properties speak of closures and of
  folds over clauses and trails.

What a recursion computes can be proved where it is a function over an interval
of naturals, as in `EpochProofs` and for the stores of a commit in
`ExecutorProofs`. The closures of `EGraph` are `RECURSIVE`
operators, which the prover does not take.

## What the models abstract

* One id space of four, since they mint alike. Ops with one operand in `Epoch`.
* Edit counts, ticks and mint counters are naturals: the 32-bit wrap of the code
  is not modelled. Positions and offsets keep a width.
* Sorted arrays of the use lists are sets; that an entry is listed once is a
  property.
* A pipeline is any sequence of the modelled edits, up to the bound.
* `BlockEpoch` leaves out replacing and reordering by tasks; `Epoch` treats a
  row's holder and position as part of its one cell.
* A set of the union-find has one carrier; sets of mixed widths are left out.
* `Database` has one space without offsets, lattice columns or laws. Labels of
  `EGraph` take no operand or one. `history` records, per open context, what was
  said, for the properties to be about.
* In `Sat` the activities are left out, so that any queued variable may be
  decided next: what is shown holds for every order the heap could give.
* An instruction of `Executor` is the sequence of effects it yields. That the
  terms between them evaluate, and that the machine accepts the register writes
  of an instruction that committed, depends on the machine descriptions and is
  assumed. The preflight counts the effects of the longest branch, the model those
  of the branch that is taken, so the model also runs instructions that the code
  turns away before they begin. The fetch is of code that stays mapped. The words and sizes of
  accesses are those that fit a word; a fence, which only takes an order, is in
  the model and the proofs and not in the instance. Back pressure (`ready` is
  false) changes nothing and is left out, and the host does not write memory
  behind the service.

## Not modelled

`PROJECT.json` names every other part with its reason. In short:

* front ends, printers, dialects, backends, descriptions and tools are
  sequential text or table processing;
* the transformation passes, instruction selection and register allocation are
  about the meaning of the programs they give, beyond a small model;
* planning and evaluating queries in `libs/relational`, extraction and
  bit-blasting are pure search and encoding over large data;
* the walk of the pass manager and the analysis cache are one sequential loop and
  one map over the versions that `Epoch` models;
* the held lists of blocks are kept like the use lists of `UseLists`, and
  `BlockOrder` takes the order they promise;
* the timing models of the simulator count cycles, and the counts are the result;
* the JIT and the drivers are I/O.
