------------------------------- MODULE Epoch -------------------------------
(***************************************************************************)
(* One parallel epoch over the store of core/src/store.rs: every task      *)
(* edits a clone of the committed store, and `merge` commits the clones in *)
(* target order.  A chunk one task wrote is taken whole, a chunk several   *)
(* wrote is merged row by row, two tasks editing one row are refused, and  *)
(* the use replacements of each task are replayed over the rows the others *)
(* wrote.                                                                  *)
(*                                                                         *)
(* An op row is abstracted to its liveness, one operand and one cell that  *)
(* stands for its name, holder, position, results, regions and attributes; *)
(* a value row to its liveness.  Which ids a task mints is the subject of  *)
(* Minting: here each task has ops of its own to make, in a chunk of its   *)
(* own.  Groupings are read as what they promise (see Grouping).           *)
(***************************************************************************)
EXTENDS Integers, Sequences, FiniteSetsExt

CONSTANTS
  Parts,                            \* the partitions; 0 is the module
  Ops, Res,                         \* op rows and the value each defines
  ValueChunkOf,                     \* the chunks of values
  MakesOps,                         \* per task: the op ids its lane has for it
  Names,                            \* per task: the values its edits may name
  Layouts,                          \* where ops and targets lie and what tasks do, see below
  MaxEdits,                         \* bound: edits of a task in an epoch
  MaxEpochs                         \* bound: epochs

VARIABLES
  db,                               \* the committed store
  task,                             \* per task: its clone
  steps,                            \* per task: the edits it has made
  epoch,                            \* the epochs committed
  refused,                          \* a commit was refused, which ends the run
  layout                            \* the member of Layouts that the run is about

vars == <<db, task, steps, epoch, refused, layout>>

OpOwner == layout.opOwner           \* the owners of the ops' chunks
OpChunkOf == layout.opChunkOf       \* the chunks of op rows
ValueOwner == layout.valueOwner     \* the owners of the values' chunks
Targets == layout.targets           \* per task: the partition it mints into
ReplacesOps == layout.replacesOps   \* per task: the ops its edits may replace
ReplacesUses == layout.replacesUses \* per task: the <<old, new>> it may replace uses of
BaseReads == layout.baseReads       \* what the ops of the base may read
Settlers == layout.settlers         \* the tasks that run a pass that settles

Values == {Res[o] : o \in Ops}
ValueChunks == {ValueChunkOf[v] : v \in Values}
OpChunks == {OpChunkOf[o] : o \in Ops}
Tasks == DOMAIN MakesOps
BaseOps == Ops \ UNION {MakesOps[k] : k \in Tasks}
Cells == {0, 1}

\* Every op defines a value of its own, and every lane has ops of its own.
ASSUME IdsAssumption ==
  /\ IsFiniteSet(Ops)
  /\ 0 \in Parts
  /\ \A o, x \in Ops : Res[o] = Res[x] => o = x
  /\ MakesOps \in Seq(SUBSET Ops) /\ Tasks # {}
  /\ \A k, l \in Tasks : k # l => MakesOps[k] \cap MakesOps[l] = {}
  /\ \A k \in Tasks : Names[k] \subseteq Values
  /\ MaxEpochs \in Nat

\* A task makes and replaces ops of the partition it mints into, and the base reads
\* values of the base.
ASSUME LayoutsAssumption ==
  \A l \in Layouts :
    /\ l.opOwner \in [Ops -> Parts]
    /\ l.valueOwner \in [Values -> Parts]
    /\ l.targets \in [Tasks -> Parts]
    /\ \A k \in Tasks :
         /\ l.replacesOps[k] \subseteq Ops
         /\ \A o \in MakesOps[k] \cup l.replacesOps[k] : l.opOwner[o] = l.targets[k]
         /\ l.replacesUses[k] \subseteq Values \X Values
    /\ l.baseReads \subseteq [BaseOps -> {Res[o] : o \in BaseOps}]

-----------------------------------------------------------------------------
(* A store. *)

Identity == [v \in Values |-> v]
NotSettled == [version |-> 0, rows |-> <<>>, at |-> FALSE]

Dead == [live |-> FALSE, operand |-> CHOOSE v \in Values : TRUE, cell |-> 0]

RowsOf(d, p) == [o \in {x \in Ops : OpOwner[x] = p} |-> d.op[o]]

\* value_readers: the partitions whose use lists are read for `v`.
Readers(d, v) == {ValueOwner[v]} \cup d.foreign[ValueChunkOf[v]]

\* Mutant: only the value's own partition is read.
UsesOfOwner(d, v) == {o \in Ops : d.op[o].live /\ d.op[o].operand = v /\ OpOwner[o] = ValueOwner[v]}

\* uses: the live ops of those partitions whose operand is `v`.
Uses(d, v) == {o \in Ops : d.op[o].live /\ d.op[o].operand = v /\ OpOwner[o] \in Readers(d, v)}

\* version: a partition's count with the module's, and for the module the
\* count of every edit.
Version(d, p) == IF p = 0 THEN d.total ELSE d.edits[p] + d.edits[0]

\* bump, `n` times for the partition of each op in `ops`.
Bumped(d, ops) ==
  [d EXCEPT !.edits = [p \in Parts |-> @[p] + Cardinality({o \in ops : OpOwner[o] = p})],
            !.total = @ + Cardinality(ops),
            !.bumped = @ \cup {OpOwner[o] : o \in ops}]

\* note_value: partition `p` has a row naming `v`.
Noted(d, v, p) ==
  IF p \in Readers(d, v) THEN d
  ELSE [d EXCEPT !.foreign[ValueChunkOf[v]] = @ \cup {p}]

\* set_operand on every op of `ops`.
WithOperand(d, ops, v) ==
  LET parts == {OpOwner[o] : o \in ops} \ {ValueOwner[v]} IN
  [Bumped(d, ops) EXCEPT
     !.op = [o \in Ops |-> IF o \in ops THEN [@[o] EXCEPT !.operand = v] ELSE @[o]],
     !.wrote = @ \cup ops,
     !.foreign[ValueChunkOf[v]] = @ \cup parts]

\* Mutant: set_op_attrs that is not counted.
WithCellUncounted(d, o, c) ==
  [d EXCEPT !.op[o].cell = c, !.wrote = @ \cup {o}]

\* set_op_attrs
WithCell(d, o, c) ==
  [Bumped(d, {o}) EXCEPT !.op[o].cell = c, !.wrote = @ \cup {o}]

\* add_operation, then hold: the op is live, defines its result and names `v`.
WithOp(d, o, v, c) ==
  [Noted(Bumped(d, {o}), v, OpOwner[o]) EXCEPT
     !.op[o] = [live |-> TRUE, operand |-> v, cell |-> c],
     !.wrote = @ \cup {o}, !.made = @ \cup {o},
     !.value[Res[o]] = TRUE,
     !.wroteValue = @ \cup {Res[o]}]

\* replace_value_uses, with the batch's map composed as retarget_map does.
WithUsesReplaced(d, old, new) ==
  [WithOperand(d, Uses(d, old), new) EXCEPT
     !.map = [v \in Values |-> IF v = old \/ @[v] = old THEN new ELSE @[v]],
     !.retargets = TRUE]

\* remove_operation: kill_op and kill_value of its result.
WithoutOp(d, o) ==
  [Bumped(d, {o}) EXCEPT
     !.op[o].live = FALSE,
     !.wrote = @ \cup {o},
     !.value[Res[o]] = FALSE,
     !.wroteValue = @ \cup {Res[o]},
     !.edits[ValueOwner[Res[o]]] = @ + 1,
     !.total = @ + 1,
     !.bumped = @ \cup {ValueOwner[Res[o]]}]

-----------------------------------------------------------------------------
(* The tasks. *)

EmptyStore ==
  [op |-> [o \in Ops |-> Dead], made |-> BaseOps,
   value |-> [v \in Values |-> \E o \in BaseOps : Res[o] = v],
   foreign |-> [c \in ValueChunks |-> {}],
   wrote |-> {}, wroteValue |-> {},
   map |-> Identity, retargets |-> FALSE,
   edits |-> [p \in Parts |-> 0], total |-> 0, bumped |-> {},
   settled |-> [p \in Parts |-> NotSettled]]

\* A store whose base ops have the operands `reads`, each named where it is read.
Committed(reads) ==
  [EmptyStore EXCEPT
     !.op = [o \in Ops |-> IF o \in BaseOps THEN [live |-> TRUE, operand |-> reads[o], cell |-> 0]
                           ELSE Dead],
     !.foreign = [c \in ValueChunks |->
                    {OpOwner[o] : o \in {x \in BaseOps : /\ ValueChunkOf[reads[x]] = c
                                                         /\ OpOwner[x] # ValueOwner[reads[x]]}}]]

\* Any committed base, and a clone of it for every task (Db::lane).
Init ==
  /\ layout \in Layouts
  /\ db \in {Committed(reads) : reads \in BaseReads}
  /\ task = [k \in Tasks |-> db]
  /\ steps = [k \in Tasks |-> 0]
  /\ epoch = 0
  /\ refused = FALSE

Editing == epoch < MaxEpochs /\ ~refused

\* A task edits the rows of its own partition.
OwnRows(k) == {o \in Ops : OpOwner[o] = Targets[k] /\ task[k].op[o].live}

MayName(k) == {v \in Names[k] : task[k].value[v]}

MayMake(k) == MakesOps[k] \ task[k].made

Step(k, d) ==
  /\ Editing
  /\ steps[k] < MaxEdits
  /\ steps' = [steps EXCEPT ![k] = @ + 1]
  /\ task' = [task EXCEPT ![k] = d]
  /\ UNCHANGED <<db, epoch, refused, layout>>

\* Context::set_op_operand, which leaves a slot that already reads `v` alone.
SetOpOperand(k, o, v) ==
  /\ o \in OwnRows(k) /\ v \in MayName(k)
  /\ task[k].op[o].operand # v
  /\ Step(k, WithOperand(task[k], {o}, v))

\* Context::set_op_attributes
SetOpAttributes(k, o, c) ==
  /\ o \in OwnRows(k)
  /\ Step(k, WithCell(task[k], o, c))

\* An op built and appended to a block of the function.
AddOperation(k, o, v) ==
  /\ o \in MayMake(k) /\ v \in MayName(k)
  /\ Step(k, WithOp(task[k], o, v, 0))

\* Context::replace_op with an op built for it: the new op takes the place of
\* the old, the uses of its result and its operand, and the old one is freed.
ReplaceOp(k, old, new) ==
  /\ old \in ReplacesOps[k] /\ task[k].op[old].live
  /\ new \in MayMake(k)
  /\ LET built == WithOp(Bumped(task[k], {old}), new, task[k].op[old].operand, 1)
         moved == WithUsesReplaced(built, Res[old], Res[new])
     IN  Step(k, WithoutOp(moved, old))

\* Context::replace_value_uses
ReplaceValueUses(k, old, new) ==
  /\ <<old, new>> \in ReplacesUses[k]
  /\ task[k].value[old] /\ task[k].value[new]
  /\ Step(k, WithUsesReplaced(task[k], old, new))

\* A pass that settles left the task's function as it is now.
Settle(k) ==
  LET p == Targets[k] IN
  /\ Editing /\ k \in Settlers /\ p # 0
  /\ task' = [task EXCEPT ![k].settled[p] =
                [version |-> Version(task[k], p), rows |-> RowsOf(task[k], p), at |-> TRUE]]
  /\ UNCHANGED <<db, steps, epoch, refused, layout>>

-----------------------------------------------------------------------------
(* The commit. *)

Retargeted == \E k \in Tasks : task[k].retargets

\* only_retargeted: the batch's copy of a row differs from the base's only by
\* the batch's own use replacements.
OnlyRetargeted(k, o) ==
  LET base == db.op[o] theirs == task[k].op[o] IN
  /\ base.live = theirs.live
  /\ base.cell = theirs.cell
  /\ theirs.operand = task[k].map[base.operand]

\* Mutant: a replaced use counts as an edit.
EditsRowAlways(k, o) == o \in task[k].wrote

\* The batch wrote the row, and not only by replacing uses.
EditsRow(k, o) ==
  /\ o \in task[k].wrote
  /\ ~(Retargeted /\ o \in db.made /\ OnlyRetargeted(k, o))

\* Mutant: no row is checked.
OverlapOfValues ==
  \E k, l \in Tasks : k # l /\ task[k].wroteValue \cap task[l].wroteValue # {}

Overlap ==
  \E k, l \in Tasks : k # l /\
    \/ \E o \in Ops : EditsRow(k, o) /\ EditsRow(l, o)
    \/ task[k].wroteValue \cap task[l].wroteValue # {}

Writers(c) == {k \in Tasks : \E o \in task[k].wrote : OpChunkOf[o] = c}

\* retarget_rows: the other batches' replacements, in batch order.
Replayed(v, writer) ==
  LET after[n \in 0 .. Len(MakesOps)] ==
        IF n = 0 THEN v ELSE IF n = writer THEN after[n - 1] ELSE task[n].map[after[n - 1]]
  IN  after[Len(MakesOps)]

\* Mutant: a chunk taken whole is not replayed over.
TakenAsIs(o, k) == task[k].op[o]

\* A row of a chunk that batch `k` alone wrote.
TakenWhole(o, k) ==
  LET theirs == task[k].op[o] IN
  IF o \in task[k].wrote THEN [theirs EXCEPT !.operand = Replayed(@, k)] ELSE theirs

\* A row of a chunk several batches wrote: its editor's, or the base's with
\* every replacement.
TakenByRow(o) ==
  LET editors == {k \in Tasks : EditsRow(k, o)} IN
  IF editors # {} THEN
    LET k == CHOOSE k \in editors : TRUE
    IN  [task[k].op[o] EXCEPT !.operand = Replayed(@, k)]
  ELSE IF \E k \in Tasks : o \in task[k].wrote THEN [db.op[o] EXCEPT !.operand = Replayed(@, 0)]
  ELSE db.op[o]

MergedRow(o) ==
  LET writers == Writers(OpChunkOf[o]) IN
  IF writers = {} THEN db.op[o]
  ELSE IF \E k \in writers : writers = {k} THEN TakenWhole(o, CHOOSE k \in writers : TRUE)
  ELSE TakenByRow(o)

MergedValue(v) ==
  IF \E k \in Tasks : v \in task[k].wroteValue
  THEN task[CHOOSE k \in Tasks : v \in task[k].wroteValue].value[v]
  ELSE db.value[v]

\* Mutant: the count of the batch that counted most.
MergedEditsMost(p) == Max({task[k].edits[p] : k \in Tasks})

\* The counts move by what each batch counted, batch after batch.
MergedEdits(p) ==
  LET after[n \in 0 .. Len(MakesOps)] ==
        IF n = 0 THEN db.edits[p] ELSE after[n - 1] + (task[n].edits[p] - db.edits[p])
  IN  after[Len(MakesOps)]

MergedTotal ==
  LET after[n \in 0 .. Len(MakesOps)] ==
        IF n = 0 THEN db.total ELSE after[n - 1] + (task[n].total - db.total)
  IN  after[Len(MakesOps)]

Exclusive(k) ==
  /\ Targets[k] # 0
  /\ \A l \in Tasks : l # k => Targets[l] # Targets[k]

\* A partition a task had to itself goes on with what that task settled.
MergedSettled(p) ==
  IF \E k \in Tasks : Exclusive(k) /\ Targets[k] = p
  THEN task[CHOOSE k \in Tasks : Targets[k] = p].settled[p]
  ELSE db.settled[p]

\* merge takes the batches by value.
Consumed ==
  /\ task' = [k \in Tasks |-> db']
  /\ steps' = [k \in Tasks |-> 0]

\* Db::merge: Ok
Commit ==
  /\ Editing /\ ~Overlap
  /\ db' = [EmptyStore EXCEPT
              !.op = [o \in Ops |-> MergedRow(o)],
              !.made = UNION {task[k].made : k \in Tasks},
              !.value = [v \in Values |-> MergedValue(v)],
              !.foreign = [c \in ValueChunks |-> UNION {task[k].foreign[c] : k \in Tasks}],
              !.edits = [p \in Parts |-> MergedEdits(p)],
              !.total = MergedTotal,
              !.settled = [p \in Parts |-> MergedSettled(p)]]
  /\ epoch' = epoch + 1
  /\ UNCHANGED <<refused, layout>>
  /\ Consumed

\* Db::merge: Err, with the base as it was
Refuse ==
  /\ Editing /\ Overlap
  /\ refused' = TRUE
  /\ UNCHANGED <<db, epoch, layout>>
  /\ Consumed

Finished == ~Editing /\ UNCHANGED vars

Next ==
  \/ \E k \in Tasks :
       \/ \E o \in Ops, v \in Values : SetOpOperand(k, o, v) \/ AddOperation(k, o, v)
       \/ \E o \in Ops, c \in Cells : SetOpAttributes(k, o, c)
       \/ \E old, new \in Ops : ReplaceOp(k, old, new)
       \/ \E old, new \in Values : ReplaceValueUses(k, old, new)
       \/ Settle(k)
  \/ Commit
  \/ Refuse
  \/ Finished

Spec == Init /\ [][Next]_vars

-----------------------------------------------------------------------------

ReadsLive(d) == \A o \in Ops : d.op[o].live => d.value[d.op[o].operand]

\* "so consumers don't dangle on the erased op's values" (replace_op): no live
\* op reads an erased value, in a task's store and in what the commit leaves.
NoDanglingReads == ReadsLive(db) /\ \A k \in Tasks : ReadsLive(task[k])

\* Tasks that edit rows of a function they have to themselves and replace uses
\* anywhere are never refused: a use replaced in another task's row is not an
\* edit of it.
NeverRefused == (\A k \in Tasks : Exclusive(k)) => ~refused

\* "The commit takes a chunk whole when one task wrote it and merges row by
\* row when several did" (core_ir.md): the two leave the same rows, so that
\* what a commit answers does not depend on which rows share a chunk.
ChunkingIrrelevant ==
  Editing /\ ~Overlap =>
    \A o \in Ops, k \in Tasks :
      Writers(OpChunkOf[o]) = {k} => TakenWhole(o, k) = TakenByRow(o)

\* "It rejects two tasks writing the same row" (core_ir.md), so that a commit
\* keeps what each task wrote: a changed cell, an op made or erased, and an
\* operand set to a value that no other task replaced.
NoLostEdit ==
  [][ epoch' # epoch =>
        \A k \in Tasks : \A o \in task[k].wrote :
          LET was == db.op[o]
              theirs == task[k].op[o]
              now == db'.op[o]
              kept == \A j \in Tasks \ {k} : task[j].map[theirs.operand] = theirs.operand
          IN  /\ theirs.cell # was.cell => now.cell = theirs.cell
              /\ theirs.live # was.live => now.live = theirs.live
              /\ theirs.operand # task[k].map[was.operand] /\ kept => now.operand = theirs.operand
    ]_vars

\* "a version read inside a task reads the same after the commit unless
\* another task edited under it" (merge).
VersionsKept ==
  [][ epoch' # epoch =>
        \A k \in Tasks, p \in Parts \ {0} :
          Version(db', p) = Version(task[k], p)
            <=> \A j \in Tasks : j # k => task[j].bumped \cap {p, 0} = {}
    ]_vars

IsSettled(d, p) == d.settled[p].at /\ d.settled[p].version = Version(d, p)

\* A function a pass is settled on is as that pass left it: in a task's store.
TaskSettledIsFresh ==
  Editing =>
    \A k \in Tasks, p \in Parts :
      IsSettled(task[k], p) => RowsOf(task[k], p) = task[k].settled[p].rows
=============================================================================
