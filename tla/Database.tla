------------------------------ MODULE Database ------------------------------
(***************************************************************************)
(* The layered relational store of libs/relational/src/db.rs, as a value   *)
(* and the operations on it: the base's partition and tables, and a stack  *)
(* of layers that each see the base and the layers below them through an   *)
(* overlay and rows of their own, and are undone by closing them.          *)
(*                                                                         *)
(* The base's union-find is the partition UnionFind shows it to be: `rep`  *)
(* sends an id to the smallest of its set.  One space, one carrier and no  *)
(* pinned id, so every offset is zero and no equate is a contradiction;    *)
(* epochs, versions and statistics are left out past what they decide.     *)
(***************************************************************************)
EXTENDS Tables, FiniteSets, FiniteSetsExt

CONSTANTS
  Ids,       \* the ids that can be minted, an initial run of the positive integers
  Slots      \* the tables, a sequence of them in slot order

NoIndex == [built |-> FALSE, holders |-> {}]

Empty ==
  [len |-> 0, rep |-> [id \in Ids |-> id], live |-> 0, dirty |-> FALSE,
   holding |-> [id \in Ids |-> {}], unclean |-> {}, aged |-> FALSE, fresh |-> 1,
   changed |-> {}, marks |-> {}, all |-> TRUE,
   tables |-> [s \in Range(Slots) |-> <<>>], marked |-> [s \in Range(Slots) |-> 0],
   index |-> NoIndex, layers |-> <<>>]

Depth(db) == Len(db.layers)
Layered(db) == db.layers # <<>>
Top(db) == db.layers[Depth(db)]

------------------------------------------------------------------------------
\* Ids

\* log_change: `marks` are the ids whose mark is of the current log.
LogChanges(db, ids) == [db EXCEPT !.changed = @ \cup (ids \ db.marks), !.marks = @ \cup ids]

\* What a change of the base does to the index over the base's rows: `based` moves.
Rebased(db) == IF Layered(db) THEN db ELSE [db EXCEPT !.index = NoIndex]

Touched(db, ids) ==
  IF Layered(db) THEN [db EXCEPT !.layers[Depth(db)].touched = @ \cup ids] ELSE db

Mint(db) ==
  LET id == db.len + 1
  IN  LogChanges(Touched([db EXCEPT !.len = id, !.live = @ + 1], {id}), {id})

\* The representative as the first `depth` layers place it.  The entries of an overlay
\* form chains that find follows to the end, and `parent` keeps where they end.
RECURSIVE FindThrough(_, _, _)
FindThrough(db, id, depth) ==
  IF depth = 0 THEN db.rep[id]
  ELSE db.layers[depth].parent[FindThrough(db, id, depth - 1)]

Find(db, id) == FindThrough(db, id, Depth(db))

Placement(db) == [id \in Ids |-> Find(db, id)]

\* Space::hold
Hold(db, slot, ids) ==
  LET absorbed == {id \in ids : db.rep[id] # id}
      named == ids \cup {db.rep[id] : id \in absorbed}
  IN  [db EXCEPT !.holding = [id \in Ids |-> @[id] \cup IF id \in named THEN {slot} ELSE {}],
                 !.unclean = @ \cup IF absorbed = {} THEN {} ELSE {slot},
                 !.aged = @ \/ absorbed # {}]

\* Mutant: an id older than the epoch is absorbed and the old rows are not read again.
UnionBaseNotAged(db, survivor, absorbed) ==
  LET held == db.holding[absorbed]
  IN  [db EXCEPT !.rep = [id \in Ids |-> IF @[id] = absorbed THEN survivor ELSE @[id]],
                 !.unclean = @ \cup held,
                 !.holding[survivor] = @ \cup held]

\* Space::union: the tables naming the absorbed id are to be canonicalized, and name
\* the survivor from then on.
UnionBase(db, survivor, absorbed) ==
  LET held == db.holding[absorbed]
  IN  [db EXCEPT !.rep = [id \in Ids |-> IF @[id] = absorbed THEN survivor ELSE @[id]],
                 !.unclean = @ \cup held,
                 !.aged = @ \/ (held # {} /\ absorbed < db.fresh),
                 !.holding[survivor] = @ \cup held]

UnionInLayer(db, survivor, absorbed) ==
  [db EXCEPT !.layers[Depth(db)].parent =
               [id \in Ids |-> IF @[id] = absorbed THEN survivor ELSE @[id]],
             !.layers[Depth(db)].pending = @ \cup {absorbed}]

\* Mutant: an equate under a layer is not among what the layer touched.
EquateUntouched(db, a, b) ==
  LET x == Find(db, a)
      y == Find(db, b)
      joined == IF Layered(db) THEN UnionInLayer(db, Min({x, y}), Max({x, y}))
                ELSE UnionBase(db, Min({x, y}), Max({x, y}))
  IN  LogChanges([Rebased(joined) EXCEPT !.live = @ - 1, !.dirty = TRUE], {Min({x, y})})

\* equate, of ids that are not equal yet; the smaller representative survives.
Equate(db, a, b) ==
  LET x == Find(db, a)
      y == Find(db, b)
      survivor == Min({x, y})
      absorbed == Max({x, y})
      joined == IF Layered(db) THEN UnionInLayer(db, survivor, absorbed)
                ELSE UnionBase(db, survivor, absorbed)
  IN  LogChanges(Touched([Rebased(joined) EXCEPT !.live = @ - 1, !.dirty = TRUE], {survivor}),
                 {survivor})

------------------------------------------------------------------------------
\* Tables, as the layers read them

\* The base is side 0 and the n-th layer side n.
SideRows(db, slot, side) == IF side = 0 THEN db.tables[slot] ELSE db.layers[side].own[slot]

\* Whether a layer above `side`, of the first `depth`, holds a copy of the row.
StaleAbove(db, slot, side, row, depth) ==
  \E n \in (side + 1)..depth : <<side, slot, row>> \in db.layers[n].stale

\* The value of the row the innermost of the sides up to `depth` holds the key in, or 0.
LookupBelow(db, slot, depth, key) ==
  LET Row(side) == Get(SideRows(db, slot, side), key)
      holding == {side \in 0..depth :
                    Row(side) # 0 /\ ~StaleAbove(db, slot, side, Row(side), depth)}
  IN  IF holding = {} THEN 0
      ELSE Find(db, SideRows(db, slot, Max(holding))[Row(Max(holding))].value)

Lookup(db, slot, key) == LookupBelow(db, slot, Depth(db), key)

Insert(db, slot, row) ==
  IF Layered(db) THEN [db EXCEPT !.layers[Depth(db)].own[slot] = Append(@, row)]
  ELSE [Hold(Rebased(db), slot, Named(row)) EXCEPT !.tables[slot] = Append(@, row)]

------------------------------------------------------------------------------
\* Canonicalization

\* What a canonicalization has done so far, and what its report says.
Starting(db) == [db |-> db, moved |-> {}, rekeyed |-> {}, collisions |-> <<>>]

\* The base table at `slot` repaired, if it names an id absorbed since the last time:
\* only the rows written in this epoch when every such id is one the epoch minted.
RepairBase(step, slot) ==
  LET db == step.db
      repaired == Repair(db.tables[slot], db.marked[slot], db.rep, ~db.aged)
  IN  IF slot \notin db.unclean THEN step
      ELSE [step EXCEPT !.db.tables[slot] = repaired.rows, !.db.marked[slot] = repaired.marked,
                        !.rekeyed = @ \cup repaired.rekeyed,
                        !.collisions = @ \o repaired.collisions]

\* Mutant: the space is dirty still.
CanonicalizeBaseDirty(db) ==
  LET done == FoldLeft(RepairBase, Starting(Rebased(db)), Slots)
  IN  [db |-> LogChanges([done.db EXCEPT !.unclean = {}, !.aged = FALSE], done.rekeyed),
       collisions |-> done.collisions]

\* canonicalize_base, for a space that is dirty.
CanonicalizeBase(db) ==
  LET done == FoldLeft(RepairBase, Starting(Rebased(db)), Slots)
  IN  [db |-> LogChanges([done.db EXCEPT !.dirty = FALSE, !.unclean = {}, !.aged = FALSE],
                         done.rekeyed),
       collisions |-> done.collisions]

\* The rows of the base that name each id, kept until the base changes.
Holders(db) ==
  IF db.index.built THEN db.index.holders
  ELSE UNION {UNION {{<<id, s, row>> : id \in Named(db.tables[s][row])}
                       : row \in DOMAIN db.tables[s]} : s \in Range(Slots)}

\* Mutant: the rows of the layers between the base and the current one are not copied.
CopiesOfBase(db, pending, holders) ==
  LET Copied(slot) ==
        LET at == RowsWhere(db.tables[slot], LAMBDA row :
                    /\ \E id \in pending : <<id, slot, row>> \in holders
                    /\ ~StaleAbove(db, slot, 0, row, Depth(db)))
        IN  [n \in DOMAIN at |-> [slot |-> slot, side |-> 0, row |-> at[n]]]
  IN  FoldLeft(LAMBDA found, slot : found \o Copied(slot), <<>>, Slots)

\* copies: the lower rows that name an id the layer absorbed since its last
\* canonicalization and have no copy yet, by slot, side and row.
Copies(db, pending, holders) ==
  LET Names(side, slot, row) ==
        IF side = 0 THEN \E id \in pending : <<id, slot, row>> \in holders
        ELSE Named(SideRows(db, slot, side)[row]) \cap pending # {}
      Copied(slot, side) ==
        LET at == RowsWhere(SideRows(db, slot, side), LAMBDA row :
                    Names(side, slot, row) /\ ~StaleAbove(db, slot, side, row, Depth(db)))
        IN  [n \in DOMAIN at |-> [slot |-> slot, side |-> side, row |-> at[n]]]
      CopiedOf(found, slot) ==
        FoldLeft(LAMBDA out, n : out \o Copied(slot, n - 1), found, [n \in 1..Depth(db) |-> n])
  IN  FoldLeft(CopiedOf, <<>>, Slots)

\* rekeyed and copy_row: the copy joins the layer's own rows unless a row that is not
\* stale holds its key, which is then a collision.
CopyRow(step, copy) ==
  LET db == step.db
      old == SideRows(db, copy.slot, copy.side)[copy.row]
      new == Renamed(old, Placement(db))
      kept == Lookup(db, copy.slot, KeyOf(new))
      rekeyed == IF KeyOf(new) = KeyOf(old) THEN {} ELSE {new.value}
  IN  IF kept # 0
      THEN [step EXCEPT !.rekeyed = @ \cup rekeyed,
                        !.collisions = Append(@, [kept |-> kept, removed |-> new.value,
                                                  tag |-> new.tag])]
      ELSE [step EXCEPT !.rekeyed = @ \cup rekeyed, !.db = Insert(db, copy.slot, new)]

\* The layer's own rows of one table, through the overlay.
RepairOwn(step, slot) ==
  LET repaired == Repair(Top(step.db).own[slot], 0, Placement(step.db), FALSE)
  IN  [step EXCEPT !.db.layers[Depth(step.db)].own[slot] = repaired.rows,
                   !.moved = @ \cup repaired.moved,
                   !.rekeyed = @ \cup repaired.rekeyed,
                   !.collisions = @ \o repaired.collisions]

\* Mutant: an own row that comes to read as a lower row is left.
CollideWithNone(step, slot) == step

\* collide_with_lower: an own row moved now may read as a lower row.
CollideWithLower(step, slot) ==
  LET own == Top(step.db).own[slot]
      Kept(row) == LookupBelow(step.db, slot, Depth(step.db) - 1, KeyOf(own[row]))
      at == RowsWhere(own, LAMBDA row : own[row] \in step.moved /\ Kept(row) # 0)
  IN  [step EXCEPT !.collisions = @ \o [n \in DOMAIN at |->
         [kept |-> Kept(at[n]), removed |-> own[at[n]].value, tag |-> own[at[n]].tag]]]

\* Once the own rows are repaired the lower rows to copy are stale, and copied.
CopyAll(own, copies) ==
  LET stale == {<<copies[n].side, copies[n].slot, copies[n].row>> : n \in DOMAIN copies}
  IN  FoldLeft(CopyRow, [own EXCEPT !.db.layers[Depth(own.db)].stale = @ \cup stale], copies)

Reported(done) ==
  [db |-> LogChanges(Touched(done.db, done.rekeyed), done.rekeyed), collisions |-> done.collisions]

\* What is left to do of a canonicalization is taken off the layer.
Started(db, holders) ==
  [db EXCEPT !.dirty = FALSE,
             !.index = IF Top(db).pending = {} THEN @ ELSE [built |-> TRUE, holders |-> holders],
             !.layers[Depth(db)].pending = {}]

CanonicalizeWith(db, holders) ==
  Reported(CopyAll(FoldLeft(CollideWithLower,
                            FoldLeft(RepairOwn, Starting(Started(db, holders)), Slots), Slots),
                   Copies(db, Top(db).pending, holders)))

\* canonicalize_layer, for a space that is dirty: the own rows are repaired, and the
\* lower rows that name an id just absorbed are stale from here on and copied.
CanonicalizeLayer(db) ==
  CanonicalizeWith(db, IF Top(db).pending = {} THEN {} ELSE Holders(db))

Canonicalize(db) == IF Layered(db) THEN CanonicalizeLayer(db) ELSE CanonicalizeBase(db)

------------------------------------------------------------------------------
\* Epochs and the change log

\* advance: what is still to be canonicalized names ids of the epoch that just closed.
Advance(db) ==
  [db EXCEPT !.aged = @ \/ db.unclean # {},
             !.fresh = db.len + 1,
             !.marked = [s \in Range(Slots) |-> Len(db.tables[s])]]

TakeChanged(db) == [db EXCEPT !.all = FALSE, !.changed = {}, !.marks = {}]

------------------------------------------------------------------------------
\* Layers

PushLayer(db) ==
  [db EXCEPT !.layers = Append(@,
     [parent |-> [id \in Ids |-> id], pending |-> {}, own |-> [s \in Range(Slots) |-> <<>>],
      saved |-> [live |-> db.live, dirty |-> db.dirty, changed |-> db.changed, all |-> db.all],
      touched |-> {}, stale |-> {}])]

\* Mutant: the log put back keeps the marks of the layer's.
PopLayerMarked(db) ==
  [db EXCEPT !.layers = Front(@), !.live = Top(db).saved.live, !.dirty = Top(db).saved.dirty,
             !.changed = Top(db).saved.changed, !.all = Top(db).saved.all]

\* The rows and equalities of the layer go, and the log put back marks its own ids.
PopLayer(db) ==
  [db EXCEPT !.layers = Front(@), !.live = Top(db).saved.live, !.dirty = Top(db).saved.dirty,
             !.changed = Top(db).saved.changed, !.all = Top(db).saved.all,
             !.marks = Top(db).saved.changed]

------------------------------------------------------------------------------
\* Reading upward

\* One step of close_upward: from an id to the values of the rows holding it as operand.
\* The base's rows are read by the representative, and by the ids a layer absorbed since
\* its last canonicalization; a layer's own rows as they are written.
Upward(db, ids) ==
  LET standing == {id \in Ids : Find(db, id) \in ids
                     /\ \/ id \in ids
                        \/ \E n \in DOMAIN db.layers : id \in db.layers[n].pending}
      Values(rows, children) == {rows[r].value : r \in {q \in DOMAIN rows :
                                                          rows[q].operand \in children}}
      Base(s) == IF db.dirty /\ ~Layered(db)
                 THEN [r \in DOMAIN db.tables[s] |-> Renamed(db.tables[s][r], db.rep)]
                 ELSE db.tables[s]
      above == UNION {Values(Base(s), standing)
                      \cup UNION {Values(db.layers[n].own[s], ids) : n \in DOMAIN db.layers}
                        : s \in Range(Slots)}
  IN  ids \cup {Find(db, id) : id \in above}

CloseUpward(db, seeds) ==
  FoldLeft(LAMBDA reached, n : Upward(db, reached), {Find(db, id) : id \in seeds},
           [n \in 1..Cardinality(Ids) |-> n])
=============================================================================
