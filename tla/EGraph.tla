------------------------------- MODULE EGraph -------------------------------
(***************************************************************************)
(* The e-graph engine of libs/egraph/src/engine.rs over the layered store  *)
(* of Database: e-nodes are hash-consed into classes, classes are united,  *)
(* a rebuild restores congruence pass by pass, contexts are pushed and     *)
(* popped, a program is seeded in batches, and a driver drains the change  *)
(* log.                                                                    *)
(*                                                                         *)
(* Labels are leaves or take one operand, and none is a constant, has a    *)
(* law, commutes or is unique.  A class's intrusive list of e-nodes is the *)
(* sequence it spells.  `history` is not state of the code: per open       *)
(* context it records what was said, for the properties to be about.       *)
(***************************************************************************)
EXTENDS Database

CONSTANTS
  Leaves, Unaries,   \* the labels with no operand and with one
  MaxDepth,          \* how many contexts may be open
  MaxEquations       \* how many unions a history may record

Labels == Leaves \cup Unaries
SlotOf(label) == IF label \in Leaves THEN "leaf" ELSE "unary"

VARIABLES
  db,        \* the database
  nodes,     \* per e-node its label, its operand and the class minted for it
  lists,     \* per class, its e-nodes in order
  members,   \* per open context, per class the classes it groups; <<>> where it merged none
  opened,    \* per open context, how many e-nodes and classes there were
  waiting,   \* per label, the reserved classes whose rows are not stored yet
  pc,        \* what runs: "idle", or a rebuild for one of its three callers
  left,      \* the e-nodes a seeding rebuild found congruent to others
  history

vars == <<db, nodes, lists, members, opened, waiting, pc, left, history>>

Said == history[Len(history)]

\* The classes the open contexts minted, which are those a caller holds.
Held == Said.ids

Root(id) == Find(db, id)

Key(label, operand) ==
  [label |-> label, operand |-> IF operand = NoOperand THEN NoOperand ELSE Root(operand)]

Operands(label) == IF label \in Leaves THEN {NoOperand} ELSE Held

Init ==
  /\ db = Empty
  /\ nodes = <<>>
  /\ lists = [id \in Ids |-> <<>>]
  /\ members = <<>>
  /\ opened = <<>>
  /\ waiting = [label \in Labels |-> <<>>]
  /\ pc = "idle"
  /\ left = <<>>
  /\ history = <<[ids |-> {}, terms |-> {}, equations |-> {}, mixed |-> FALSE, drained |-> {}]>>

\* The history with its innermost entry replaced.
Saying(said) == [history EXCEPT ![Len(history)] = said]

Term(label, operand, class) == [label |-> label, operand |-> operand, class |-> class]

------------------------------------------------------------------------------
\* Interning

\* list_node: the e-node goes to the end of the class's list.
ListNode(listed, class, node) == [listed EXCEPT ![class] = Append(@, node)]

\* add and insert_canonical, for a key no row holds: a class minted, its row stored
\* and its e-node listed.
Add(label, operand) ==
  LET key == Key(label, operand)
      class == db.len + 1
      tag == Len(nodes) + 1
  IN  /\ pc = "idle"
      /\ class \in Ids
      /\ Lookup(db, SlotOf(label), key) = 0
      /\ db' = Insert(Mint(db), SlotOf(label),
                      [label |-> label, operand |-> key.operand, value |-> class, tag |-> tag])
      /\ nodes' = Append(nodes, Term(label, key.operand, class))
      /\ lists' = ListNode(lists, class, tag)
      /\ history' = Saying([Said EXCEPT !.ids = @ \cup {class}, !.mixed = TRUE,
                                        !.terms = @ \cup {Term(label, key.operand, class)}])
      /\ UNCHANGED <<members, opened, waiting, pc, left>>

\* reserve_class: a class ahead of its row, for the batch of its label.
Reserve(label, operand) ==
  LET class == db.len + 1
  IN  /\ pc = "idle"
      /\ ~Layered(db)
      /\ class \in Ids
      /\ db' = Mint(db)
      /\ waiting' = [waiting EXCEPT ![label] =
                       Append(@, [operand |-> operand, class |-> class])]
      /\ history' = Saying([Said EXCEPT !.ids = @ \cup {class}])
      /\ UNCHANGED <<nodes, lists, members, opened, pc, left>>

------------------------------------------------------------------------------
\* Uniting

\* An engine being written: the state `union` reads and writes.
Engine == [db |-> db, lists |-> lists, members |-> members]

\* splice_class
SpliceClass(listed, survivor, absorbed) ==
  [listed EXCEPT ![survivor] = @ \o listed[absorbed], ![absorbed] = <<>>]

\* Mutant: under a context too the absorbed class's list is spliced.
UnionSplices(engine, a, b) ==
  LET x == Find(engine.db, a)
      y == Find(engine.db, b)
  IN  IF x = y THEN engine
      ELSE [engine EXCEPT
              !.db = Equate(engine.db, a, b),
              !.lists = SpliceClass(@, Min({x, y}), Max({x, y}))]

\* union: below the contexts the absorbed class's list is spliced after the survivor's;
\* under one the classes it groups are noted instead.
Union(engine, a, b) ==
  LET x == Find(engine.db, a)
      y == Find(engine.db, b)
      survivor == Min({x, y})
      absorbed == Max({x, y})
      top == Len(engine.members)
      Group(class) == IF engine.members[top][class] = <<>> THEN <<class>>
                      ELSE engine.members[top][class]
  IN  IF x = y THEN engine
      ELSE IF Layered(engine.db)
      THEN [engine EXCEPT
              !.db = Equate(engine.db, a, b),
              !.members[top] = [@ EXCEPT ![survivor] = Group(survivor) \o Group(absorbed),
                                         ![absorbed] = <<>>]]
      ELSE [engine EXCEPT
              !.db = Equate(engine.db, a, b),
              !.lists = SpliceClass(@, survivor, absorbed)]

UnionAll(engine, collisions) ==
  FoldLeft(LAMBDA e, c : Union(e, c.kept, c.removed), engine, collisions)

Unite(a, b) ==
  LET united == Union(Engine, a, b)
  IN  /\ pc = "idle"
      /\ Root(a) # Root(b)
      /\ Cardinality(Said.equations) < MaxEquations
      /\ db' = united.db
      /\ lists' = united.lists
      /\ members' = united.members
      /\ history' = Saying([Said EXCEPT !.equations = @ \cup {{Root(a), Root(b)}}, !.mixed = TRUE])
      /\ UNCHANGED <<nodes, opened, waiting, pc, left>>

\* probe_or_insert, for one node of a batch: its row, or the value of the row that holds
\* its key.
ProbeOrInsert(step, node) ==
  LET slot == SlotOf(node.label)
      row == Get(step.db.tables[slot], KeyOf(node))
  IN  IF row # 0
      THEN [step EXCEPT !.found = Append(@, step.db.tables[slot][row].value)]
      ELSE [step EXCEPT !.found = Append(@, 0), !.tag = @ + 1,
                        !.db = Insert(@, slot, [label |-> node.label, operand |-> node.operand,
                                                value |-> node.class, tag |-> step.tag])]

\* Mutant: a node whose key a row holds is not united with it.
ListOrDrop(step, node, found) ==
  IF found # 0 THEN step
  ELSE [step EXCEPT
          !.nodes = Append(@, node),
          !.engine.lists = ListNode(@, Find(step.engine.db, node.class), Len(step.nodes) + 1)]

\* What insert_rows does with one node once the batch is stored: list it with the class
\* it is by now, or unite it with the row that holds its key.
ListOrUnite(step, node, found) ==
  IF found # 0 THEN [step EXCEPT !.engine = Union(@, node.class, found)]
  ELSE [step EXCEPT
          !.nodes = Append(@, node),
          !.engine.lists = ListNode(@, Find(step.engine.db, node.class), Len(step.nodes) + 1)]

\* insert_rows: the batch of one label, each node keyed over its operands as they are now.
StoreBatch(label) ==
  LET batch == [n \in DOMAIN waiting[label] |->
                  Term(label, Key(label, waiting[label][n].operand).operand,
                       waiting[label][n].class)]
      stored == FoldLeft(ProbeOrInsert, [db |-> Rebased(db), tag |-> Len(nodes) + 1,
                                         found |-> <<>>], batch)
      done == FoldLeft(LAMBDA step, n : ListOrUnite(step, batch[n], stored.found[n]),
                       [engine |-> [Engine EXCEPT !.db = stored.db], nodes |-> nodes],
                       [n \in DOMAIN batch |-> n])
  IN  /\ pc = "idle"
      /\ batch # <<>>
      /\ ~Layered(db)
      /\ db' = done.engine.db
      /\ lists' = done.engine.lists
      /\ nodes' = done.nodes
      /\ waiting' = [waiting EXCEPT ![label] = <<>>]
      /\ history' = Saying([Said EXCEPT !.terms = @ \cup Range(batch)])
      /\ UNCHANGED <<members, opened, pc, left>>

------------------------------------------------------------------------------
\* Rebuilding

\* Whether `caller` may run a rebuild or go on with its own; the batches are stored first.
MayRebuild(caller) ==
  \/ pc = caller
  \/ /\ pc = "idle"
     /\ \A label \in Labels : waiting[label] = <<>>
     /\ caller = "seeded" => ~Layered(db)
     /\ caller = "push" => Depth(db) < MaxDepth

\* One turn of the loop of rebuild_listing, for rebuild, push_context or rebuild_seeded:
\* canonicalize, then unite the values of the rows that came to share a key.
Pass(callers) ==
  \E report \in {Canonicalize(db)}, caller \in callers :
    \E united \in {UnionAll([Engine EXCEPT !.db = report.db], report.collisions)} :
      /\ db.dirty
      /\ MayRebuild(caller)
      /\ db' = united.db
      /\ lists' = united.lists
      /\ members' = united.members
      /\ left' = IF caller = "seeded"
                 THEN left \o [n \in DOMAIN report.collisions |-> report.collisions[n].tag]
                 ELSE left
      /\ pc' = IF caller = "rebuild" /\ ~united.db.dirty THEN "idle" ELSE caller
      /\ history' = Saying([Said EXCEPT !.mixed = @ \/ caller # "seeded"])
      /\ UNCHANGED <<nodes, opened, waiting>>

\* Mutant: the e-node of the removed row goes, whichever came first.
UnlistRemoved(step, node) == [step EXCEPT !.gone = @ \cup {node}]

\* Of two congruent e-nodes the one minted with the lower class stays, as the row's too.
\* `step` is the tables and the e-nodes gone so far.
UnlistOne(step, node) ==
  LET slot == SlotOf(nodes[node].label)
      at == Get(step.tables[slot], Key(nodes[node].label, nodes[node].operand))
      kept == step.tables[slot][at].tag
  IN  IF at # 0 /\ nodes[node].class < nodes[kept].class
      THEN [tables |-> [step.tables EXCEPT ![slot][at].tag = node], gone |-> step.gone \cup {kept}]
      ELSE [step EXCEPT !.gone = @ \cup {node}]

\* unlist
Unlist ==
  LET unlisted == FoldLeft(UnlistOne, [tables |-> db.tables, gone |-> {}], left)
      classes == {Root(nodes[n].class) : n \in unlisted.gone}
  IN  /\ pc = "seeded"
      /\ ~db.dirty
      /\ db' = [db EXCEPT !.tables = unlisted.tables]
      /\ lists' = [id \in Ids |-> IF id \in classes
                     THEN SelectSeq(lists[id], LAMBDA n : n \notin unlisted.gone)
                     ELSE lists[id]]
      /\ left' = <<>>
      /\ pc' = "idle"
      /\ UNCHANGED <<nodes, members, opened, waiting, history>>

------------------------------------------------------------------------------
\* Contexts

\* The end of push_context: the layer opens on what the rebuild left.
Open ==
  /\ MayRebuild("push")
  /\ ~db.dirty
  /\ members' = Append(members, IF members = <<>> THEN [id \in Ids |-> <<>>] ELSE Last(members))
  /\ opened' = Append(opened, [nodes |-> Len(nodes), classes |-> db.len])
  /\ db' = PushLayer(db)
  /\ history' = Append(history, Said)
  /\ pc' = "idle"
  /\ UNCHANGED <<nodes, lists, waiting, left>>

\* pop_context: the classes the layer minted keep their ids and lose their e-nodes.
PopContext ==
  /\ pc = "idle"
  /\ Layered(db)
  /\ db' = PopLayer(db)
  /\ members' = Front(members)
  /\ opened' = Front(opened)
  /\ lists' = [id \in Ids |-> IF id > Last(opened).classes THEN <<>> ELSE lists[id]]
  /\ nodes' = SubSeq(nodes, 1, Last(opened).nodes)
  /\ history' = Front(history)
  /\ UNCHANGED <<waiting, pc, left>>

------------------------------------------------------------------------------
\* The change log

\* What a class is: its e-nodes over the representatives of their operands.
KeyOfNode(n) == Key(nodes[n].label, nodes[n].operand)
Shapes == {<<Root(nodes[n].class), KeyOfNode(n)>> : n \in DOMAIN nodes}

ShapesOf(shapes, id) == {shape \in shapes : shape[1] = id}

\* take_changed, by a driver, which is handed a graph whose batches are stored.
Drain ==
  /\ pc = "idle"
  /\ \A label \in Labels : waiting[label] = <<>>
  /\ db' = TakeChanged(Advance(db))
  /\ history' = Saying([Said EXCEPT !.drained = Shapes])
  /\ UNCHANGED <<nodes, lists, members, opened, waiting, pc, left>>

Writing ==
  \/ \E label \in Labels : \E operand \in Operands(label) : Add(label, operand)
  \/ \E a, b \in Held : a < b /\ Unite(a, b)

\* A driver: it writes, opens and closes contexts and drains the log.
Next ==
  \/ Writing
  \/ Pass({"rebuild", "push"}) \/ Open \/ PopContext
  \/ Drain

Spec == Init /\ [][Next]_vars

\* The seeding of a graph, which is over before a context opens or the log is drained.
NextSeeding ==
  \/ Writing
  \/ \E label \in Labels : \E operand \in Operands(label) : Reserve(label, operand)
  \/ \E label \in Labels : StoreBatch(label)
  \/ Pass({"rebuild", "seeded"}) \/ Unlist

SpecSeeding == Init /\ [][NextSeeding]_vars

------------------------------------------------------------------------------
\* What the engine owes its callers

\* Congruence closure by its definition: merge classes that an equation or two terms
\* over merged operands say are one, until none are left.
RECURSIVE Close(_, _, _)
Close(map, terms, equations) ==
  LET Of(operand) == IF operand = NoOperand THEN NoOperand ELSE map[operand]
      owed == {e \in equations : Cardinality({map[id] : id \in e}) > 1}
              \cup {{t.class, u.class} : <<t, u>> \in {pair \in terms \X terms :
                      /\ pair[1].class < pair[2].class
                      /\ pair[1].label = pair[2].label
                      /\ map[pair[1].class] # map[pair[2].class]
                      /\ Of(pair[1].operand) = Of(pair[2].operand)}}
      merged == {map[id] : id \in CHOOSE e \in owed : TRUE}
  IN  IF owed = {} THEN map
      ELSE Close(FoldSet(LAMBDA id, m : [m EXCEPT ![id] = Min(merged)], map,
                         {id \in DOMAIN map : map[id] \in merged}), terms, equations)

Closure == Close([id \in Held |-> id], Said.terms, Said.equations)

Clean == pc = "idle" /\ ~db.dirty

\* The classes that stand for others or themselves.
Roots == {Root(id) : id \in Held}

\* The e-nodes of a class as `rows` walks them: under a context its members' lists.
RowsOf(root) ==
  IF members = <<>> \/ Last(members)[root] = <<>> THEN lists[root]
  ELSE FoldLeft(LAMBDA rows, member : rows \o lists[member], <<>>, Last(members)[root])

Sides == 0..Depth(db)

\* The rows a search reads, with the table and the side each is in.
Visible ==
  UNION {UNION {{SideRows(db, s, side)[row] : row \in
           {r \in DOMAIN SideRows(db, s, side) : ~StaleAbove(db, s, side, r, Depth(db))}}
             : s \in Range(Slots)} : side \in Sides}

\* At every moment, mid-rebuild included and whatever contexts were opened and closed,
\* two classes are one only if the unions and e-nodes of the open contexts say so, and
\* after a rebuild whenever they do, with the smallest class standing for the set.
Congruent ==
  LET closure == Closure
      root == [id \in Held |-> Root(id)]
  IN  \A id \in Held :
        /\ root[id] \in Held /\ closure[root[id]] = closure[id]
        /\ Clean => root[id] = closure[id]

\* After a rebuild a probe finds an e-node exactly when a congruent one was added in an
\* open context, and answers its class: nothing is minted twice, nothing of a closed
\* context answers, and no copy of a row hides or outlives the row.
HashConsed ==
  LET closure == Closure
      Of(operand) == IF operand = NoOperand THEN NoOperand ELSE closure[operand]
      Told(label, operand) == {closure[t.class] : t \in {u \in Said.terms :
                                 u.label = label /\ Of(u.operand) = Of(operand)}}
  IN  Clean => \A label \in Labels : \A operand \in Operands(label) :
        LET found == Lookup(db, SlotOf(label), Key(label, operand))
        IN  Told(label, operand) = IF found = 0 THEN {} ELSE {found}

\* After a rebuild every row a search reads names classes by their representatives,
\* the rows repair was told it need not look at included.
RowsCanonical == Clean => \A row \in Visible : \A id \in Named(row) : Root(id) = id

\* num_classes counts the classes of the open contexts, through every union, rebuild and
\* closed context; every class walks each of its e-nodes once and no other class's, and
\* one a seeding rebuild took off the list has a congruent e-node on it.
Listed ==
  /\ db.live = Cardinality(Roots)
  /\ \A root \in Roots :
       /\ IsInjective(RowsOf(root))
       /\ \A n \in Range(RowsOf(root)) : n \in DOMAIN nodes /\ Root(nodes[n].class) = root
       /\ pc = "idle" =>
            ShapesOf(Shapes, root) = {<<root, KeyOfNode(n)>> : n \in Range(RowsOf(root))}

\* A program seeded in batches, in whatever order its labels are stored, is the graph
\* that inserting its nodes one at a time gives: each class has one e-node, the first
\* of the congruent ones in the order the classes were reserved.
SeededLikeOneAtATime ==
  (Clean /\ ~Said.mixed /\ \A label \in Labels : waiting[label] = <<>>) =>
    \A root \in Roots : Len(RowsOf(root)) = 1 /\ nodes[RowsOf(root)[1]].class = root

\* A class whose e-nodes read otherwise than when the log was last drained in this
\* context is in the log, whatever was drained or logged in contexts closed since.
ChangeLogged ==
  Clean /\ ~db.all => \A root \in Roots :
    ShapesOf(Shapes, root) # ShapesOf(Said.drained, root)
      => root \in {Find(db, id) : id \in db.changed}

\* A class scope_dirty leaves out has the downward cone it had when the outermost
\* context opened.
ScopeDirty == CloseUpward(db, UNION {db.layers[n].touched : n \in DOMAIN db.layers})

ShapesBelow ==
  {<<db.rep[nodes[n].class],
     [label |-> nodes[n].label,
      operand |-> IF nodes[n].operand = NoOperand THEN NoOperand ELSE db.rep[nodes[n].operand]]>>
     : n \in 1..opened[1].nodes}

OutsideScopeUnchanged ==
  Clean /\ Layered(db) => \A root \in Roots \ ScopeDirty :
    /\ ShapesOf(Shapes, root) = ShapesOf(ShapesBelow, root)
    /\ \A shape \in ShapesOf(Shapes, root) : shape[2].operand \notin ScopeDirty

\* A rebuild ends: a pass that leaves the graph dirty has merged classes, so there are at
\* most as many passes as classes.
PassesMerge == [][db.dirty /\ pc' # "idle" /\ db'.dirty => db'.live < db.live]_vars
=============================================================================
