----------------------------- MODULE UnionFind -----------------------------
(***************************************************************************)
(* The union-find with offsets of libs/relational/src/unionfind.rs: ids in *)
(* a forest, each at an offset from its parent.                            *)
(*                                                                         *)
(* The loops are steps: `find` climbs one edge a step, `flatten` shortens  *)
(* one path a step.  A vector of the structure is a function over Ids of   *)
(* which the first `len` entries exist; u32::MAX is MaxIds.  A mask is     *)
(* modelled by whether it is a carrier's (see Offsets): the sets that a    *)
(* client equates have the same carrier or one of them has none.           *)
(*                                                                         *)
(* `rep` and `off` are history variables: the partition that the           *)
(* equalities recorded so far describe, relabelled a set at a time.  No    *)
(* step reads them.                                                        *)
(***************************************************************************)
EXTENDS Naturals, FiniteSets, Offsets

CONSTANTS
  MaxIds,       \* bound: ids minted
  Kinds,        \* <<carrier, pin>> of the ids that a client pushes
  Extents,      \* the lengths that a client extends to
  Asks,         \* the pairs of offsets that a client equates references at
  MaxCalls      \* bound: calls of union after a clear

ASSUME MaxIdsAssumption == MaxIds \in Nat \ {0}
ASSUME MaxCallsAssumption == MaxCalls \in Nat
\* A pinned id is its carrier's zero.
ASSUME KindsAssumption == Kinds \subseteq {<<FALSE, FALSE>>, <<TRUE, FALSE>>, <<TRUE, TRUE>>}
ASSUME ExtentsAssumption == Extents \subseteq 0..MaxIds
ASSUME AsksAssumption == Asks \subseteq Values \X Values

Ids == 0..(MaxIds - 1)
Refs == [id : Ids, offset : Values]

\* flat_below when nothing was absorbed since the last flatten.
Nowhere == MaxIds

VARIABLES
  len, parent, delta, carried, pinned, conflict, shifted, flatBelow,
  pc,           \* the loop that runs, if any
  a, b,         \* the references `union` is finding: where its climb has come to
  asked,        \* the references `union` was called with
  calls,        \* calls of union since the last clear
  steps,        \* the ids `flatten` has still to point at their representative
  rep, off      \* history: the partition the equalities describe

ufvars == <<len, parent, delta, carried, pinned, conflict, shifted, flatBelow>>
loopvars == <<pc, a, b, asked, steps>>
vars == <<ufvars, loopvars, calls, rep, off>>

NoRef == [id |-> 0, offset |-> Zero]

Clear ==
  /\ len' = 0
  /\ parent' = [i \in Ids |-> i]
  /\ delta' = [i \in Ids |-> Zero]
  /\ carried' = [i \in Ids |-> FALSE]
  /\ pinned' = [i \in Ids |-> FALSE]
  /\ conflict' = [i \in Ids |-> FALSE]
  /\ shifted' = FALSE
  /\ flatBelow' = Nowhere
  /\ rep' = [i \in Ids |-> i]
  /\ off' = [i \in Ids |-> Zero]
  /\ calls' = 0
  /\ pc = "idle"
  /\ UNCHANGED loopvars

Init ==
  /\ len = 0
  /\ parent = [i \in Ids |-> i]
  /\ delta = [i \in Ids |-> Zero]
  /\ carried = [i \in Ids |-> FALSE]
  /\ pinned = [i \in Ids |-> FALSE]
  /\ conflict = [i \in Ids |-> FALSE]
  /\ shifted = FALSE
  /\ flatBelow = Nowhere
  /\ pc = "idle" /\ a = NoRef /\ b = NoRef /\ asked = <<NoRef, NoRef>> /\ steps = {}
  /\ calls = 0
  /\ rep = [i \in Ids |-> i]
  /\ off = [i \in Ids |-> Zero]

-----------------------------------------------------------------------------
\* Minting: the entry at `len` is as Clear left it but for its mask and its pin.
Push(carrier, pin) ==
  /\ pc = "idle" /\ len < MaxIds
  /\ <<carrier, pin>> \in Kinds
  /\ len' = len + 1
  /\ carried' = [carried EXCEPT ![len] = carrier]
  /\ pinned' = [pinned EXCEPT ![len] = pin]
  /\ UNCHANGED <<parent, delta, conflict, shifted, flatBelow, rep, off, calls, loopvars>>

ExtendTo(n) ==
  /\ pc = "idle" /\ len <= n
  /\ len' = n
  /\ UNCHANGED <<parent, delta, carried, pinned, conflict, shifted, flatBelow,
                 rep, off, calls, loopvars>>

-----------------------------------------------------------------------------
\* union(x, y): two finds, then the link.
Union(x, y) ==
  /\ pc = "idle"
  /\ x.id < len /\ y.id < len
  /\ <<x.offset, y.offset>> \in Asks
  /\ calls < MaxCalls /\ calls' = calls + 1
  /\ pc' = "find_a" /\ a' = x /\ b' = y /\ asked' = <<x, y>>
  /\ UNCHANGED <<ufvars, steps, rep, off>>

\* find does not add offsets up while no delta was ever set.
Fast(ref) == ~shifted /\ ref.offset = Zero

\* Mutant: a round of find that stays where it is.
ClimbedNowhere(ref, ask) == [ref EXCEPT !.offset = Plus(@, delta[ref.id])]

\* One round of find's loop for a reference that was asked for as `ask`.
Climbed(ref, ask) ==
  [id |-> parent[ref.id],
   offset |-> IF Fast(ask) THEN ref.offset ELSE Plus(ref.offset, delta[ref.id])]

\* What find returns at a representative.
Found(ref) == [id |-> ref.id, offset |-> Reduce(carried[ref.id], ref.offset)]

FindA ==
  /\ pc = "find_a"
  /\ \/ /\ parent[a.id] # a.id
        /\ a' = Climbed(a, asked[1])
        /\ UNCHANGED pc
     \/ /\ parent[a.id] = a.id
        /\ a' = Found(a)
        /\ pc' = "find_b"
  /\ UNCHANGED <<ufvars, b, asked, steps, calls, rep, off>>

FindB ==
  /\ pc = "find_b"
  /\ \/ /\ parent[b.id] # b.id
        /\ b' = Climbed(b, asked[2])
        /\ UNCHANGED pc
     \/ /\ parent[b.id] = b.id
        /\ b' = Found(b)
        /\ pc' = "link"
  /\ UNCHANGED <<ufvars, a, asked, steps, calls, rep, off>>

Return == pc' = "idle" /\ a' = NoRef /\ b' = NoRef /\ asked' = <<NoRef, NoRef>> /\ UNCHANGED <<steps, calls>>

\* Merge::Same.
Same ==
  /\ pc = "link" /\ a = b
  /\ Return /\ UNCHANGED <<ufvars, rep, off>>

\* Merge::Contradiction: one id at two offsets, or two carriers' zeros.
Contradiction ==
  /\ pc = "link"
  /\ IF a.id = b.id THEN a.offset # b.offset ELSE pinned[a.id] /\ pinned[b.id]
  /\ conflict' = [conflict EXCEPT ![a.id] = TRUE, ![b.id] = TRUE]
  /\ Return
  /\ UNCHANGED <<len, parent, delta, carried, pinned, shifted, flatBelow, rep, off>>

\* Mutant: the delta of the new edge, the other way round.
MergeSwapped(survivor, absorbed) ==
  LET mask == carried[survivor.id] \/ carried[absorbed.id]
      shift == Reduce(mask, Minus(absorbed.offset, survivor.offset))
  IN  /\ parent' = [parent EXCEPT ![absorbed.id] = survivor.id]
      /\ delta' = [delta EXCEPT ![absorbed.id] = shift]
      /\ carried' = [carried EXCEPT ![survivor.id] = mask]
      /\ conflict' = [conflict EXCEPT ![survivor.id] = @ \/ conflict[absorbed.id]]
      /\ shifted' = (shifted \/ shift # Zero)
      /\ flatBelow' = IF absorbed.id < flatBelow THEN absorbed.id ELSE flatBelow
      /\ rep' = [i \in Ids |-> IF i < len /\ rep[i] = absorbed.id THEN survivor.id ELSE rep[i]]
      /\ off' = [i \in Ids |-> IF i < len /\ rep[i] = absorbed.id
                                THEN Reduce(mask, Plus(shift, off[i])) ELSE off[i]]
      /\ UNCHANGED <<len, pinned>>

\* Merge::Merged.  The history relabels the absorbed set.
Merge(survivor, absorbed) ==
  LET mask == carried[survivor.id] \/ carried[absorbed.id]
      shift == Reduce(mask, Minus(survivor.offset, absorbed.offset))
  IN  /\ parent' = [parent EXCEPT ![absorbed.id] = survivor.id]
      /\ delta' = [delta EXCEPT ![absorbed.id] = shift]
      /\ carried' = [carried EXCEPT ![survivor.id] = mask]
      /\ conflict' = [conflict EXCEPT ![survivor.id] = @ \/ conflict[absorbed.id]]
      /\ shifted' = (shifted \/ shift # Zero)
      /\ flatBelow' = IF absorbed.id < flatBelow THEN absorbed.id ELSE flatBelow
      /\ rep' = [i \in Ids |-> IF i < len /\ rep[i] = absorbed.id THEN survivor.id ELSE rep[i]]
      /\ off' = [i \in Ids |-> IF i < len /\ rep[i] = absorbed.id
                                THEN Reduce(mask, Plus(shift, off[i])) ELSE off[i]]
      /\ UNCHANGED <<len, pinned>>

\* Mutant: the smaller id survives, zero or not.
LinkSmaller ==
  /\ pc = "link" /\ a.id # b.id
  /\ ~(pinned[a.id] /\ pinned[b.id])
  /\ \/ a.id < b.id /\ Merge(a, b)
     \/ b.id < a.id /\ Merge(b, a)
  /\ Return

Link ==
  /\ pc = "link" /\ a.id # b.id
  /\ ~(pinned[a.id] /\ pinned[b.id])
  /\ \/ (pinned[a.id] \/ (~pinned[b.id] /\ a.id < b.id)) /\ Merge(a, b)
     \/ ~(pinned[a.id] \/ (~pinned[b.id] /\ a.id < b.id)) /\ Merge(b, a)
  /\ Return

-----------------------------------------------------------------------------
\* flatten: list the ids from flat_below on whose parent is no representative,
\* then take one step for each, going up the ids.
Flatten ==
  /\ pc = "idle"
  /\ flatBelow' = Nowhere
  /\ steps' = {i \in Ids : flatBelow <= i /\ i < len /\ parent[parent[i]] # parent[i]}
  /\ pc' = "flatten"
  /\ UNCHANGED <<len, parent, delta, carried, pinned, conflict, shifted,
                 a, b, asked, calls, rep, off>>

\* Mutant: the steps going down the ids.
FlattenStepDown(i) ==
  LET root == parent[parent[i]] IN
  /\ pc = "flatten"
  /\ i \in steps /\ \A j \in steps : i >= j
  /\ delta' = IF shifted
              THEN [delta EXCEPT ![i] = Reduce(carried[root], Plus(delta[i], delta[parent[i]]))]
              ELSE delta
  /\ parent' = [parent EXCEPT ![i] = root]
  /\ steps' = steps \ {i}
  /\ UNCHANGED <<len, carried, pinned, conflict, shifted, flatBelow, pc, a, b, asked, calls, rep, off>>

FlattenStep(i) ==
  LET root == parent[parent[i]] IN
  /\ pc = "flatten"
  /\ i \in steps /\ \A j \in steps : i <= j
  /\ delta' = IF shifted
              THEN [delta EXCEPT ![i] = Reduce(carried[root], Plus(delta[i], delta[parent[i]]))]
              ELSE delta
  /\ parent' = [parent EXCEPT ![i] = root]
  /\ steps' = steps \ {i}
  /\ UNCHANGED <<len, carried, pinned, conflict, shifted, flatBelow, pc, a, b, asked, calls, rep, off>>

FlattenDone ==
  /\ pc = "flatten" /\ steps = {}
  /\ pc' = "idle"
  /\ UNCHANGED <<ufvars, a, b, asked, steps, calls, rep, off>>

Loop ==
  \/ FindA \/ FindB \/ Same \/ Contradiction \/ Link
  \/ \E i \in Ids : FlattenStep(i)
  \/ FlattenDone

Next ==
  \/ \E carrier, pin \in BOOLEAN : Push(carrier, pin)
  \/ \E n \in Extents : ExtendTo(n)
  \/ Clear
  \/ \E x, y \in Refs : Union(x, y)
  \/ Flatten
  \/ Loop

\* A call runs to its end: one thread, and nothing in it waits.
Spec == Init /\ [][Next]_vars /\ WF_vars(Loop)
-----------------------------------------------------------------------------
TypeOK ==
  /\ len \in 0..MaxIds
  /\ parent \in [Ids -> Ids]
  /\ delta \in [Ids -> Values]
  /\ carried \in [Ids -> BOOLEAN]
  /\ pinned \in [Ids -> BOOLEAN]
  /\ conflict \in [Ids -> BOOLEAN]
  /\ shifted \in BOOLEAN
  /\ flatBelow \in 0..MaxIds
  /\ pc \in {"idle", "find_a", "find_b", "link", "flatten"}
  /\ a \in Refs /\ b \in Refs /\ asked \in Refs \X Refs
  /\ steps \in SUBSET Ids
  /\ calls \in 0..MaxCalls
  /\ rep \in [Ids -> Ids]
  /\ off \in [Ids -> Values]

Live == {i \in Ids : i < len}

\* The reference `ref` as the partition places it.
Placed(ref) ==
  [id |-> rep[ref.id],
   offset |-> Reduce(carried[rep[ref.id]], Plus(ref.offset, off[ref.id]))]

\* find (also on its path that adds no offsets up) arrives at the representative
\* and the offset that all the equalities recorded so far give the reference.
FoundIsPlaced ==
  /\ pc \in {"find_b", "link"} => a = Placed(asked[1])
  /\ pc = "link" => b = Placed(asked[2])

\* The offset of a reference is one that the carrier of its set holds.
Masked(ref) == carried[rep[ref.id]] \/ ref.offset = Zero

\* A union that contradicts nothing leaves the references it was called with at one
\* place, whichever of the two sets was absorbed and whatever its carrier.
UnionEquates ==
  [][Same \/ Link =>
       \A x \in {asked[1]}, y \in {asked[2]} :
         Masked(x) /\ Masked(y) => Placed(x)' = Placed(y)']_vars

\* A set's representative is a function of the set, not of the order of the
\* merges: its zero if it has one, and it has at most one, or its smallest id.
RepresentativeOfTheSet ==
  \A i, j \in Live : rep[i] = rep[j] =>
    /\ pinned[j] => rep[i] = j
    /\ pinned[rep[i]] \/ rep[i] <= j

\* Below flat_below, so everywhere after flatten, `parents` and `deltas` are the
\* map from an id to its representative and its offset from it.
MapBelowFlat ==
  pc # "flatten" =>
    \A i \in Live : i < flatBelow =>
      /\ parent[i] = rep[i]
      /\ (IF shifted THEN delta[i] ELSE Zero) = off[i]

\* The forest with offsets implements the partition that relabels whole sets.
P == INSTANCE Partition WITH zero <- pinned, bad <- conflict
ImplementsPartition == P!Spec

\* Every find and every flatten comes to its end: no chain of parents, upward to
\* a pinned id or downward, is a cycle.
Returns == (pc # "idle") ~> (pc = "idle")
=============================================================================
