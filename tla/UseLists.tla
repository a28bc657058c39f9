------------------------------ MODULE UseLists ------------------------------
(***************************************************************************)
(* The use lists of one partition of core/src/store.rs: a Grouping         *)
(* (libs/relational/src/grouping.rs) over the operand rows of its ops.     *)
(* Nothing is grouped when an op is written: the row is stamped with the   *)
(* store's tick and, when the stamp moved, logged.  A lookup first brings  *)
(* the grouping up to date from the log, then reads the entries of a       *)
(* sorted base whose owner was not written since the base was built, and   *)
(* the entries of a tail that holds the others.                            *)
(*                                                                         *)
(* The sorted arrays are sets of entries here; that a lookup lists no      *)
(* entry twice is a property.  The result lists of regions are the same    *)
(* structure over other rows.                                              *)
(***************************************************************************)
EXTENDS Integers, FiniteSets

CONSTANTS
  Owners,                           \* the op ids of the partition
  Cells,                            \* the values an operand may name
  MaxOperands,                      \* bound: operands of an op
  MinTail,                          \* MIN_TAIL
  Divisor,                          \* REBUILD_DIVISOR
  MaxTick,                          \* bound: how far the store's tick runs
  NotBuilt                          \* the None of `built`

ASSUME SizeAssumption ==
  /\ MaxOperands \in Nat
  /\ MinTail \in Nat
  /\ Divisor \in Nat \ {0}
  /\ MaxTick \in Nat \ {0}
  /\ NotBuilt \notin Nat

VARIABLES
  row,                              \* per op: its operands, as index and value
  live,                             \* the ops minted and not erased
  minted,                           \* the ops minted
  stamp,                            \* per op: the tick it was last written at
  log,                              \* op_log, as the set of ops in it
  tick,                             \* the store's tick
  base, built, tail                 \* the Grouping

vars == <<row, live, minted, stamp, log, tick, base, built, tail>>

\* The operands of an op.
Rows == UNION {[1 .. n -> Cells] : n \in 0 .. MaxOperands}

Entries == Cells \X Owners \X (1 .. MaxOperands)

\* UseRows::entries: what an op contributes now, nothing once it is erased.
EntriesOf(o) == IF o \in live THEN {<<row[o][i], o, i>> : i \in DOMAIN row[o]} ELSE {}

Init ==
  /\ row = [o \in Owners |-> <<>>]
  /\ live = {} /\ minted = {}
  /\ stamp = [o \in Owners |-> 0]
  /\ log = {}
  /\ tick = 1
  /\ base = {} /\ built = NotBuilt /\ tail = {}

-----------------------------------------------------------------------------
(* Writes. *)

\* add_operation: mint_op stamps the new row and logs it.
AddOperation(o, cells) ==
  /\ o \notin minted
  /\ minted' = minted \cup {o} /\ live' = live \cup {o}
  /\ row' = [row EXCEPT ![o] = cells]
  /\ stamp' = [stamp EXCEPT ![o] = tick]
  /\ log' = log \cup {o}
  /\ UNCHANGED <<tick, base, built, tail>>

\* op_row: the row is stamped, and logged when the stamp moved.
Written(o) ==
  /\ stamp' = [stamp EXCEPT ![o] = tick]
  /\ log' = IF stamp[o] # tick THEN log \cup {o} ELSE log

\* set_operand and splice_operands on a live op.
SetOperands(o, cells) ==
  /\ o \in live
  /\ row' = [row EXCEPT ![o] = cells]
  /\ Written(o)
  /\ UNCHANGED <<live, minted, tick, base, built, tail>>

\* kill_op: the row keeps its operands.
KillOp(o) ==
  /\ o \in live
  /\ live' = live \ {o}
  /\ Written(o)
  /\ UNCHANGED <<row, minted, tick, base, built, tail>>

-----------------------------------------------------------------------------
(* Lookups. *)

\* stale_part: the grouping is built and has read the whole log.
IsCurrent == built # NotBuilt /\ log = {}

\* Grouping::rebuild
Rebuilt == [base |-> UNION {EntriesOf(o) : o \in Owners}, built |-> tick, tail |-> {}]

\* The tail with the entries of the logged ops as they stand.
Tailed == {e \in tail : e[2] \notin log} \cup UNION {EntriesOf(o) : o \in log}

\* Mutant: the fold takes the whole base.
StandingAll(b, at) == b

\* The base entries of the ops not written since the base was built.
Standing(b, at) == {e \in b : stamp[e[2]] <= at}

IsLong(t) == Cardinality(t) > MinTail /\ Cardinality(t) > Cardinality(base) \div Divisor

\* Mutant: a fold that leaves the stamp of the base.
FoldedOld(t) == [base |-> Standing(base, built) \cup t, built |-> built, tail |-> {}]

\* Grouping::fold: what a lookup reads is the new base.
Folded(t) == [base |-> Standing(base, built) \cup t, built |-> tick, tail |-> {}]

\* Grouping::refresh
Refreshed ==
  IF built = NotBuilt THEN Rebuilt
  ELSE IF IsLong(Tailed) THEN Folded(Tailed)
  ELSE [base |-> base, built |-> built, tail |-> Tailed]

\* No row is stamped later than the base yet; every later write must be.
Ticked == tick' = tick + 1

\* refresh_uses, which does nothing to a current grouping; uses and is_used
\* read the grouping it leaves.
RefreshUses ==
  /\ ~IsCurrent
  /\ base' = Refreshed.base /\ built' = Refreshed.built /\ tail' = Refreshed.tail
  /\ log' = {}
  /\ Ticked
  /\ UNCHANGED <<row, live, minted, stamp>>

\* Another grouping of the store is refreshed: the tick is the store's.
RefreshOther ==
  /\ tick' = tick + 1
  /\ UNCHANGED <<row, live, minted, stamp, log, base, built, tail>>

-----------------------------------------------------------------------------
(* Epochs. *)

\* Db::commit: the operands of erased rows may be dropped, and the tick moves.
Commit(compacts) ==
  /\ row' = [o \in Owners |-> IF compacts /\ o \in minted \ live THEN <<>> ELSE row[o]]
  /\ tick' = tick + 1
  /\ UNCHANGED <<live, minted, stamp, log, base, built, tail>>

\* Part::forget: the next refresh builds the base.
Forgotten ==
  /\ log' = {}
  /\ built' = NotBuilt /\ tail' = {}
  /\ UNCHANGED base

\* Db::merge over a partition a batch wrote: the batch made, edited or erased
\* the op at some tick of its own, or the op only has its uses replayed.
Merge(o, cells, lives, until) ==
  /\ until >= tick
  /\ o \in live \/ o \notin minted
  /\ \/ o \in live /\ lives /\ stamp' = stamp
     \/ \E at \in tick .. until : stamp' = [stamp EXCEPT ![o] = at]
  /\ row' = [row EXCEPT ![o] = cells]
  /\ live' = IF lives THEN live \cup {o} ELSE live \ {o}
  /\ minted' = minted \cup {o}
  /\ tick' = until + 1
  /\ Forgotten

Next ==
  /\ tick < MaxTick
  /\ \/ \E o \in Owners, cells \in Rows :
          \/ AddOperation(o, cells)
          \/ SetOperands(o, cells)
          \/ \E lives \in BOOLEAN, until \in 1 .. MaxTick - 1 : Merge(o, cells, lives, until)
     \/ \E o \in Owners : KillOp(o)
     \/ RefreshUses
     \/ RefreshOther
     \/ \E compacts \in BOOLEAN : Commit(compacts)

Spec == Init /\ [][Next]_vars

-----------------------------------------------------------------------------

TypeOK ==
  /\ row \in [Owners -> Rows]
  /\ live \subseteq minted /\ minted \subseteq Owners
  /\ stamp \in [Owners -> 0 .. tick]
  /\ log \subseteq minted
  /\ tick \in 1 .. MaxTick
  /\ base \subseteq Entries /\ tail \subseteq Entries
  /\ built = NotBuilt \/ built \in 1 .. tick - 1

\* Grouping::read of a refreshed grouping, and what it reads from where.
BaseRead(c) == {e \in Standing(base, built) : e[1] = c}
TailRead(c) == {e \in tail : e[1] = c}

\* "Whatever was written between lookups, a lookup answers exactly the entries
\* holding the cell" (the property test of grouping.rs): uses and is_used of
\* a current partition answer the operands its live ops hold, through writes,
\* erasures, commits and merges between lookups.
LookupExact ==
  IsCurrent => \A c \in Cells :
    BaseRead(c) \cup TailRead(c) = {e \in UNION {EntriesOf(o) : o \in Owners} : e[1] = c}

\* A lookup lists no use twice: replace_value_uses sets each operand once.
ReadsOnce ==
  built # NotBuilt => \A e \in tail : e \notin Standing(base, built) \/ e[2] \in log

\* Why a lookup is exact, for a grouping that is built: an op not
\* written since is as the base has it and nowhere else, an op written since
\* is as the tail has it or is logged, and an op written at this tick is logged,
\* since writing it again does not log it.
BaseStands ==
  built # NotBuilt => \A o \in Owners : stamp[o] <= built =>
    /\ {e \in base : e[2] = o} = EntriesOf(o)
    /\ {e \in tail : e[2] = o} = {}
    /\ o \notin log

TailStands ==
  built # NotBuilt => \A o \in Owners : stamp[o] > built =>
    o \in log \/ {e \in tail : e[2] = o} = EntriesOf(o)

LoggedNow == \A o \in Owners : built # NotBuilt /\ stamp[o] = tick => o \in log

GroupingStands == BaseStands /\ TailStands /\ LoggedNow
=============================================================================
