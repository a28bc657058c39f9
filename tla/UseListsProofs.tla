--------------------------- MODULE UseListsProofs ---------------------------
(* The use lists of a partition answer exactly the operands of its live    *)
(* ops, for every number of ops, values and operands, every MIN_TAIL and   *)
(* REBUILD_DIVISOR.  The inductive invariant is TypeOK /\ GroupingStands:  *)
(* LookupExact speaks of current groupings only, and what a stale one      *)
(* holds decides what the next refresh makes of it.                        *)
EXTENDS UseLists, TLAPS

IInv == TypeOK /\ GroupingStands

\* The entries of one op among a set of entries.
Of(es, o) == {e \in es : e[2] = o}

\* UseRows::entries yields entries of the op, with indices within bounds.
LEMMA EntriesTyped ==
  ASSUME TypeOK, NEW o \in Owners
  PROVE  EntriesOf(o) \subseteq Entries /\ \A e \in EntriesOf(o) : e[2] = o
<1>1. PICK n \in 0 .. MaxOperands : row[o] \in [1 .. n -> Cells]
  BY DEF TypeOK, Rows
<1>2. \A i \in DOMAIN row[o] : row[o][i] \in Cells /\ i \in 1 .. MaxOperands
  BY <1>1, SizeAssumption
<1> QED
  BY <1>2 DEF EntriesOf, Entries

\* An op whose row, or whose being erased, does not change yields what it did.
LEMMA EntriesKept ==
  ASSUME NEW o, (o \in live') <=> (o \in live), o \in live => row'[o] = row[o]
  PROVE  EntriesOf(o)' = EntriesOf(o)
BY DEF EntriesOf

\* The entries a rebuild or a refreshed tail collects for one op.
LEMMA CollectedOf ==
  ASSUME TypeOK, NEW S \in SUBSET Owners, NEW o \in Owners
  PROVE  Of(UNION {EntriesOf(p) : p \in S}, o) = IF o \in S THEN EntriesOf(o) ELSE {}
<1>1. \A p \in S : \A e \in EntriesOf(p) : e[2] = p
  BY EntriesTyped
<1> QED
  BY <1>1 DEF Of

-----------------------------------------------------------------------------

\* The initial, empty grouping satisfies the invariant.
LEMMA InitInv == Init => IInv
<1> SUFFICES ASSUME Init PROVE IInv
  OBVIOUS
<1>1. <<>> \in Rows
  <2>1. <<>> \in [1 .. 0 -> Cells]
    OBVIOUS
  <2> QED
    BY <2>1, SizeAssumption DEF Rows
<1>2. TypeOK
  BY <1>1, SizeAssumption DEF Init, TypeOK
<1>3. GroupingStands
  BY DEF Init, GroupingStands, BaseStands, TailStands, LoggedNow
<1> QED
  BY <1>2, <1>3 DEF IInv

\* A write of one op at this tick: what add_operation, set_operand,
\* splice_operands and kill_op have in common.  The op leaves the base, and is
\* logged, since its stamp moved or it was logged when it did.
LEMMA WriteStands ==
  ASSUME IInv, NEW o \in Owners,
         UNCHANGED <<tick, base, built, tail>>,
         stamp' = [stamp EXCEPT ![o] = tick],
         log' \subseteq log \cup {o}, log \subseteq log',
         stamp[o] # tick => o \in log',
         \A p \in Owners \ {o} : EntriesOf(p)' = EntriesOf(p)
  PROVE  GroupingStands'
<1> SUFFICES ASSUME built # NotBuilt
             PROVE  GroupingStands'
  BY DEF GroupingStands, BaseStands, TailStands, LoggedNow
<1>1. built \in 1 .. tick - 1 /\ tick \in Int /\ stamp \in [Owners -> Int]
  BY SizeAssumption DEF IInv, TypeOK
<1>2. o \in log'
  BY DEF IInv, GroupingStands, LoggedNow
<1>3. stamp'[o] = tick /\ tick > built /\ \A p \in Owners \ {o} : stamp'[p] = stamp[p]
  BY <1>1
<1>4. BaseStands'
  BY <1>1, <1>3 DEF IInv, GroupingStands, BaseStands
<1>5. TailStands'
  BY <1>1, <1>2, <1>3 DEF IInv, GroupingStands, TailStands
<1>6. LoggedNow'
  BY <1>1, <1>2, <1>3 DEF IInv, GroupingStands, LoggedNow
<1> QED
  BY <1>4, <1>5, <1>6 DEF GroupingStands

\* add_operation keeps the invariant.
LEMMA AddOperationInv ==
  ASSUME IInv, NEW o \in Owners, NEW cells \in Rows, AddOperation(o, cells)
  PROVE  IInv'
<1> USE DEF AddOperation
<1>1. TypeOK'
  BY SizeAssumption DEF IInv, TypeOK
<1>2. \A p \in Owners \ {o} : EntriesOf(p)' = EntriesOf(p)
  BY EntriesKept DEF IInv, TypeOK
<1>3. GroupingStands'
  BY <1>2, WriteStands
<1> QED
  BY <1>1, <1>3 DEF IInv

\* set_operand and splice_operands keep the invariant.
LEMMA SetOperandsInv ==
  ASSUME IInv, NEW o \in Owners, NEW cells \in Rows, SetOperands(o, cells)
  PROVE  IInv'
<1> USE DEF SetOperands, Written
<1>1. TypeOK'
  BY SizeAssumption DEF IInv, TypeOK
<1>2. \A p \in Owners \ {o} : EntriesOf(p)' = EntriesOf(p)
  BY EntriesKept DEF IInv, TypeOK
<1>3. GroupingStands'
  BY <1>2, WriteStands
<1> QED
  BY <1>1, <1>3 DEF IInv

\* kill_op keeps the invariant.
LEMMA KillOpInv ==
  ASSUME IInv, NEW o \in Owners, KillOp(o)
  PROVE  IInv'
<1> USE DEF KillOp, Written
<1>1. TypeOK'
  BY SizeAssumption DEF IInv, TypeOK
<1>2. \A p \in Owners \ {o} : EntriesOf(p)' = EntriesOf(p)
  BY EntriesKept DEF IInv, TypeOK
<1>3. GroupingStands'
  BY <1>2, WriteStands
<1> QED
  BY <1>1, <1>3 DEF IInv

-----------------------------------------------------------------------------

\* What a lookup would read for an op, in a built grouping: the base entries
\* that stand and the tail brought up to date are the op's entries, from one
\* of the two only.
LEMMA ReadOf ==
  ASSUME IInv, built # NotBuilt, NEW o \in Owners
  PROVE  /\ Of(Standing(base, built), o) = IF stamp[o] <= built THEN EntriesOf(o) ELSE {}
         /\ Of(Tailed, o) = IF stamp[o] <= built THEN {} ELSE EntriesOf(o)
<1>1. log \subseteq Owners /\ built \in Int /\ stamp[o] \in Int
  BY SizeAssumption DEF IInv, TypeOK
<1>2. Of(Standing(base, built), o) = IF stamp[o] <= built THEN Of(base, o) ELSE {}
  BY DEF Of, Standing
<1>3. Of(Tailed, o) = IF o \in log THEN EntriesOf(o) ELSE Of(tail, o)
  <2>1. Of(UNION {EntriesOf(p) : p \in log}, o) = IF o \in log THEN EntriesOf(o) ELSE {}
    BY <1>1, CollectedOf DEF IInv
  <2>2. Of(Tailed, o) = Of({e \in tail : e[2] \notin log}, o)
                          \cup Of(UNION {EntriesOf(p) : p \in log}, o)
    BY DEF Of, Tailed
  <2>3. Of({e \in tail : e[2] \notin log}, o) = IF o \in log THEN {} ELSE Of(tail, o)
    BY DEF Of
  <2> QED
    BY <2>1, <2>2, <2>3
<1>4. stamp[o] <= built => Of(base, o) = EntriesOf(o) /\ Of(tail, o) = {} /\ o \notin log
  BY DEF IInv, GroupingStands, BaseStands, Of
<1>5. ~(stamp[o] <= built) => o \in log \/ Of(tail, o) = EntriesOf(o)
  BY <1>1 DEF IInv, GroupingStands, TailStands, Of
<1> QED
  BY <1>2, <1>3, <1>4, <1>5

\* The tail a refresh makes holds entries only.
LEMMA TailedTyped ==
  ASSUME TypeOK
  PROVE  Tailed \subseteq Entries
BY EntriesTyped DEF TypeOK, Tailed

\* refresh_uses keeps the invariant: building the base, folding the tail into
\* it, or bringing the tail up to date.
LEMMA RefreshUsesInv ==
  ASSUME IInv, tick < MaxTick, RefreshUses
  PROVE  IInv'
<1> DEFINE b == Refreshed.base
           at == Refreshed.built
           t == Refreshed.tail
<1>1. /\ base' = b /\ built' = at /\ tail' = t /\ log' = {} /\ tick' = tick + 1
      /\ UNCHANGED <<row, live, minted, stamp>>
      /\ tick \in 1 .. MaxTick /\ tick \in Int /\ stamp \in [Owners -> 0 .. tick]
  BY SizeAssumption DEF RefreshUses, Ticked, IInv, TypeOK
<1>2. \A o \in Owners : EntriesOf(o)' = EntriesOf(o)
  BY <1>1, EntriesKept
<1>3. /\ b \subseteq Entries /\ t \subseteq Entries
      /\ at \in 1 .. tick
      /\ \A o \in Owners :
           /\ stamp[o] <= at => Of(b, o) = EntriesOf(o) /\ Of(t, o) = {}
           /\ stamp[o] > at => Of(t, o) = EntriesOf(o)
  <2>1. CASE built = NotBuilt
    <3>1. b = UNION {EntriesOf(p) : p \in Owners} /\ at = tick /\ t = {}
      BY <2>1 DEF Refreshed, Rebuilt
    <3>2. \A o \in Owners : Of(b, o) = EntriesOf(o)
      BY <3>1, CollectedOf DEF IInv
    <3>3. b \subseteq Entries
      BY <3>1, EntriesTyped DEF IInv
    <3> QED
      BY <1>1, <3>1, <3>2, <3>3 DEF Of
  <2>2. CASE built # NotBuilt /\ IsLong(Tailed)
    <3>1. b = Standing(base, built) \cup Tailed /\ at = tick /\ t = {}
      BY <2>2 DEF Refreshed, Folded
    <3>2. \A o \in Owners : Of(b, o) = EntriesOf(o)
      <4> SUFFICES ASSUME NEW o \in Owners PROVE Of(b, o) = EntriesOf(o)
        OBVIOUS
      <4>1. Of(b, o) = Of(Standing(base, built), o) \cup Of(Tailed, o)
        BY <3>1 DEF Of
      <4> QED
        BY <2>2, <4>1, ReadOf
    <3>3. b \subseteq Entries
      BY <3>1, TailedTyped DEF IInv, TypeOK, Standing
    <3> QED
      BY <1>1, <3>1, <3>2, <3>3 DEF Of
  <2>3. CASE built # NotBuilt /\ ~IsLong(Tailed)
    <3>1. b = base /\ at = built /\ t = Tailed
      BY <2>3 DEF Refreshed
    <3>2. b \subseteq Entries /\ t \subseteq Entries /\ at \in 1 .. tick /\ at \in Int
      BY <1>1, <2>3, <3>1, TailedTyped DEF IInv, TypeOK
    <3>3. \A o \in Owners : stamp[o] <= at => Of(b, o) = EntriesOf(o)
      BY <2>3, <3>1 DEF IInv, GroupingStands, BaseStands, Of
    <3>4. \A o \in Owners : Of(t, o) = IF stamp[o] <= at THEN {} ELSE EntriesOf(o)
      BY <2>3, <3>1, ReadOf
    <3> QED
      BY <1>1, <3>2, <3>3, <3>4
  <2> QED
    BY <2>1, <2>2, <2>3
<1> HIDE DEF b, at, t
<1>4. TypeOK'
  <2>1. tick' \in 1 .. MaxTick
    BY <1>1, SizeAssumption
  <2> QED
    BY <1>1, <1>3, <2>1 DEF IInv, TypeOK
<1>5. GroupingStands'
  <2>1. BaseStands' /\ TailStands'
    BY <1>1, <1>2, <1>3 DEF BaseStands, TailStands, Of
  <2>2. LoggedNow'
    BY <1>1 DEF LoggedNow
  <2> QED
    BY <2>1, <2>2 DEF GroupingStands
<1> QED
  BY <1>4, <1>5 DEF IInv

-----------------------------------------------------------------------------

\* Refreshing another grouping keeps the invariant: nothing is stamped at the
\* tick it moves to.
LEMMA RefreshOtherInv ==
  ASSUME IInv, tick < MaxTick, RefreshOther
  PROVE  IInv'
<1> USE DEF RefreshOther
<1>1. TypeOK'
  BY SizeAssumption DEF IInv, TypeOK
<1>2. \A o \in Owners : EntriesOf(o)' = EntriesOf(o)
  BY EntriesKept
<1>3. BaseStands' /\ TailStands'
  BY <1>2 DEF IInv, GroupingStands, BaseStands, TailStands
<1>4. LoggedNow'
  BY SizeAssumption DEF IInv, TypeOK, LoggedNow
<1> QED
  BY <1>1, <1>3, <1>4 DEF IInv, GroupingStands

\* commit keeps the invariant: the rows compaction drops yield nothing.
LEMMA CommitInv ==
  ASSUME IInv, tick < MaxTick, NEW compacts \in BOOLEAN, Commit(compacts)
  PROVE  IInv'
<1> USE DEF Commit
<1>1. TypeOK'
  <2>1. <<>> \in Rows
    <3>1. <<>> \in [1 .. 0 -> Cells]
      OBVIOUS
    <3> QED
      BY <3>1, SizeAssumption DEF Rows
  <2>2. row' \in [Owners -> Rows]
    BY <2>1 DEF IInv, TypeOK
  <2> QED
    BY <2>2, SizeAssumption DEF IInv, TypeOK
<1>2. \A o \in Owners : EntriesOf(o)' = EntriesOf(o)
  BY EntriesKept
<1>3. BaseStands' /\ TailStands'
  BY <1>2 DEF IInv, GroupingStands, BaseStands, TailStands
<1>4. LoggedNow'
  BY SizeAssumption DEF IInv, TypeOK, LoggedNow
<1> QED
  BY <1>1, <1>3, <1>4 DEF IInv, GroupingStands

\* merge keeps the invariant: it forgets the grouping.
LEMMA MergeInv ==
  ASSUME IInv, NEW o \in Owners, NEW cells \in Rows, NEW lives \in BOOLEAN,
         NEW until \in 1 .. MaxTick - 1, Merge(o, cells, lives, until)
  PROVE  IInv'
<1>1. /\ until >= tick /\ tick' = until + 1 /\ built' = NotBuilt /\ tail' = {}
      /\ log' = {} /\ base' = base /\ minted' = minted \cup {o}
      /\ live' = IF lives THEN live \cup {o} ELSE live \ {o}
      /\ row' = [row EXCEPT ![o] = cells]
  BY DEF Merge, Forgotten
<1>2. stamp' \in [Owners -> 0 .. tick']
  <2>1. stamp \in [Owners -> 0 .. tick] /\ tick \in 1 .. MaxTick /\ until \in Int
    BY SizeAssumption DEF IInv, TypeOK
  <2>2. stamp \in [Owners -> 0 .. tick']
    BY <1>1, <2>1, SizeAssumption
  <2>3. stamp' = stamp \/ \E at \in tick .. until : stamp' = [stamp EXCEPT ![o] = at]
    BY DEF Merge
  <2> QED
    BY <1>1, <2>1, <2>2, <2>3, SizeAssumption
<1>3. TypeOK'
  <2>1. tick' \in 1 .. MaxTick
    BY <1>1, SizeAssumption DEF IInv, TypeOK
  <2>2. live' \subseteq minted' /\ minted' \subseteq Owners /\ row' \in [Owners -> Rows]
    BY <1>1 DEF IInv, TypeOK
  <2> QED
    BY <1>1, <1>2, <2>1, <2>2 DEF IInv, TypeOK
<1>4. GroupingStands'
  BY <1>1 DEF GroupingStands, BaseStands, TailStands, LoggedNow
<1> QED
  BY <1>3, <1>4 DEF IInv

\* Every step keeps the invariant.
LEMMA NextInv == IInv /\ [Next]_vars => IInv'
<1> SUFFICES ASSUME IInv, [Next]_vars PROVE IInv'
  OBVIOUS
<1>1. CASE UNCHANGED vars
  <2>1. TypeOK'
    BY <1>1 DEF vars, IInv, TypeOK
  <2>2. \A o \in Owners : EntriesOf(o)' = EntriesOf(o)
    BY <1>1, EntriesKept DEF vars
  <2>3. GroupingStands'
    BY <1>1, <2>2 DEF vars, IInv, GroupingStands, BaseStands, TailStands, LoggedNow
  <2> QED
    BY <2>1, <2>3 DEF IInv
<1>2. CASE Next
  <2>1. ASSUME NEW o \in Owners, NEW cells \in Rows, AddOperation(o, cells) PROVE IInv'
    BY <2>1, AddOperationInv
  <2>2. ASSUME NEW o \in Owners, NEW cells \in Rows, SetOperands(o, cells) PROVE IInv'
    BY <2>2, SetOperandsInv
  <2>3. ASSUME NEW o \in Owners, NEW cells \in Rows, NEW lives \in BOOLEAN,
               NEW until \in 1 .. MaxTick - 1, Merge(o, cells, lives, until)
        PROVE  IInv'
    BY <2>3, MergeInv
  <2>4. ASSUME NEW o \in Owners, KillOp(o) PROVE IInv'
    BY <2>4, KillOpInv
  <2>5. ASSUME RefreshUses PROVE IInv'
    BY <1>2, <2>5, RefreshUsesInv DEF Next
  <2>6. ASSUME RefreshOther PROVE IInv'
    BY <1>2, <2>6, RefreshOtherInv DEF Next
  <2>7. ASSUME NEW compacts \in BOOLEAN, Commit(compacts) PROVE IInv'
    BY <1>2, <2>7, CommitInv DEF Next
  <2> QED
    BY <1>2, <2>1, <2>2, <2>3, <2>4, <2>5, <2>6, <2>7 DEF Next
<1> QED
  BY <1>1, <1>2

\* Every reachable state satisfies the invariant.
LEMMA Invariance == Spec => []IInv
BY InitInv, NextInv, PTL DEF Spec

-----------------------------------------------------------------------------

\* Every state of the partition and its grouping has its type; a base is built
\* at a tick that is past, so that every later write is stamped after it.
THEOREM UseListsTypeOK == Spec => []TypeOK
<1>1. IInv => TypeOK
  BY DEF IInv
<1> QED
  BY <1>1, Invariance, PTL

\* The grouping stands in every state, current or not: an op not written since
\* the base was built is as the base has it, the others are in the tail or logged.
THEOREM UseListsStand == Spec => []GroupingStands
<1>1. IInv => GroupingStands
  BY DEF IInv
<1> QED
  BY <1>1, Invariance, PTL

\* Whatever was written, erased, committed or merged between lookups, uses and
\* is_used of a current partition answer exactly the operands its live ops hold.
THEOREM UsesExact == Spec => []LookupExact
<1>1. IInv => LookupExact
  <2> SUFFICES ASSUME IInv, IsCurrent, NEW c \in Cells
               PROVE  BaseRead(c) \cup TailRead(c)
                        = {e \in UNION {EntriesOf(o) : o \in Owners} : e[1] = c}
    BY DEF LookupExact
  <2>1. built # NotBuilt /\ Tailed = tail
    BY DEF IsCurrent, Tailed
  <2>2. \A o \in Owners : Of(Standing(base, built), o) \cup Of(tail, o) = EntriesOf(o)
    BY <2>1, ReadOf
  <2>3. \A e \in Standing(base, built) \cup tail : e[2] \in Owners
    BY DEF IInv, TypeOK, Standing, Entries
  <2>4. Standing(base, built) \cup tail = UNION {EntriesOf(o) : o \in Owners}
    BY <2>2, <2>3 DEF Of
  <2> QED
    BY <2>4 DEF BaseRead, TailRead
<1> QED
  BY <1>1, Invariance, PTL

\* A lookup reads no use from the base and from the tail both.
THEOREM UsesReadOnce == Spec => []ReadsOnce
<1>1. IInv => ReadsOnce
  <2> SUFFICES ASSUME IInv, built # NotBuilt, NEW e \in tail, e \in Standing(base, built)
               PROVE  FALSE
    BY DEF ReadsOnce
  <2>1. e[2] \in Owners /\ stamp[e[2]] <= built
    BY DEF IInv, TypeOK, Entries, Standing
  <2> QED
    BY <2>1 DEF IInv, GroupingStands, BaseStands
<1> QED
  BY <1>1, Invariance, PTL
=============================================================================
