-------------------------- MODULE WorkerPoolProofs --------------------------
(***************************************************************************)
(* WorkerPool for every number of targets and workers: the inductive       *)
(* invariant, the safety properties that follow from it, and that the pool *)
(* implements Tasks.                                                       *)
(***************************************************************************)
EXTENDS WorkerPool, WellFoundedInduction, TLAPS

-----------------------------------------------------------------------------
(* Facts about natural numbers. *)

\* Every set of naturals that has a member has a least one: the induction the
\* proofs about counters and indices of the code rest on.
LEMMA LeastNatural ==
  ASSUME NEW S \in SUBSET Nat, S # {}
  PROVE  \E n \in S : \A m \in S : n <= m
<1> DEFINE R == OpToRel(<, Nat)
<1>1. IsWellFoundedOn(R, Nat)
  BY NatLessThanWellFounded
<1>2. PICK n \in S : \A m \in S : ~ (<<m, n>> \in R)
  <2> HIDE DEF R
  <2> QED BY <1>1, WFMin
<1>3. ASSUME NEW m \in S PROVE n <= m
  <2>1. m \in Nat /\ n \in Nat
    OBVIOUS
  <2>2. ~ (m < n)
    BY <1>2, <2>1 DEF OpToRel
  <2> QED BY <2>1, <2>2
<1> QED BY <1>3

-----------------------------------------------------------------------------

IInv == TypeOK /\ HandedOut /\ ClaimedOnce

\* The answers of an epoch are told apart.
LEMMA AnswerTypes ==
  /\ T!Pending \in T!Answers
  /\ T!Panicked \in T!Answers
  /\ T!Batches \in T!Answers
  /\ \A i \in Targets : T!FirstError(i) \in T!Answers
  /\ T!Panicked # T!Pending
  /\ T!Batches # T!Pending
  /\ \A i \in Targets : T!FirstError(i) # T!Pending
BY DEF T!Answers, T!Pending, T!Panicked, T!Batches, T!FirstError, Targets, T!Targets

\* An epoch opens with no index handed out.
LEMMA InitInv == Init => IInv
<1> SUFFICES ASSUME Init PROVE IInv
  OBVIOUS
<1> USE TargetCountAssumption, MaxWorkersAssumption
<1>1. size \in 1 .. MaxWorkers
  BY DEF Init, PoolSize
<1>2. TypeOK
  BY <1>1, AnswerTypes DEF Init, TypeOK, Targets
<1>3. Workers \subseteq 1 .. MaxWorkers
  BY <1>1 DEF Workers
<1>4. HandedOut /\ ClaimedOnce
  BY <1>1, <1>3 DEF Init, HandedOut, WorkersHold, SlotsHold, NoneDropped, ClaimedOnce, Busy, Targets
<1> QED BY <1>2, <1>4 DEF IInv

\* What collecting slots that hold every outcome answers.
LEMMA CollectedAnswer ==
  ASSUME IInv, \A w \in Workers : pc[w] = "exit"
  PROVE  /\ \A i \in Targets : slots[i] = outcome[i] /\ outcome[i] # "panic"
         /\ \/ Collected(slots) = T!Batches /\ \A i \in Targets : outcome[i] = "ok"
            \/ \E i \in Targets :
                 /\ Collected(slots) = T!FirstError(i)
                 /\ outcome[i] = "err"
                 /\ \A j \in Targets : j < i => outcome[j] = "ok"
<1> USE TargetCountAssumption DEF Targets
<1>0. size \in 1 .. MaxWorkers /\ 1 \in Workers
  BY MaxWorkersAssumption DEF IInv, TypeOK, Workers
<1>1. next > TargetCount
  BY <1>0 DEF IInv, HandedOut, WorkersHold
<1>2. ASSUME NEW i \in Targets
      PROVE  slots[i] = outcome[i] /\ slots[i] # "panic"
  <2>1. i < next
    BY <1>1 DEF IInv, TypeOK
  <2>2. \A w \in Workers : ~Busy(w)
    BY DEF Busy
  <2>3. slots[i] # "none"
    BY <2>1, <2>2, Zenon DEF IInv, HandedOut, NoneDropped
  <2> QED BY <2>3, Zenon DEF IInv, HandedOut, SlotsHold
<1>3. \A i \in Targets : outcome[i] \in {"ok", "err"}
  BY <1>2 DEF IInv, TypeOK, T!Outcomes
<1>4. CASE \A i \in Targets : slots[i] = "ok"
  BY <1>2, <1>4 DEF Collected
<1>5. CASE ~ \A i \in Targets : slots[i] = "ok"
  <2> DEFINE Bad == {i \in Targets : slots[i] # "ok"}
  <2>1. Bad # {} /\ Bad \subseteq Nat
    BY <1>5
  <2>2. PICK n \in Bad : \A k \in Bad : n <= k
    <3> HIDE DEF Bad
    <3> QED BY <2>1, LeastNatural
  <2> DEFINE P(i) == slots[i] = "err" /\ \A j \in Targets : j < i => slots[j] = "ok"
  <2>3. n \in Targets /\ P(n)
    BY <1>2, <1>3, <2>2
  <2>4. PICK c \in Targets : c = (CHOOSE i \in Targets : P(i)) /\ P(c)
    <3> HIDE DEF P
    <3> QED BY <2>3
  <2>5. Collected(slots) = T!FirstError(c)
    BY <1>5, <2>4 DEF Collected
  <2> QED BY <1>2, <2>4, <2>5
<1> QED BY <1>2, <1>4, <1>5

\* Claiming, running, storing and joining keep the invariant.
LEMMA NextInv == IInv /\ [Next]_vars => IInv'
<1> SUFFICES ASSUME IInv, [Next]_vars PROVE IInv'
  OBVIOUS
<1> USE TargetCountAssumption, MaxWorkersAssumption
<1>0. Workers \subseteq 1 .. MaxWorkers
  BY DEF IInv, TypeOK, Workers
<1>1. ASSUME NEW w \in Workers, Claim(w) PROVE IInv'
  <2>1. TypeOK'
    BY <1>0, <1>1 DEF IInv, TypeOK, Claim
  <2>2. HandedOut'
    <3>1. WorkersHold'
      BY <1>0, <1>1 DEF IInv, TypeOK, HandedOut, WorkersHold, Claim, Busy, Targets, Workers
    <3>2. SlotsHold'
      BY <1>1 DEF IInv, TypeOK, HandedOut, SlotsHold, Claim, Targets
    <3>3. ASSUME NEW i \in Targets, i < next', slots[i] = "none"
          PROVE  \E u \in Workers : (Busy(u) /\ index[u] = i)'
      <4>1. CASE i = next
        BY <1>0, <1>1, <4>1 DEF IInv, TypeOK, Claim, Busy
      <4>2. CASE i < next
        <5>1. PICK u \in Workers : Busy(u) /\ index[u] = i
          BY <3>3, <4>2 DEF IInv, HandedOut, NoneDropped
        <5>2. u # w
          BY <1>1, <5>1 DEF Claim, Busy
        <5> QED BY <1>0, <1>1, <5>1, <5>2 DEF IInv, TypeOK, Claim, Busy
      <4> QED BY <1>1, <3>3, <4>1, <4>2 DEF IInv, TypeOK, Claim, Targets
    <3>4. NoneDropped'
      BY <1>1, <3>3 DEF NoneDropped, Claim, Workers
    <3> QED BY <3>1, <3>2, <3>4 DEF HandedOut
  <2>3. ClaimedOnce'
    BY <1>0, <1>1 DEF IInv, TypeOK, HandedOut, WorkersHold, SlotsHold, ClaimedOnce, Claim, Busy, Targets, Workers
  <2> QED BY <2>1, <2>2, <2>3 DEF IInv
<1>2. ASSUME NEW w \in Workers, Run(w) PROVE IInv'
  <2>1. TypeOK'
    BY <1>0, <1>2 DEF IInv, TypeOK, Run
  <2>2. HandedOut'
    BY <1>0, <1>2 DEF IInv, TypeOK, HandedOut, WorkersHold, SlotsHold, NoneDropped, Run, Busy, Workers
  <2>3. ClaimedOnce'
    BY <1>0, <1>2 DEF IInv, TypeOK, ClaimedOnce, Run, Workers
  <2> QED BY <2>1, <2>2, <2>3 DEF IInv
<1>3. ASSUME NEW w \in Workers, Store(w) PROVE IInv'
  <2>0. index[w] \in Targets /\ outcome[index[w]] # "panic"
    BY <1>3 DEF IInv, HandedOut, WorkersHold, Busy, Store
  <2>1. TypeOK'
    BY <1>0, <1>3, <2>0 DEF IInv, TypeOK, Store
  <2>2. HandedOut'
    BY <1>0, <1>3, <2>0 DEF IInv, TypeOK, HandedOut, WorkersHold, SlotsHold, NoneDropped, Store, Busy, Workers, T!Outcomes
  <2>3. ClaimedOnce'
    BY <1>0, <1>3, <2>0 DEF IInv, TypeOK, HandedOut, WorkersHold, SlotsHold, ClaimedOnce, Store, Busy, Workers
  <2> QED BY <2>1, <2>2, <2>3 DEF IInv
<1>4. ASSUME Join PROVE IInv'
  <2>1. answer' \in T!Answers
    BY <1>4, CollectedAnswer, AnswerTypes DEF Join
  <2>2. TypeOK'
    BY <1>4, <2>1 DEF IInv, TypeOK, Join
  <2>3. HandedOut' /\ ClaimedOnce'
    BY <1>4 DEF IInv, HandedOut, WorkersHold, SlotsHold, NoneDropped, ClaimedOnce, Join, Busy, Workers
  <2> QED BY <2>2, <2>3 DEF IInv
<1>5. CASE UNCHANGED vars
  BY <1>5 DEF vars, IInv, TypeOK, HandedOut, WorkersHold, SlotsHold, NoneDropped, ClaimedOnce, Busy, Workers
<1> QED BY <1>1, <1>2, <1>3, <1>4, <1>5 DEF Next, Step, Finished

\* The pool keeps its inductive invariant for every TargetCount and MaxWorkers.
THEOREM PoolInvariant == Spec => []IInv
<1> QED BY InitInv, NextInv, PTL DEF Spec

\* No two workers of an epoch ever run one target, and no target runs twice.
THEOREM PoolClaimsOnce == Spec => []ClaimedOnce
<1>1. IInv => ClaimedOnce
  BY DEF IInv
<1> QED BY <1>1, PoolInvariant, PTL

\* The caller never meets an empty slot when its workers have returned.
THEOREM PoolRunsEveryTarget == Spec => []EveryTargetRan
<1>1. IInv => EveryTargetRan
  BY CollectedAnswer DEF EveryTargetRan
<1> QED BY <1>1, PoolInvariant, PTL

-----------------------------------------------------------------------------

\* The state of Tasks that a state of the pool stands for.
ran == {i \in 1 .. TargetCount : slots[i] # "none"}
         \cup {index[w] : w \in {u \in 1 .. size : pc[u] \in {"store", "dead"}}}

\* The pool starts where the abstract epoch starts.
LEMMA InitRefines == Init => T!Init
<1> SUFFICES ASSUME Init PROVE T!Init
  OBVIOUS
<1>1. size \in 1 .. MaxWorkers
  BY InitInv DEF IInv, TypeOK
<1>2. ran = {}
  BY <1>1, MaxWorkersAssumption DEF Init, ran, Targets
<1> QED BY <1>2 DEF Init, T!Init, ran, Targets, T!Targets

\* A step of the pool is a step of the abstract epoch or changes none of it.
LEMMA StepRefines == IInv /\ [Next]_vars => [T!Next]_(T!vars)
<1> SUFFICES ASSUME IInv, [Next]_vars PROVE T!Next \/ UNCHANGED <<outcome, ran, answer>>
  BY DEF T!vars, ran
<1> USE TargetCountAssumption, MaxWorkersAssumption
<1>0. Workers \subseteq 1 .. MaxWorkers /\ Targets = T!Targets
  BY DEF IInv, TypeOK, Workers, Targets, T!Targets
<1>1. ASSUME NEW w \in Workers, Claim(w) PROVE UNCHANGED <<outcome, ran, answer>>
  <2>1. \A u \in Workers : pc'[u] \in {"store", "dead"} <=> pc[u] \in {"store", "dead"}
    BY <1>0, <1>1 DEF IInv, TypeOK, Claim
  <2>2. \A u \in Workers : pc[u] \in {"store", "dead"} => index'[u] = index[u]
    BY <1>0, <1>1 DEF IInv, TypeOK, Claim
  <2> QED BY <1>1, <2>1, <2>2 DEF Claim, ran, Workers
<1>2. ASSUME NEW w \in Workers, Run(w) PROVE T!RunTarget(index[w])
  <2>1. answer = T!Pending /\ index[w] \in Targets
    BY <1>2 DEF IInv, HandedOut, WorkersHold, Busy, Run
  <2>2. index[w] \notin ran
    BY <1>2, <2>1 DEF IInv, ClaimedOnce, Run, ran, Workers
  <2>3. \A u \in Workers : pc'[u] \in {"store", "dead"}
                             <=> u = w \/ pc[u] \in {"store", "dead"}
    BY <1>0, <1>2 DEF IInv, TypeOK, Run
  <2>4. ran' = ran \cup {index[w]}
    BY <1>2, <2>3 DEF Run, ran, Workers
  <2> QED BY <1>2, <2>1, <2>2, <2>4 DEF T!RunTarget, Run, ran
<1>3. ASSUME NEW w \in Workers, Store(w) PROVE UNCHANGED <<outcome, ran, answer>>
  <2>1. index[w] \in Targets /\ slots[index[w]] = "none" /\ outcome[index[w]] # "none"
    BY <1>3 DEF IInv, TypeOK, HandedOut, WorkersHold, ClaimedOnce, Busy, Store, T!Outcomes
  <2>2. \A u \in Workers : pc[u] \in {"store", "dead"}
                             <=> u = w \/ pc'[u] \in {"store", "dead"}
    BY <1>0, <1>3 DEF IInv, TypeOK, Store
  <2>3. \A i \in Targets : slots'[i] # "none" <=> i = index[w] \/ slots[i] # "none"
    BY <1>3, <2>1 DEF IInv, TypeOK, Store
  <2> QED BY <1>3, <2>1, <2>2, <2>3 DEF Store, ran, Workers, Targets
<1>4. ASSUME Join PROVE T!Next
  <2>0. ran' = ran
    BY <1>4 DEF Join, ran
  <2>1. CASE \E w \in Workers : pc[w] = "dead"
    <3>1. PICK w \in Workers : pc[w] = "dead"
      BY <2>1
    <3>2. index[w] \in ran /\ outcome[index[w]] = "panic"
      BY <3>1 DEF IInv, HandedOut, WorkersHold, ran, Workers
    <3>3. T!Unwind
      BY <1>4, <2>0, <2>1, <3>2 DEF T!Unwind, Join, ran
    <3> QED BY <3>3 DEF T!Next
  <2>2. CASE \A w \in Workers : pc[w] = "exit"
    <3>0. ~ \E w \in Workers : pc[w] = "dead"
      BY <2>2
    <3>1. answer' = Collected(slots)
      BY <1>4, <3>0 DEF Join
    <3>2. \A i \in Targets : slots[i] = outcome[i] /\ outcome[i] # "panic"
      BY <2>2, CollectedAnswer
    <3>3. \A i \in Targets : slots[i] # "none"
      BY <3>2 DEF IInv, TypeOK, T!Outcomes
    <3>4. ran = Targets
      BY <2>2, <3>3 DEF ran, Targets, Workers
    <3>5. CASE Collected(slots) = T!Batches /\ \A i \in Targets : outcome[i] = "ok"
      BY <1>0, <1>4, <2>0, <3>1, <3>4, <3>5 DEF T!Next, T!ReturnBatches, Join, ran
    <3>6. CASE \E i \in Targets :
                 /\ Collected(slots) = T!FirstError(i)
                 /\ outcome[i] = "err"
                 /\ \A j \in Targets : j < i => outcome[j] = "ok"
      <4>1. PICK i \in Targets :
                 /\ Collected(slots) = T!FirstError(i)
                 /\ outcome[i] = "err"
                 /\ \A j \in Targets : j < i => outcome[j] = "ok"
        BY <3>6
      <4>2. T!ReturnError(i)
        BY <1>0, <1>4, <2>0, <3>1, <3>2, <3>4, <4>1 DEF T!ReturnError, Join, ran
      <4> QED BY <1>0, <4>2 DEF T!Next
    <3> QED BY <2>2, <3>5, <3>6, CollectedAnswer
  <2> QED BY <1>4, <2>1, <2>2 DEF Join
<1>5. CASE UNCHANGED vars
  BY <1>5 DEF vars, ran
<1> QED
  <2>1. ASSUME NEW w \in Workers, Run(w) PROVE T!Next
    <3>1. index[w] \in T!Targets
      BY <1>0, <2>1 DEF IInv, HandedOut, WorkersHold, Busy, Run
    <3>2. T!RunTarget(index[w])
      BY <1>2, <2>1
    <3>3. \E i \in T!Targets : T!RunTarget(i)
      BY <3>1, <3>2 DEF T!RunTarget
    <3> QED BY <3>3 DEF T!Next
  <2> QED BY <1>1, <2>1, <1>3, <1>4, <1>5 DEF Next, Step, Finished

\* Whatever the number of workers and the order they finish in, the pool
\* answers its caller as a loop over the targets would (pass.rs, set_workers).
THEOREM PoolDeterministic == Spec => Deterministic
<1> QED BY InitRefines, StepRefines, PoolInvariant, PTL DEF Spec, Deterministic, T!Spec
=============================================================================
