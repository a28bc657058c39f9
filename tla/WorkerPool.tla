----------------------------- MODULE WorkerPool -----------------------------
(***************************************************************************)
(* `tasks::run` of core/src/pass.rs: the workers of one epoch claim target *)
(* indices from a shared counter, run each target's pipeline in a context  *)
(* of its own, and put what it came to in the slot of that index; the      *)
(* caller joins them and collects the slots in target order.  A nest that  *)
(* holds a pass without a copy runs the same loop on one worker.           *)
(*                                                                         *)
(* What `one` makes of a target is fixed when the epoch opens: it reads    *)
(* the snapshot and the index, both the same for every worker.             *)
(***************************************************************************)
EXTENDS Naturals

CONSTANTS
  TargetCount,                      \* targets.len()
  MaxWorkers                        \* the largest `workers` a manager is set to

ASSUME TargetCountAssumption == TargetCount \in Nat
ASSUME MaxWorkersAssumption == MaxWorkers \in Nat \ {0}

VARIABLES
  outcome,                          \* what each target's pipeline comes to
  size,                             \* how many workers the epoch has
  next,                             \* the shared counter, from 1
  pc,                               \* per worker: where its loop stands
  index,                            \* per worker: the index it claimed last
  slots,                            \* per target: the result put, or "none"
  answer                            \* what `run` returned

vars == <<outcome, size, next, pc, index, slots, answer>>

T == INSTANCE Tasks WITH
       ran <- {i \in 1 .. TargetCount : slots[i] # "none"}
                \cup {index[w] : w \in {u \in 1 .. size : pc[u] \in {"store", "dead"}}}

Targets == 1 .. TargetCount
Workers == 1 .. size

\* set_workers keeps at least one; no more workers start than there are
\* targets; without a replica for each the caller runs the loop alone.
PoolSize(workers, replicable) ==
  IF ~replicable \/ workers = 0 \/ TargetCount = 0 THEN 1
  ELSE IF workers < TargetCount THEN workers
  ELSE TargetCount

Init ==
  /\ outcome \in [Targets -> T!Outcomes]
  /\ \E workers \in 0 .. MaxWorkers, replicable \in BOOLEAN :
       size = PoolSize(workers, replicable)
  /\ next = 1
  /\ pc = [w \in 1 .. MaxWorkers |-> "claim"]
  /\ index = [w \in 1 .. MaxWorkers |-> 0]
  /\ slots = [i \in Targets |-> "none"]
  /\ answer = T!Pending

\* Mutant: one thread reads the counter without advancing it.
ClaimWithoutAdvance(w) ==
  /\ pc[w] = "claim"
  /\ next' = IF w = 1 THEN next ELSE next + 1
  /\ index' = [index EXCEPT ![w] = next]
  /\ pc' = [pc EXCEPT ![w] = IF next \in Targets THEN "run" ELSE "exit"]
  /\ UNCHANGED <<outcome, size, slots, answer>>

\* next.fetch_add(1), then targets.get(index): past the end the worker returns.
Claim(w) ==
  /\ pc[w] = "claim"
  /\ next' = next + 1
  /\ index' = [index EXCEPT ![w] = next]
  /\ pc' = [pc EXCEPT ![w] = IF next \in Targets THEN "run" ELSE "exit"]
  /\ UNCHANGED <<outcome, size, slots, answer>>

\* one(&snapshot, manager, index, ...): the pipeline returns or unwinds.
Run(w) ==
  /\ pc[w] = "run"
  /\ pc' = [pc EXCEPT ![w] = IF outcome[index[w]] = "panic" THEN "dead" ELSE "store"]
  /\ UNCHANGED <<outcome, size, next, index, slots, answer>>

\* Mutant: a worker whose pipeline failed stops without returning to the loop.
StoreAndWait(w) ==
  /\ pc[w] = "store"
  /\ outcome[index[w]] = "ok"
  /\ slots' = [slots EXCEPT ![index[w]] = outcome[index[w]]]
  /\ pc' = [pc EXCEPT ![w] = "claim"]
  /\ UNCHANGED <<outcome, size, next, index, answer>>

\* slots.lock().unwrap()[index] = Some(done)
Store(w) ==
  /\ pc[w] = "store"
  /\ slots' = [slots EXCEPT ![index[w]] = outcome[index[w]]]
  /\ pc' = [pc EXCEPT ![w] = "claim"]
  /\ UNCHANGED <<outcome, size, next, index, answer>>

\* Mutant: the first error is taken in some other order than the targets'.
CollectedLast(results) ==
  IF \A i \in Targets : results[i] = "ok" THEN T!Batches
  ELSE T!FirstError(CHOOSE i \in Targets :
                      /\ results[i] = "err"
                      /\ \A j \in Targets : j > i => results[j] = "ok")

\* What collecting the slots into a Result<Vec<_>, _> returns: the first error.
Collected(results) ==
  IF \A i \in Targets : results[i] = "ok" THEN T!Batches
  ELSE T!FirstError(CHOOSE i \in Targets :
                      /\ results[i] = "err"
                      /\ \A j \in Targets : j < i => results[j] = "ok")

\* The scope joins every worker and resumes the panic of one that unwound.
Join ==
  /\ answer = T!Pending
  /\ \A w \in Workers : pc[w] \in {"exit", "dead"}
  /\ answer' = IF \E w \in Workers : pc[w] = "dead" THEN T!Panicked ELSE Collected(slots)
  /\ UNCHANGED <<outcome, size, next, pc, index, slots>>

\* A finished epoch does nothing more.
Finished == answer # T!Pending /\ UNCHANGED vars

Step(w) == Claim(w) \/ Run(w) \/ Store(w)

Next == Join \/ Finished \/ \E w \in Workers : Step(w)

\* The operating system schedules every started thread, and so the caller.
Fairness == WF_vars(Join) /\ \A w \in 1 .. MaxWorkers : WF_vars(w \in Workers /\ Step(w))

Spec == Init /\ [][Next]_vars
FairSpec == Spec /\ Fairness

-----------------------------------------------------------------------------

TypeOK ==
  /\ outcome \in [Targets -> T!Outcomes]
  /\ size \in 1 .. MaxWorkers
  /\ next \in Nat \ {0}
  /\ pc \in [1 .. MaxWorkers -> {"claim", "run", "store", "exit", "dead"}]
  /\ index \in [1 .. MaxWorkers -> Nat]
  /\ slots \in [Targets -> {"none"} \cup T!Outcomes]
  /\ answer \in T!Answers

\* `expect("every target ran")` in run never fires: when every worker has
\* returned, each slot holds what its own target came to.
EveryTargetRan ==
  (\A w \in Workers : pc[w] = "exit") => \A i \in Targets : slots[i] = outcome[i]

\* Two workers never hold one index, and none runs a target whose slot is
\* filled: the counter hands out every place of the epoch once.
ClaimedOnce ==
  \A w \in Workers : pc[w] \in {"run", "store", "dead"} =>
    /\ slots[index[w]] = "none"
    /\ \A u \in Workers : u # w /\ pc[u] \in {"run", "store", "dead"} => index[u] # index[w]

\* The strengthening the proofs carry: an index below the counter is in its
\* slot or in the hands of one worker, and a slot holds its target's outcome.
Busy(w) == pc[w] \in {"run", "store", "dead"}

WorkersHold ==
  /\ \A w \in Workers : Busy(w) => index[w] \in Targets /\ index[w] < next
  /\ \A w \in Workers : pc[w] = "exit" => next > TargetCount
  /\ \A w \in Workers : pc[w] = "store" => outcome[index[w]] # "panic"
  /\ \A w \in Workers : pc[w] = "dead" => outcome[index[w]] = "panic"
  /\ answer # T!Pending => \A w \in Workers : pc[w] \in {"exit", "dead"}

SlotsHold ==
  \A i \in Targets : /\ slots[i] # "panic"
                     /\ slots[i] # "none" => i < next /\ slots[i] = outcome[i]

NoneDropped ==
  \A i \in Targets :
    i < next => slots[i] # "none" \/ \E w \in Workers : Busy(w) /\ index[w] = i

HandedOut == WorkersHold /\ SlotsHold /\ NoneDropped

\* "Every count reads the same epoch and commits in callable order, so the
\* result is the same" (set_workers): whatever the number of workers and the
\* order they finish in, run answers what the outcomes in target order say.
Deterministic == T!Spec

\* The epoch ends: the workers drain the targets, and the caller is answered.
Answered == <>(answer # T!Pending)
=============================================================================
