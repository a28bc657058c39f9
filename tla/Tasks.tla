------------------------------- MODULE Tasks -------------------------------
(***************************************************************************)
(* What one epoch of callable tasks promises its caller (core/src/pass.rs, *)
(* `mod tasks`): every target is run once over the same snapshot and the   *)
(* answer is the one a loop over the targets would give, whatever the      *)
(* number of workers: the first error in target order, or every batch in   *)
(* target order.  A pass that panics takes the whole epoch down.           *)
(***************************************************************************)
EXTENDS Naturals

CONSTANT TargetCount                \* targets.len()

Targets == 1 .. TargetCount

\* What `one` makes of a target: a batch, a PassError, or an unwinding panic.
Outcomes == {"ok", "err", "panic"}

Pending == [kind |-> "pending"]
Panicked == [kind |-> "panic"]
Batches == [kind |-> "batches"]
FirstError(i) == [kind |-> "error", target |-> i]

Answers == {Pending, Panicked, Batches} \cup {FirstError(i) : i \in Targets}

VARIABLES
  outcome,                          \* what each target's pipeline comes to
  ran,                              \* the targets whose pipeline has run
  answer                            \* what `run` returned

vars == <<outcome, ran, answer>>

Init ==
  /\ outcome \in [Targets -> Outcomes]
  /\ ran = {}
  /\ answer = Pending

\* One target's pipeline runs, in any order and at most once.
RunTarget(i) ==
  /\ answer = Pending
  /\ i \notin ran
  /\ ran' = ran \cup {i}
  /\ UNCHANGED <<outcome, answer>>

\* Every target ran and `i` is the first in target order that failed.
ReturnError(i) ==
  /\ answer = Pending
  /\ ran = Targets
  /\ \A j \in Targets : outcome[j] # "panic"
  /\ outcome[i] = "err"
  /\ \A j \in Targets : j < i => outcome[j] = "ok"
  /\ answer' = FirstError(i)
  /\ UNCHANGED <<outcome, ran>>

\* Every target ran and none failed: the batches go on to the commit.
ReturnBatches ==
  /\ answer = Pending
  /\ ran = Targets
  /\ \A j \in Targets : outcome[j] = "ok"
  /\ answer' = Batches
  /\ UNCHANGED <<outcome, ran>>

\* A pipeline that ran panicked: no batch reaches the caller.
Unwind ==
  /\ answer = Pending
  /\ \E i \in ran : outcome[i] = "panic"
  /\ answer' = Panicked
  /\ UNCHANGED <<outcome, ran>>

Next ==
  \/ ReturnBatches
  \/ Unwind
  \/ \E i \in Targets : RunTarget(i) \/ ReturnError(i)

Spec == Init /\ [][Next]_vars
=============================================================================
