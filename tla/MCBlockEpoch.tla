---------------------------- MODULE MCBlockEpoch ----------------------------
(* Model checking BlockEpoch: a block of two ops left of up to seven, a task   *)
(* that mints two ops, enough to renumber, one that mints one, and the       *)
(* context, which appends one.                                               *)
EXTENDS BlockEpoch

MintedOps == [t \in 0 .. 2 |-> IF t = 0 THEN {6} ELSE IF t = 1 THEN {3, 4} ELSE {5}]
=============================================================================
