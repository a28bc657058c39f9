---------------------------- MODULE MCBlockOrder ----------------------------
(* Model checking BlockOrder: the counter runs out after a few appends, and *)
(* a gap of four takes two inserts.                                         *)
EXTENDS BlockOrder
=============================================================================
