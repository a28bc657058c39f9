----------------------------- MODULE MCUseLists -----------------------------
(* Model checking UseLists: a tail outgrows the base with one entry more   *)
(* than half of it, so that bases are built, folded and outlived within a  *)
(* few ticks.  Ops and values are only compared for equality.              *)
EXTENDS UseLists, TLC

Symmetry == Permutations(Owners) \cup Permutations(Cells)
=============================================================================
