------------------------------ MODULE MCEGraph ------------------------------
(* A small instance of EGraph for TLC. *)
EXTENDS EGraph

TwoSlots == <<"leaf", "unary">>
=============================================================================
