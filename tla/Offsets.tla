------------------------------ MODULE Offsets ------------------------------
(***************************************************************************)
(* The offsets at which the union-find of libs/relational places ids.      *)
(*                                                                         *)
(* The code adds and subtracts u64 with wrap-around and reduces the result *)
(* by the mask of a carrier, 2^w - 1.  Masking is a homomorphism from the  *)
(* machine's additions to those modulo 2^w, so all that the union-find     *)
(* relies on is that the offsets of a carrier form a commutative group.    *)
(* An id without a carrier has the mask 0: every offset on it reads as     *)
(* zero.                                                                   *)
(***************************************************************************)
CONSTANTS
  Values,        \* the offsets of the carrier: the numbers modulo 2^w
  Zero,          \* offset 0
  Plus(_, _),    \* wrapping_add, masked
  Minus(_, _)    \* wrapping_sub, masked

\* The offsets of a carrier are a commutative group under wrapping addition.
ASSUME OffsetsAssumption ==
  /\ Zero \in Values
  /\ \A x, y \in Values :
       /\ Plus(x, y) \in Values
       /\ Minus(x, y) \in Values
       /\ Plus(x, y) = Plus(y, x)
       /\ Plus(x, Zero) = x
       /\ Minus(x, x) = Zero
       /\ Plus(Minus(x, y), y) = x
       /\ \A z \in Values : Plus(Plus(x, y), z) = Plus(x, Plus(y, z))

\* offset & mask, where the mask is that of the carrier or 0.
Reduce(carried, x) == IF carried THEN x ELSE Zero
=============================================================================
