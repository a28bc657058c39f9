---------------------------- MODULE MCUnionFind ----------------------------
(***************************************************************************)
(* UnionFind over a carrier two bits wide.                                 *)
(***************************************************************************)
EXTENDS Integers, UnionFind

CONSTANT Width            \* bits of the carrier

PlusModulo(x, y) == (x + y) % 2^Width
MinusModulo(x, y) == (x - y) % 2^Width
ValuesModulo == 0..(2^Width - 1)

\* Equal references, and one that lies one above the other.
AsksOne == {<<0, 0>>, <<1, 0>>}
KindsCarried == {<<TRUE, FALSE>>, <<TRUE, TRUE>>}
=============================================================================
