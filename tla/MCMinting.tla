----------------------------- MODULE MCMinting -----------------------------
(* Model checking Minting with two rows to a chunk, so that partitions     *)
(* open, fill and change chunks within a few rows.                         *)
EXTENDS Minting

\* Epochs over two functions, over a function and the module, over the module
\* twice, and over one function alone: no function has two targets.
Apart == {<<1, 2>>, <<1, 0>>, <<0, 0>>, <<1>>}

\* Epochs over two targets inside one function, as a nest over an operation
\* that a function holds has.
Sharing == {<<1, 1>>}
=============================================================================
