------------------------------- MODULE MCSat -------------------------------
(* A small instance of Sat for TLC. *)
EXTENDS Sat

Clauses ==
  <<<<1, 3, 4>>, <<1, 3, -4>>, <<2, 3>>, <<-3, 4, 2>>, <<-1, 2>>, <<-2, -1, 4>>, <<1, -2>>,
    <<-3, -4>>, <<3, -2, -4>>, <<4>>, <<-2, -2>>, <<1, -1>>>>
=============================================================================
