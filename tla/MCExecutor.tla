----------------------------- MODULE MCExecutor -----------------------------
(* A small instance of Executor for TLC. *)
EXTENDS Executor

Load(address, size) == [kind |-> "read", address |-> address, size |-> size]
Store(address, bytes) == [kind |-> "write", address |-> address, size |-> Len(bytes), bytes |-> bytes]
Reserve(address, size) == [kind |-> "load_reserved", address |-> address, size |-> size]
Conditional(address, bytes) ==
  [kind |-> "store_conditional", address |-> address, size |-> Len(bytes), bytes |-> bytes]
Atomic(address, bytes) ==
  [kind |-> "atomic_rmw", address |-> address, size |-> Len(bytes), bytes |-> bytes]

Programs ==
  {<<Load(1, 2)>>, <<Load(2, 1)>>, <<Store(2, <<1>>)>>,
   <<Load(2, 1), Store(2, <<1>>)>>, <<Store(0, <<1, 2>>), Store(1, <<3, 1>>)>>,
   <<Store(0, <<1>>), Load(2, 1)>>,
   <<Reserve(1, 1)>>, <<Conditional(1, <<2>>)>>, <<Atomic(1, <<3, 3>>)>>,
   <<[kind |-> "exception"]>>}

Ranges == {<<0, 2>>, <<1, 1>>, <<2, 2>>}

Exchange(old, operand) == operand
=============================================================================
