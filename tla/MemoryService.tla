---------------------------- MODULE MemoryService ----------------------------
(***************************************************************************)
(* The memory service of libs/simcore/src/memory_service.rs: it takes the  *)
(* effects of one instruction at a time, in sequence.  A plain store is    *)
(* staged until the instruction commits; every other effect happens at     *)
(* once.  Each takes the next memory order when it happens.                *)
(*                                                                         *)
(* A device is a backing whose value is handed out by the first read and   *)
(* is zero from then on.                                                   *)
(***************************************************************************)
EXTENDS Memory

CONSTANT Rmw(_, _)     \* what AtomicRmwOp makes of the old word and the operand

VARIABLES
  space, backings,     \* the address space and the backings
  devices,             \* read_to_clear: backing and value
  active,              \* the instruction under way, or Idle
  lastInstruction,
  reservation,         \* address, size and generation, or <<>>
  nextMemoryOrder,
  effectOrders         \* of this instruction's effects, by sequence

serviceVars ==
  <<space, backings, devices, active, lastInstruction, reservation, nextMemoryOrder, effectOrders>>

Idle == [id |-> 0, nextSequence |-> 0, stores |-> <<>>, failed |-> FALSE, generation |-> 0]

Zeros(size) == [i \in 1..size |-> 0]

\* prune_read_to_clear
Pruned == {d \in devices : \E m \in space.mappings : m.backing = d.backing}

\* device_for_access, of an access that is valid: the devices it meets, and whether it
\* stays inside the mapping of the first.
DevicesMet(start, size) ==
  {m \in Meeting(space, start, size) : size > 0 /\ \E d \in devices : d.backing = m.backing}

InsideDevice(start, size) ==
  LET met == DevicesMet(start, size)
  IN  \E m \in met : /\ \A n \in met : m.start <= n.start
                     /\ m.start <= start /\ start + size <= m.end

\* validate_ram_access
RamAccessible(start, size, permission) ==
  Accessible(space, start, size, permission) /\ DevicesMet(start, size) = {}

------------------------------------------------------------------------------
\* What execute_effect makes of each effect: whether it succeeds, the word it answers, the
\* bytes it writes at once, and what it leaves of the devices, the reservation and the
\* staged stores.

Failed ==
  [ok |-> FALSE, word |-> <<>>, written |-> <<>>, devices |-> devices,
   reservation |-> reservation, stores |-> active.stores]

Done == [Failed EXCEPT !.ok = TRUE]

ReadEffect(e) ==
  LET cells == Cells(space, e.address, e.size)
      device == CHOOSE d \in devices : d.backing = cells[1][1]
      word == [i \in 1..e.size |-> device.value[cells[i][2]]]
  IN  IF ~Accessible(space, e.address, e.size, "read") THEN Failed
      ELSE IF DevicesMet(e.address, e.size) = {}
      THEN [Done EXCEPT !.word = ReadCells(backings, cells)]
      ELSE IF ~InsideDevice(e.address, e.size) THEN Failed
      ELSE [Done EXCEPT !.word = word,
                        !.devices = (@ \ {device}) \cup
                                    {[device EXCEPT !.value = Zeros(Len(device.value))]}]

WriteEffect(e) ==
  IF RamAccessible(e.address, e.size, "write")
  THEN [Done EXCEPT !.stores = Append(@, [sequence |-> active.nextSequence, address |-> e.address,
                                          bytes |-> e.bytes])]
  ELSE Failed

LoadReserved(e) ==
  IF RamAccessible(e.address, e.size, "read")
  THEN [Done EXCEPT !.word = ReadCells(backings, Cells(space, e.address, e.size)),
                    !.reservation = <<e.address, e.size, space.generation>>]
  ELSE Failed

\* Mutant: a reservation outlives a change of the mappings.
StoreConditionalAnywhere(e) ==
  LET success == reservation # <<>> /\ <<reservation[1], reservation[2]>> = <<e.address, e.size>>
      taken == [Done EXCEPT !.reservation = <<>>]
  IN  IF ~success THEN [taken EXCEPT !.word = <<0>>]
      ELSE IF ~RamAccessible(e.address, e.size, "write") THEN [taken EXCEPT !.ok = FALSE]
      ELSE [taken EXCEPT !.word = <<1>>, !.written = e.bytes]

StoreConditional(e) ==
  LET success == reservation = <<e.address, e.size, space.generation>>
      taken == [Done EXCEPT !.reservation = <<>>]
  IN  IF ~success THEN [taken EXCEPT !.word = <<0>>]
      ELSE IF ~RamAccessible(e.address, e.size, "write") THEN [taken EXCEPT !.ok = FALSE]
      ELSE [taken EXCEPT !.word = <<1>>, !.written = e.bytes]

AtomicRmw(e) ==
  LET old == ReadCells(backings, Cells(space, e.address, e.size))
  IN  IF RamAccessible(e.address, e.size, "read") /\ RamAccessible(e.address, e.size, "write")
      THEN [Done EXCEPT !.word = old, !.written = Rmw(old, e.bytes)]
      ELSE Failed

ExecuteEffect(e) ==
  CASE e.kind = "read" -> ReadEffect(e)
    [] e.kind = "write" -> WriteEffect(e)
    [] e.kind = "load_reserved" -> LoadReserved(e)
    [] e.kind = "store_conditional" -> StoreConditional(e)
    [] e.kind = "atomic_rmw" -> AtomicRmw(e)
    [] e.kind \in {"fence", "exception"} -> Done

\* linearizes_immediately
LinearizesImmediately(e) == e.kind \notin {"write", "exception"}

\* The effects that may not follow a staged store.
Observing(e) == e.kind \in {"read", "load_reserved", "store_conditional", "atomic_rmw", "fence"}

------------------------------------------------------------------------------
\* The operations.  A refused one changes nothing.

InitService ==
  /\ devices = {}
  /\ active = Idle
  /\ lastInstruction = 0
  /\ reservation = <<>>
  /\ nextMemoryOrder = 0
  /\ effectOrders = <<>>

BeginInstruction(id) ==
  /\ active = Idle /\ id > lastInstruction
  /\ devices' = Pruned
  /\ lastInstruction' = id
  /\ effectOrders' = <<>>
  /\ active' = [Idle EXCEPT !.id = id, !.generation = space.generation]
  /\ UNCHANGED <<space, backings, reservation, nextMemoryOrder>>

ServiceRefused(id, sequence, e) ==
  \/ active = Idle \/ active.id # id \/ active.nextSequence # sequence
  \/ active.failed
  \/ active.generation # space.generation
  \/ active.stores # <<>> /\ Observing(e)

\* effect_orders.insert of each of `orders`.
Inserted(orders) ==
  [s \in DOMAIN effectOrders \cup DOMAIN orders |->
     IF s \in DOMAIN orders THEN orders[s] ELSE effectOrders[s]]

\* service, when it is ready.
Service(id, sequence, e) ==
  LET outcome == ExecuteEffect(e)
      ordered == outcome.ok /\ LinearizesImmediately(e)
  IN  /\ ~ServiceRefused(id, sequence, e)
      /\ backings' = IF outcome.written = <<>> THEN backings
                     ELSE WriteCells(backings, Cells(space, e.address, e.size), outcome.written)
      /\ devices' = outcome.devices
      /\ reservation' = outcome.reservation
      /\ nextMemoryOrder' = IF ordered THEN nextMemoryOrder + 1 ELSE nextMemoryOrder
      /\ effectOrders' = IF ordered THEN Inserted([s \in {sequence} |-> nextMemoryOrder])
                         ELSE effectOrders
      /\ active' = [active EXCEPT !.nextSequence = @ + 1, !.failed = ~outcome.ok,
                                  !.stores = outcome.stores]
      /\ UNCHANGED <<space, lastInstruction>>

CommitRefused(id) ==
  \/ active = Idle \/ active.id # id
  \/ active.failed
  \/ active.generation # space.generation
  \/ \E i \in DOMAIN active.stores :
       ~Accessible(space, active.stores[i].address, Len(active.stores[i].bytes), "write")

Publish(b, store) == WriteCells(b, Cells(space, store.address, Len(store.bytes)), store.bytes)

\* Mutant: the last store staged is the first to be published.
PublishedReversed(stores) ==
  LET after[n \in 0..Len(stores)] ==
        IF n = 0 THEN backings ELSE Publish(after[n - 1], stores[Len(stores) + 1 - n])
  IN  after[Len(stores)]

\* The backings once the staged stores are written, in the order they were staged.
Published(stores) ==
  LET after[n \in 0..Len(stores)] ==
        IF n = 0 THEN backings ELSE Publish(after[n - 1], stores[n])
  IN  after[Len(stores)]

CommitInstruction(id) ==
  LET stores == active.stores
      order == [i \in DOMAIN stores |-> nextMemoryOrder + i - 1]
  IN  /\ ~CommitRefused(id)
      /\ backings' = Published(stores)
      /\ nextMemoryOrder' = nextMemoryOrder + Len(stores)
      /\ effectOrders' = Inserted([s \in {stores[i].sequence : i \in DOMAIN stores} |->
                                     order[CHOOSE i \in DOMAIN stores : stores[i].sequence = s]])
      /\ active' = Idle
      /\ UNCHANGED <<space, devices, lastInstruction, reservation>>

AbortInstruction(id) ==
  /\ active # Idle /\ active.id = id
  /\ active' = Idle
  /\ UNCHANGED <<space, backings, devices, lastInstruction, reservation, nextMemoryOrder, effectOrders>>
=============================================================================
