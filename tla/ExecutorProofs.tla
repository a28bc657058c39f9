--------------------------- MODULE ExecutorProofs ---------------------------
(* An instruction that traps is precise, and an instruction with several   *)
(* accesses that began commits, for every address space, every set of      *)
(* instructions and every way the host maps memory.                        *)
(*                                                                         *)
(* The inductive invariant says what the frame and the service agree on    *)
(* while an instruction runs.  Of one with several effects it says that    *)
(* what the preflight found still holds, as nobody can change the mappings *)
(* or the devices; of one with a single effect, that nothing has changed   *)
(* until that effect succeeds.                                             *)
(*                                                                         *)
(* A second invariant ties the reservation the service holds to the        *)
(* recorded events: a store_conditional writes only under the last         *)
(* load_reserved.                                                          *)
(*                                                                         *)
(* A third ties memory, byte by byte, to the recorded events: the writes   *)
(* that were given an order leave what is there, and a store that is       *)
(* staged has its event, which is given its order by the commit.  What the *)
(* commit publishes is found by induction over the staged stores.          *)
EXTENDS Executor, WellFoundedInduction, TLAPS

\* A store that is staged.
Stores == [sequence : Nat, address : Nat, bytes : Seq(Nat)]

Actives ==
  [id : Nat, nextSequence : Nat, stores : Seq(Stores), failed : BOOLEAN, generation : Nat]

\* `write` is whatever the effects answered.
FrameTyped ==
  /\ frame = [effects |-> frame.effects, sequence |-> frame.sequence, write |-> frame.write,
              failed |-> frame.failed, running |-> frame.running]
  /\ frame.sequence \in Nat /\ frame.failed \in BOOLEAN /\ frame.running \in BOOLEAN

Typed ==
  /\ space.generation \in Nat
  /\ active \in Actives
  /\ nextInstruction \in Nat \ {0}
  /\ FrameTyped

\* Every staged store would be written.
Staged ==
  \A i \in DOMAIN active.stores :
    Accessible(space, active.stores[i].address, Len(active.stores[i].bytes), "write")

\* The frame and the service are at the same effect.
InStep ==
  /\ frame.effects \in Instructions
  /\ active.id = Id /\ Id > 0 /\ lastFault = NoFault
  /\ frame.sequence <= Len(frame.effects)
  /\ ~frame.failed => active.nextSequence = frame.sequence /\ ~active.failed
  /\ Staged

\* An instruction with several effects.
Several ==
  /\ ~frame.failed
  /\ active.generation = space.generation
  /\ Preflight(frame.effects)
  /\ active.stores # <<>> => \E j \in 1..frame.sequence : frame.effects[j].kind = "write"

Found == entry = <<backings, devices, register>>

\* An instruction with one effect, or none.
Single ==
  /\ frame.failed => frame.sequence = 0
  /\ frame.sequence = 0 => Found /\ active.stores = <<>>
  /\ frame.sequence = 1 /\ frame.effects[1].kind = "exception" => Found
  /\ frame.sequence = 1 /\ frame.effects[1].kind # "exception" =>
       active.generation = space.generation

IInv ==
  /\ Typed
  /\ frame.running =>
       /\ InStep
       /\ Len(frame.effects) > 1 => Several
       /\ Len(frame.effects) <= 1 => Single

-----------------------------------------------------------------------------
\* What execute_effect may do to the staged stores: a store that succeeds is staged, and
\* nothing else touches them.
LEMMA EffectStores ==
  ASSUME NEW e, e.kind \in Kinds
  PROVE  /\ ExecuteEffect(e).ok \in BOOLEAN
         /\ ExecuteEffect(e).stores =
              IF e.kind = "write" /\ ExecuteEffect(e).ok
              THEN Append(active.stores, [sequence |-> active.nextSequence, address |-> e.address,
                                          bytes |-> e.bytes])
              ELSE active.stores
         /\ e.kind = "write" /\ ExecuteEffect(e).ok => RamAccessible(e.address, e.size, "write")
<1>1. CASE e.kind = "read"
  BY <1>1 DEF ExecuteEffect, ReadEffect, Done, Failed
<1>2. CASE e.kind = "write"
  BY <1>2 DEF ExecuteEffect, WriteEffect, Done, Failed
<1>3. CASE e.kind = "load_reserved"
  BY <1>3 DEF ExecuteEffect, LoadReserved, Done, Failed
<1>4. CASE e.kind = "store_conditional"
  BY <1>4 DEF ExecuteEffect, StoreConditional, Done, Failed
<1>5. CASE e.kind = "atomic_rmw"
  BY <1>5 DEF ExecuteEffect, AtomicRmw, Done, Failed
<1>6. CASE e.kind \in {"fence", "exception"}
  BY <1>6, Zenon DEF ExecuteEffect, Done, Failed
<1> QED BY <1>1, <1>2, <1>3, <1>4, <1>5, <1>6 DEF Kinds

\* An effect that fails writes nothing and takes nothing from a device.
LEMMA EffectFails ==
  ASSUME NEW e, e.kind \in Kinds, ~ExecuteEffect(e).ok
  PROVE  ExecuteEffect(e).written = <<>> /\ ExecuteEffect(e).devices = devices
<1>1. CASE e.kind = "read"
  BY <1>1 DEF ExecuteEffect, ReadEffect, Done, Failed
<1>2. CASE e.kind = "write"
  BY <1>2 DEF ExecuteEffect, WriteEffect, Done, Failed
<1>3. CASE e.kind = "load_reserved"
  BY <1>3 DEF ExecuteEffect, LoadReserved, Done, Failed
<1>4. CASE e.kind = "store_conditional"
  BY <1>4 DEF ExecuteEffect, StoreConditional, Done, Failed
<1>5. CASE e.kind = "atomic_rmw"
  BY <1>5 DEF ExecuteEffect, AtomicRmw, Done, Failed
<1>6. CASE e.kind \in {"fence", "exception"}
  BY <1>6 DEF ExecuteEffect, Done, Failed
<1> QED BY <1>1, <1>2, <1>3, <1>4, <1>5, <1>6 DEF Kinds

\* A load or a store of RAM that is mapped for it succeeds, and meets no device.
LEMMA RamSucceeds ==
  ASSUME NEW e, e.kind \in {"read", "write"}, RamAccessible(e.address, e.size, e.kind)
  PROVE  ExecuteEffect(e).ok /\ ExecuteEffect(e).devices = devices
<1>1. CASE e.kind = "read"
  BY <1>1, Zenon DEF ExecuteEffect, ReadEffect, RamAccessible, Done, Failed
<1>2. CASE e.kind = "write"
  BY <1>2, Zenon DEF ExecuteEffect, WriteEffect, Done, Failed
<1> QED BY <1>1, <1>2

\* What the preflight finds depends on the mappings and the devices they reach alone.
LEMMA PreflightPruned ==
  ASSUME NEW effects, Preflight(effects), space' = space, devices' \in {devices, Pruned}
  PROVE  Preflight(effects)'
<1>1. \A start, size : DevicesMet(start, size) = {} => DevicesMet(start, size)' = {}
  BY DEF DevicesMet, Meeting, Pruned
<1>2. \A start, size, permission :
        RamAccessible(start, size, permission) => RamAccessible(start, size, permission)'
  BY <1>1 DEF RamAccessible
<1> QED BY <1>2 DEF Preflight, Footprint

\* The host moves the generation on with every change, or leaves the mappings.
LEMMA HostChanges ==
  ASSUME space.generation \in Nat, HostChange
  PROVE  space'.generation \in Nat
BY DEF HostChange, HostMap, HostAlias, HostProtect, HostUnmap, MapReadToClear, Mapped, ReplaceRange

-----------------------------------------------------------------------------
\* No instruction, and one that begins, has the type of `active`.
LEMMA ActiveTyped ==
  /\ Idle \in Actives
  /\ \A id, generation \in Nat :
       [Idle EXCEPT !.id = id, !.generation = generation] \in Actives
<1>1. <<>> \in Seq(Stores)
  OBVIOUS
<1> QED BY <1>1, Zenon DEF Idle, Actives

\* Executor::new_at starts in the invariant.
LEMMA InitIInv == Init => IInv
<1> SUFFICES ASSUME Init PROVE IInv
  OBVIOUS
<1>1. space.generation \in Nat
  BY SMTT(40) DEF Init, Mapped, EmptySpace
<1>2. active \in Actives
  BY ActiveTyped, Zenon DEF Init, InitService
<1>3. FrameTyped /\ ~frame.running
  BY Zenon DEF Init, FrameTyped, NoFrame, Framed
<1> QED BY <1>1, <1>2, <1>3 DEF IInv, Typed, Init

\* When no frame is running, only the types are left to show.
LEMMA NotRunning ==
  ASSUME Typed, space'.generation \in Nat, active' \in Actives,
         nextInstruction' \in Nat \ {0}, frame' = NoFrame
  PROVE  IInv'
BY Zenon DEF IInv, Typed, FrameTyped, NoFrame, Framed

\* execute_frame up to begin_instruction keeps the invariant.
LEMMA StartIInv ==
  ASSUME IInv, NEW effects \in Instructions, Start(effects)
  PROVE  IInv'
<1>1. CASE ~Preflight(effects)
  BY <1>1, NotRunning DEF IInv, Typed, Start, serviceVars
<1>2. CASE Preflight(effects)
  <2>1. /\ active' = [Idle EXCEPT !.id = nextInstruction, !.generation = space.generation]
        /\ frame' = Framed(effects) /\ devices' = Pruned
        /\ UNCHANGED <<space, backings, register>>
        /\ entry' = <<backings, devices', register>>
        /\ nextInstruction' = nextInstruction + 1 /\ lastFault' = NoFault
    BY <1>2 DEF Start, BeginInstruction
  <2>2. Len(effects) \in Nat
    BY InstructionsAssumption
  <2>3. Typed'
    <3>1. FrameTyped'
      BY <2>1 DEF FrameTyped, Framed
    <3>2. nextInstruction \in Nat \ {0} /\ space.generation \in Nat
      BY SMTT(40) DEF IInv, Typed
    <3>3. active' \in Actives
      BY <2>1, <3>2, ActiveTyped, Zenon
    <3> QED BY <2>1, <3>1, <3>2, <3>3 DEF Typed
  <2>4. InStep'
    BY <2>1, <2>2 DEF IInv, Typed, InStep, Staged, Framed, Idle, Id
  <2>5. Several'
    BY <1>2, <2>1, PreflightPruned DEF Several, Framed, Idle
  <2>6. Single'
    BY <2>1 DEF Single, Found, Framed, Idle
  <2> QED BY <2>3, <2>4, <2>5, <2>6 DEF IInv
<1> QED BY <1>1, <1>2

\* The effect that is pending is one of the instruction's.
LEMMA PendingEffect ==
  ASSUME IInv, frame.running, frame.sequence < Len(frame.effects)
  PROVE  /\ Len(frame.effects) \in Nat /\ DOMAIN frame.effects = 1..Len(frame.effects)
         /\ frame.sequence + 1 \in 1..Len(frame.effects)
         /\ Pending = frame.effects[frame.sequence + 1]
         /\ Pending.kind \in Kinds
         /\ Pending.kind = "write" =>
              /\ Pending.address \in Nat
              /\ Pending.bytes \in Seq(Nat) /\ Pending.size = Len(Pending.bytes)
<1>1. frame.effects \in Instructions /\ frame.sequence \in Nat
  BY DEF IInv, InStep, Typed, FrameTyped
<1> QED BY <1>1, InstructionsAssumption DEF Pending

\* Of an instruction with several effects, the service refuses none and every one succeeds.
LEMMA SeveralSucceeds ==
  ASSUME IInv, frame.running, Len(frame.effects) > 1, frame.sequence < Len(frame.effects)
  PROVE  /\ Pending.kind \in {"read", "write"}
         /\ RamAccessible(Pending.address, Pending.size, Pending.kind)
         /\ ~ServiceRefused(Id, frame.sequence, Pending)
         /\ ExecuteEffect(Pending).ok /\ ExecuteEffect(Pending).devices = devices
<1>1. Several /\ InStep /\ Typed
  BY DEF IInv
<1>2. /\ Pending.kind \in {"read", "write"}
      /\ RamAccessible(Pending.address, Pending.size, Pending.kind)
      /\ Pending.kind = "read" => \A j \in 1..frame.sequence : frame.effects[j].kind = "read"
  BY <1>1, PendingEffect DEF Several, Preflight, Footprint, Typed, FrameTyped
<1>3. Pending.kind = "read" => active.stores = <<>>
  BY <1>1, <1>2 DEF Several
<1>4. active # Idle /\ active.id = Id /\ active.nextSequence = frame.sequence /\ ~active.failed
  BY <1>1 DEF Several, InStep, Idle
<1>5. ~ServiceRefused(Id, frame.sequence, Pending)
  BY <1>1, <1>2, <1>3, <1>4 DEF ServiceRefused, Observing, Several
<1> QED BY <1>2, <1>5, RamSucceeds

\* Servicing an effect, and resuming the frame on the answer, keeps the invariant.
LEMMA EffectIInv ==
  ASSUME IInv, Effect
  PROVE  IInv'
<1> DEFINE ok == ExecuteEffect(Pending).ok
           stores == ExecuteEffect(Pending).stores
<1>1. /\ frame.running /\ ~frame.failed /\ frame.sequence < Len(frame.effects)
      /\ Pending.kind # "exception"
      /\ ~ServiceRefused(Id, frame.sequence, Pending)
      /\ active' = [active EXCEPT !.nextSequence = @ + 1, !.failed = ~ok, !.stores = stores]
      /\ devices' = ExecuteEffect(Pending).devices
      /\ backings' = IF ExecuteEffect(Pending).written = <<>> THEN backings
                     ELSE WriteCells(backings, Cells(space, Pending.address, Pending.size),
                                     ExecuteEffect(Pending).written)
      /\ UNCHANGED <<space, register, nextInstruction, lastFault, entry>>
  BY DEF Effect, Service
<1>2. /\ ok => frame' = [frame EXCEPT !.sequence = @ + 1, !.write = frame'.write]
      /\ ~ok => frame' = [frame EXCEPT !.failed = TRUE]
  <2>1. frame' = IF ok
                 THEN [frame EXCEPT !.sequence = @ + 1,
                                    !.write = IF ExecuteEffect(Pending).word = <<>> THEN @
                                              ELSE ExecuteEffect(Pending).word]
                 ELSE [frame EXCEPT !.failed = TRUE]
    BY DEF Effect
  <2> QED BY <2>1, Zenon DEF IInv, Typed, FrameTyped
<1>3. Typed /\ InStep /\ Pending.kind \in Kinds
  BY <1>1, PendingEffect DEF IInv
<1>4. /\ ok \in BOOLEAN
      /\ stores = IF Pending.kind = "write" /\ ok
                  THEN Append(active.stores, [sequence |-> active.nextSequence,
                                              address |-> Pending.address, bytes |-> Pending.bytes])
                  ELSE active.stores
      /\ Pending.kind = "write" /\ ok => RamAccessible(Pending.address, Pending.size, "write")
  BY <1>3, EffectStores
<1> HIDE DEF ok, stores
<1>5. /\ frame'.effects = frame.effects /\ frame'.running
      /\ ok => frame'.sequence = frame.sequence + 1 /\ ~frame'.failed
      /\ ~ok => frame'.sequence = frame.sequence /\ frame'.failed
      /\ FrameTyped'
  <2>1. frame.failed = FALSE /\ frame.running = TRUE /\ frame.sequence \in Nat
    BY <1>1, <1>3 DEF Typed, FrameTyped
  <2>2. CASE ok
    <3>1. PICK w : frame' = [effects |-> frame.effects, sequence |-> frame.sequence + 1,
                             write |-> w, failed |-> FALSE, running |-> TRUE]
      BY <1>2, <1>3, <2>1, <2>2, Zenon DEF Typed, FrameTyped
    <3> QED BY <2>1, <2>2, <3>1 DEF FrameTyped
  <2>3. CASE ~ok
    <3>1. frame' = [effects |-> frame.effects, sequence |-> frame.sequence,
                    write |-> frame.write, failed |-> TRUE, running |-> TRUE]
      BY <1>2, <1>3, <2>1, <2>3 DEF Typed, FrameTyped
    <3> QED BY <2>1, <2>3, <3>1 DEF FrameTyped
  <2> QED BY <2>2, <2>3
<1>6. active' \in Actives /\ (Staged => Staged')
  <2>0. ASSUME stores \in Seq(Stores) PROVE active' \in Actives /\ active'.stores = stores
    <3> DEFINE failed == ~ok
    <3>1. failed \in BOOLEAN
      OBVIOUS
    <3>2. active' = [active EXCEPT !.nextSequence = @ + 1, !.failed = failed, !.stores = stores]
      BY <1>1
    <3> HIDE DEF failed
    <3>3. active \in Actives
      BY <1>3 DEF Typed
    <3>4. active' = [id |-> active.id, nextSequence |-> active.nextSequence + 1, stores |-> stores,
                     failed |-> failed, generation |-> active.generation]
      BY <3>2, <3>3, Zenon DEF Actives
    <3>5. active.id \in Nat /\ active.nextSequence + 1 \in Nat /\ active.generation \in Nat
      BY <3>3 DEF Actives
    <3> QED BY <2>0, <3>1, <3>4, <3>5 DEF Actives
  <2>1. active.stores \in Seq(Stores) /\ active.nextSequence \in Nat
    BY <1>3 DEF Typed, Actives
  <2>2. CASE ~(Pending.kind = "write" /\ ok)
    <3>1. active' \in Actives /\ active'.stores = active.stores
      BY <1>4, <2>0, <2>1, <2>2
    <3> QED BY <1>1, <3>1 DEF Staged
  <2>3. CASE Pending.kind = "write" /\ ok
    <3> DEFINE new == [sequence |-> active.nextSequence, address |-> Pending.address,
                       bytes |-> Pending.bytes]
    <3>1. new \in Stores /\ Pending.size = Len(Pending.bytes)
      BY <1>1, <2>1, <2>3, PendingEffect DEF Stores
    <3>2. Accessible(space, new.address, Len(new.bytes), "write")
      BY <1>4, <2>3, <3>1 DEF RamAccessible
    <3>3. stores = Append(active.stores, new)
      BY <1>4, <2>3
    <3> HIDE DEF new
    <3>4. /\ stores \in Seq(Stores)
          /\ \A i \in DOMAIN stores :
               \/ i \in DOMAIN active.stores /\ stores[i] = active.stores[i]
               \/ stores[i] = new
      BY <2>1, <3>1, <3>3
    <3>5. active' \in Actives /\ active'.stores = stores
      BY <2>0, <3>4
    <3> QED BY <1>1, <3>2, <3>4, <3>5 DEF Staged
  <2> QED BY <2>2, <2>3
<1>7. Typed'
  BY <1>1, <1>3, <1>5, <1>6 DEF Typed
<1>8. /\ active'.id = active.id /\ active'.generation = active.generation
      /\ active'.nextSequence = active.nextSequence + 1 /\ (ok => ~active'.failed)
      /\ active'.stores = stores
      /\ frame.sequence \in Nat /\ Len(frame.effects) \in Nat
  BY <1>1, <1>3, PendingEffect DEF Typed, Actives, FrameTyped
<1>9. InStep'
  <2>1. Id' = Id /\ Staged' /\ active.nextSequence = frame.sequence /\ lastFault' = NoFault
    BY <1>1, <1>3, <1>6 DEF InStep, Id
  <2>2. ok \/ (~ok /\ frame'.failed)
    BY <1>4, <1>5
  <2> QED BY <1>1, <1>3, <1>5, <1>8, <2>1, <2>2 DEF InStep
<1>10. ASSUME Len(frame.effects) > 1 PROVE Several'
  <2>1. ok /\ devices' = devices /\ Several
    BY <1>1, <1>10, SeveralSucceeds DEF IInv, ok
  <2>2. Preflight(frame.effects)'
    BY <1>1, <1>5, <2>1, PreflightPruned DEF Several
  <2>3. stores # <<>> => \E j \in 1..(frame.sequence + 1) : frame.effects[j].kind = "write"
    <3>1. CASE Pending.kind = "write"
      BY <1>8, <3>1 DEF Pending
    <3>2. CASE Pending.kind # "write"
      BY <1>4, <1>8, <2>1, <3>2 DEF Several
    <3> QED BY <3>1, <3>2
  <2> QED BY <1>1, <1>5, <1>8, <2>1, <2>2, <2>3 DEF Several
<1>11. ASSUME Len(frame.effects) <= 1 PROVE Single'
  <2>0. /\ frame.sequence \in Nat /\ Len(frame.effects) \in Nat
        /\ frame.sequence < Len(frame.effects)
    BY <1>1, <1>8
  <2>1. frame.sequence = 0 /\ Len(frame.effects) = 1
    <3>1. \A n, l \in Nat : n < l /\ l <= 1 => n = 0 /\ l = 1
      OBVIOUS
    <3> QED BY <1>11, <2>0, <3>1, Zenon
  <2>4. Found /\ active.stores = <<>>
    BY <1>1, <1>11, <2>1 DEF IInv, Single
  <2>2. CASE ok
    <3>1. active.generation = space.generation
      BY <1>1 DEF ServiceRefused
    <3> QED BY <1>1, <1>5, <1>8, <2>1, <2>2, <3>1 DEF Single, Pending
  <2>3. CASE ~ok
    <3>1. backings' = backings /\ devices' = devices
      BY <1>1, <1>3, <2>3, EffectFails DEF ok
    <3> QED BY <1>1, <1>4, <1>5, <1>8, <2>1, <2>3, <2>4, <3>1 DEF Single, Found
  <2> QED BY <2>2, <2>3
<1> QED BY <1>5, <1>7, <1>9, <1>10, <1>11 DEF IInv

\* An instruction that still has an effect to yield, and does not have several, has one.
LEMMA OnlyEffect ==
  ASSUME IInv, frame.running, frame.sequence < Len(frame.effects), ~(Len(frame.effects) > 1)
  PROVE  frame.sequence = 0 /\ Len(frame.effects) = 1 /\ Single
<1>1. frame.sequence \in Nat /\ Len(frame.effects) \in Nat
  BY PendingEffect DEF IInv, Typed, FrameTyped
<1>2. \A n, l \in Nat : n < l /\ ~(l > 1) => n = 0 /\ l = 1
  OBVIOUS
<1>3. frame.sequence = 0 /\ Len(frame.effects) = 1
  BY <1>1, <1>2, Zenon
<1> QED BY <1>3 DEF IInv

\* raise_exception keeps the invariant, whatever the handler maps.
LEMMA ExceptionIInv ==
  ASSUME IInv, Exception
  PROVE  IInv'
<1>1. /\ frame.running /\ ~frame.failed /\ frame.sequence < Len(frame.effects)
      /\ Pending.kind = "exception"
      /\ active' = [active EXCEPT !.nextSequence = @ + 1]
      /\ entry' = <<backings', devices', register>>
      /\ UNCHANGED <<register, nextInstruction, lastFault>>
  BY DEF Exception
<1>2. Typed /\ InStep
  BY <1>1 DEF IInv
<1>3. ~(Len(frame.effects) > 1)
  BY <1>1, SeveralSucceeds
<1>4. frame.sequence = 0 /\ Len(frame.effects) = 1 /\ Single
  BY <1>1, <1>3, OnlyEffect
<1>5. space'.generation \in Nat
  BY <1>2, HostChanges DEF Exception, Typed
<1>6. /\ active' \in Actives /\ active'.id = active.id /\ active'.stores = active.stores
      /\ active'.nextSequence = active.nextSequence + 1 /\ active'.failed = active.failed
  <2>1. active \in Actives
    BY <1>2 DEF Typed
  <2>2. active' = [id |-> active.id, nextSequence |-> active.nextSequence + 1,
                   stores |-> active.stores, failed |-> active.failed,
                   generation |-> active.generation]
    BY <1>1, <2>1 DEF Actives
  <2>3. /\ active.id \in Nat /\ active.nextSequence + 1 \in Nat /\ active.generation \in Nat
        /\ active.stores \in Seq(Stores) /\ active.failed \in BOOLEAN
    BY <2>1 DEF Actives
  <2> QED BY <2>2, <2>3 DEF Actives
<1>7. \/ frame' = [effects |-> frame.effects, sequence |-> 0, write |-> frame.write,
                   failed |-> TRUE, running |-> TRUE]
      \/ frame' = [effects |-> frame.effects, sequence |-> 1, write |-> frame.write,
                   failed |-> FALSE, running |-> TRUE]
  <2>1. frame.failed = FALSE /\ frame.running = TRUE
    BY <1>1, <1>2 DEF Typed, FrameTyped
  <2>2. frame = [effects |-> frame.effects, sequence |-> 0, write |-> frame.write,
                 failed |-> FALSE, running |-> TRUE]
    BY <1>2, <1>4, <2>1 DEF Typed, FrameTyped
  <2> QED BY <2>2 DEF Exception
<1>8. FrameTyped' /\ frame'.effects = frame.effects
  <2>1. ASSUME NEW n \in Nat, NEW failed \in BOOLEAN,
               frame' = [effects |-> frame.effects, sequence |-> n, write |-> frame.write,
                         failed |-> failed, running |-> TRUE]
        PROVE  FrameTyped' /\ frame'.effects = frame.effects
    BY <2>1 DEF FrameTyped
  <2> QED BY <1>7, <2>1, Zenon
<1>9. Typed'
  BY <1>1, <1>2, <1>5, <1>6, <1>8 DEF Typed
<1>10. active.stores = <<>>
  BY <1>4 DEF Single
<1>11. Staged'
  BY <1>6, <1>10 DEF Staged
<1>12. InStep'
  <2>1. /\ Id' = Id /\ active.id = Id /\ Id > 0 /\ frame.effects \in Instructions
        /\ active.nextSequence = 0 /\ ~active.failed /\ lastFault' = NoFault
    BY <1>1, <1>2, <1>4 DEF InStep, Id
  <2>2. /\ frame'.sequence <= Len(frame.effects)
        /\ ~frame'.failed => active'.nextSequence = frame'.sequence /\ ~active'.failed
    BY <1>4, <1>6, <1>7, <2>1
  <2> QED BY <1>6, <1>8, <1>11, <2>1, <2>2 DEF InStep
<1>13. Single'
  <2>1. Pending = frame.effects[1]
    BY <1>4 DEF Pending
  <2>2. Found'
    BY <1>1 DEF Found
  <2> QED BY <1>1, <1>6, <1>7, <1>10, <2>1, <2>2 DEF Single
<1> QED BY <1>3, <1>8, <1>9, <1>12, <1>13 DEF IInv

\* Every step keeps the invariant.
LEMMA NextIInv ==
  ASSUME IInv, [Next]_vars
  PROVE  IInv'
<1>1. CASE Host
  <2>1. space'.generation \in Nat
    BY <1>1, HostChanges DEF Host, IInv, Typed
  <2> QED BY <1>1, <2>1 DEF Host, IInv, Typed, FrameTyped
<1>2. CASE \E effects \in Instructions : Start(effects)
  BY <1>2, StartIInv
<1>3. CASE Effect
  BY <1>3, EffectIInv
<1>4. CASE Exception
  BY <1>4, ExceptionIInv, SMTT(40)
<1>5. CASE Fault
  BY <1>5, NotRunning, ActiveTyped, ZenonT(40) DEF Fault, AbortInstruction, IInv, Typed
<1>6. CASE CommitFault
  BY <1>6, NotRunning, ActiveTyped, ZenonT(40) DEF CommitFault, AbortInstruction, IInv, Typed
<1>7. CASE Commit
  <2>1. active' = Idle /\ frame' = NoFrame /\ UNCHANGED <<space, nextInstruction>>
    BY <1>7 DEF Commit, CommitInstruction
  <2> QED BY <2>1, NotRunning, ActiveTyped, Zenon DEF IInv, Typed
<1>8. CASE UNCHANGED vars
  BY <1>8 DEF vars, serviceVars, IInv, Typed, FrameTyped, InStep, Several, Single, Found, Staged,
              Id, Preflight, Footprint, RamAccessible, DevicesMet
<1> QED BY <1>1, <1>2, <1>3, <1>4, <1>5, <1>6, <1>7, <1>8 DEF Next

-----------------------------------------------------------------------------
\* commit_instruction is not refused when the mappings are those the instruction began with.
LEMMA CommitAllowed ==
  ASSUME IInv, frame.running, ~frame.failed, active.generation = space.generation
  PROVE  ~CommitRefused(Id)
BY DEF IInv, InStep, Staged, CommitRefused, Idle

\* An instruction with several effects never takes the error path.
LEMMA SeveralNeverTraps ==
  ASSUME IInv, frame.running, Len(frame.effects) > 1
  PROVE  ~Fault /\ ~CommitFault
<1>1. ~frame.failed /\ active.generation = space.generation
  BY DEF IInv, Several
<1>2. ~Fault
  BY <1>1, SeveralSucceeds DEF Fault, Trapped
<1>3. ~CommitFault
  BY <1>1, CommitAllowed DEF CommitFault
<1> QED BY <1>2, <1>3

\* A running instruction ends by committing, which leaves last_fault, or on an error path.
LEMMA Ends ==
  ASSUME IInv, [Next]_vars, frame.running, ~frame'.running
  PROVE  Fault \/ CommitFault \/ (Commit /\ lastFault' = lastFault)
<1>1. ~Host
  BY DEF Host
<1>2. ASSUME NEW effects \in Instructions PROVE ~Start(effects)
  BY SMTT(40) DEF Start
<1>3. ~Effect /\ ~Exception
  <2>1. ASSUME NEW n, NEW w, NEW failed,
               \/ frame' = [frame EXCEPT !.sequence = n, !.write = w]
               \/ frame' = [frame EXCEPT !.sequence = n]
               \/ frame' = [frame EXCEPT !.failed = failed]
        PROVE  FALSE
    BY <2>1, Zenon DEF IInv, Typed, FrameTyped
  <2> QED BY <2>1, Zenon DEF Effect, Exception
<1>4. ~UNCHANGED vars
  BY DEF vars
<1> QED BY <1>1, <1>2, <1>3, <1>4 DEF Next, Commit

-----------------------------------------------------------------------------
\* The invariant holds throughout.
LEMMA AlwaysIInv == Spec => []IInv
BY InitIInv, NextIInv, PTL DEF Spec

\* Once an instruction with several accesses began, no effect of it faults or is refused,
\* and it commits: what footprint::preflight resolved stays resolved until then.
THEOREM ExecutorBeganCommits == Spec => BeganCommits
<1>1. ASSUME IInv, [Next]_vars
      PROVE  frame.running /\ Len(frame.effects) > 1 /\ ~frame'.running => lastFault' = NoFault
  BY <1>1, Ends, SeveralNeverTraps DEF IInv, InStep
<1> QED BY <1>1, AlwaysIInv, PTL DEF Spec, BeganCommits

\* An instruction that traps after it began leaves memory, the devices and the registers as
\* it found them, or as its exception handler left them.
THEOREM ExecutorPrecise == Spec => Precise
<1>1. ASSUME IInv, [Next]_vars, frame.running, ~frame'.running, lastFault' # NoFault
      PROVE  <<backings', devices', register'>> = entry
  <2>1. (Fault \/ CommitFault) /\ InStep
    BY <1>1, Ends DEF IInv, InStep
  <2>2. UNCHANGED <<backings, devices, register>>
    BY <2>1 DEF Fault, CommitFault, AbortInstruction
  <2>3. ~(Len(frame.effects) > 1) /\ Len(frame.effects) \in Nat
    BY <1>1, <2>1, SeveralNeverTraps, InstructionsAssumption DEF InStep
  <2>4. Single /\ frame.sequence \in Nat /\ frame.sequence <= Len(frame.effects)
    BY <1>1, <2>1, <2>3 DEF IInv, InStep, Typed, FrameTyped
  <2>5. CASE Fault
    <3>1. frame.sequence = 0
      BY <1>1, <2>3, <2>4, <2>5, OnlyEffect DEF Fault, Trapped, Single
    <3> QED BY <2>2, <2>4, <3>1 DEF Single, Found
  <2>6. CASE CommitFault
    <3>1. active.generation # space.generation
      BY <1>1, <2>6, CommitAllowed DEF CommitFault
    <3>2. \A n, l \in Nat : n <= l /\ ~(l > 1) => n = 0 \/ n = 1
      OBVIOUS
    <3>3. frame.sequence = 0 \/ frame.sequence = 1
      BY <2>3, <2>4, <3>2
    <3> QED BY <2>2, <2>4, <3>1, <3>3 DEF Single, Found
  <2> QED BY <2>1, <2>5, <2>6
<1> QED BY <1>1, AlwaysIInv, PTL DEF Spec, Precise
-----------------------------------------------------------------------------
(* The reservation.  What it names is the last load_reserved that read,    *)
(* and while the mappings are still those of its generation, the cells it  *)
(* read are the ones its address leads to.                                 *)

\* An event keeps its fields when the commit gives it a memory order.
EventTyped(event) ==
  event = [instruction |-> event.instruction, sequence |-> event.sequence, kind |-> event.kind,
           ok |-> event.ok, cells |-> event.cells, device |-> event.device, read |-> event.read,
           written |-> event.written, order |-> event.order]

EventsTyped ==
  /\ events \in Seq(Range(events))
  /\ \A i \in DOMAIN events : EventTyped(events[i])

\* Events i to n are a load_reserved that read, and nothing that takes its reservation.
Reserving(i, n) ==
  /\ events[i].kind = "load_reserved" /\ events[i].ok
  /\ \A k \in (i + 1)..n :
       /\ events[k].kind # "store_conditional"
       /\ events[k].kind = "load_reserved" => ~events[k].ok

ReservationKnown ==
  reservation # <<>> =>
    /\ reservation[3] \in Nat /\ reservation[3] <= space.generation
    /\ \E i \in 1..Len(events) :
         /\ Reserving(i, Len(events))
         /\ reservation[3] = space.generation =>
              events[i].cells = Cells(space, reservation[1], reservation[2])

RInv == EventsTyped /\ ReservationKnown /\ ReservationHeld

\* What appending an event leaves of the others.
LEMMA AppendEvent ==
  ASSUME EventsTyped, NEW new, EventTyped(new), events' = Append(events, new)
  PROVE  /\ EventsTyped'
         /\ Len(events) \in Nat /\ Len(events') = Len(events) + 1
         /\ \A i \in 1..Len(events) : events'[i] = events[i]
         /\ events'[Len(events) + 1] = new
<1>0. PICK n \in Nat : n = Len(events)
  BY DEF EventsTyped
<1>1. events \in Seq(Range(events)) /\ n \in Nat /\ DOMAIN events = 1..n
  BY <1>0 DEF EventsTyped
<1>2. events \in Seq(Range(events) \cup {new})
  BY <1>1
<1>3. /\ events' \in Seq(Range(events) \cup {new})
      /\ Len(events') = n + 1 /\ DOMAIN events' = 1..(n + 1)
      /\ \A i \in 1..n : events'[i] = events[i]
      /\ events'[n + 1] = new
  BY <1>0, <1>1, <1>2
<1>4. events' \in Seq(Range(events'))
  <2>1. \A i \in 1..(n + 1) : events'[i] \in Range(events')
    BY <1>3 DEF Range
  <2> QED BY <1>1, <1>3, <2>1
<1>5. ASSUME NEW i \in 1..(n + 1) PROVE EventTyped(events'[i])
  <2>1. i \in 1..n \/ i = n + 1
    BY <1>1
  <2> QED BY <1>1, <1>3, <2>1 DEF EventsTyped
<1> QED BY <1>0, <1>1, <1>3, <1>4, <1>5 DEF EventsTyped

\* A step that changes no event and takes no new reservation, and moves the generation on
\* with the mappings.
Moves == space' = space \/ space'.generation = space.generation + 1

\* Every change the host makes to the mappings gives them a new generation.
LEMMA HostMoves ==
  ASSUME HostChange
  PROVE  Moves
BY DEF HostChange, HostMap, HostAlias, HostProtect, HostUnmap, MapReadToClear, Mapped,
       ReplaceRange, Moves

\* What an effect does to the reservation.
LEMMA EffectReservation ==
  ASSUME NEW e, e.kind \in Kinds
  PROVE  /\ e.kind = "store_conditional" =>
              /\ ExecuteEffect(e).reservation = <<>>
              /\ ExecuteEffect(e).written # <<>> =>
                   reservation = <<e.address, e.size, space.generation>>
         /\ e.kind = "load_reserved" /\ ExecuteEffect(e).ok =>
              ExecuteEffect(e).reservation = <<e.address, e.size, space.generation>>
         /\ e.kind # "store_conditional" /\ ~(e.kind = "load_reserved" /\ ExecuteEffect(e).ok) =>
              ExecuteEffect(e).reservation = reservation
<1>1. CASE e.kind = "read"
  BY <1>1 DEF ExecuteEffect, ReadEffect, Done, Failed
<1>2. CASE e.kind = "write"
  BY <1>2 DEF ExecuteEffect, WriteEffect, Done, Failed
<1>3. CASE e.kind = "load_reserved"
  BY <1>3 DEF ExecuteEffect, LoadReserved, Done, Failed
<1>4. CASE e.kind = "store_conditional"
  BY <1>4 DEF ExecuteEffect, StoreConditional, Done, Failed
<1>5. CASE e.kind = "atomic_rmw"
  BY <1>5 DEF ExecuteEffect, AtomicRmw, Done, Failed
<1>6. CASE e.kind \in {"fence", "exception"}
  BY <1>6 DEF ExecuteEffect, Done, Failed
<1> QED BY <1>1, <1>2, <1>3, <1>4, <1>5, <1>6 DEF Kinds

\* An event that is appended leaves what was held of the others, so it is the new one that
\* has to be shown held.
LEMMA HeldKept ==
  ASSUME EventsTyped, ReservationHeld, NEW new, EventTyped(new), events' = Append(events, new),
         new.kind = "store_conditional" /\ new.written # <<>> =>
           \E i \in 1..Len(events) : Reserving(i, Len(events)) /\ events[i].cells = new.cells
  PROVE  ReservationHeld'
<1>0. PICK n \in Nat : n = Len(events)
  BY DEF EventsTyped
<1>1. /\ n \in Nat /\ Len(events') = n + 1 /\ EventsTyped'
      /\ \A i \in 1..n : events'[i] = events[i]
      /\ events'[n + 1] = new
  BY <1>0, AppendEvent
<1>2. DOMAIN events = 1..n /\ DOMAIN events' = 1..(n + 1)
  BY <1>0, <1>1 DEF EventsTyped
<1> SUFFICES ASSUME NEW j \in 1..(n + 1),
                    events'[j].kind = "store_conditional", events'[j].written # <<>>
             PROVE  \E i \in 1..(j - 1) :
                      /\ events'[i].kind = "load_reserved" /\ events'[i].cells = events'[j].cells
                      /\ \A k \in (i + 1)..(j - 1) :
                           /\ events'[k].kind # "store_conditional"
                           /\ events'[k].kind = "load_reserved" => ~events'[k].ok
  BY <1>2 DEF ReservationHeld
<1>3. CASE j \in 1..n
  <2>1. PICK i \in 1..(j - 1) :
          /\ events[i].kind = "load_reserved" /\ events[i].cells = events[j].cells
          /\ \A k \in (i + 1)..(j - 1) :
               /\ events[k].kind # "store_conditional"
               /\ events[k].kind = "load_reserved" => ~events[k].ok
    BY <1>1, <1>2, <1>3 DEF ReservationHeld
  <2>2. \A k \in 1..(j - 1) : k \in 1..n
    BY <1>1, <1>3
  <2>3. \A k \in (i + 1)..(j - 1) : k \in 1..(j - 1)
    BY <1>1, <1>3, <2>1
  <2> QED BY <1>1, <1>3, <2>1, <2>2, <2>3
<1>4. CASE j = n + 1
  <2>1. PICK i \in 1..n : Reserving(i, n) /\ events[i].cells = new.cells
    BY <1>0, <1>1, <1>4
  <2>2. j - 1 = n /\ \A k \in (i + 1)..n : k \in 1..n
    BY <1>1, <1>4, <2>1
  <2>3. events'[i].kind = "load_reserved" /\ events'[i].cells = events'[j].cells
    BY <1>1, <1>4, <2>1 DEF Reserving
  <2>4. ASSUME NEW k \in (i + 1)..n
        PROVE  /\ events'[k].kind # "store_conditional"
               /\ events'[k].kind = "load_reserved" => ~events'[k].ok
    <3>1. events'[k] = events[k]
      BY <1>1, <2>2
    <3> QED BY <2>1, <3>1, Zenon DEF Reserving
  <2> QED BY <2>1, <2>2, <2>3, <2>4, Zenon
<1>5. j \in 1..n \/ j = n + 1
  BY <1>0
<1> QED BY <1>3, <1>4, <1>5, Zenon

\* An event that is neither a store_conditional nor a load_reserved that read leaves the
\* reservation known.
LEMMA OtherEvent ==
  ASSUME RInv, space.generation \in Nat, NEW new, EventTyped(new),
         events' = Append(events, new), reservation' = reservation, Moves,
         new.kind # "store_conditional", new.kind = "load_reserved" => ~new.ok
  PROVE  RInv'
<1>0. PICK n \in Nat : n = Len(events)
  BY DEF RInv, EventsTyped
<1>1. /\ EventsTyped' /\ n \in Nat /\ Len(events') = n + 1
      /\ \A i \in 1..n : events'[i] = events[i]
      /\ events'[n + 1] = new
  BY <1>0, AppendEvent DEF RInv
<1>2. ReservationKnown'
  <2> SUFFICES ASSUME reservation # <<>> PROVE ReservationKnown'
    BY DEF ReservationKnown
  <2>1. reservation[3] \in Nat /\ reservation[3] <= space.generation
    BY DEF RInv, ReservationKnown
  <2>2. PICK i \in 1..n :
          /\ Reserving(i, n)
          /\ reservation[3] = space.generation =>
               events[i].cells = Cells(space, reservation[1], reservation[2])
    BY <1>0 DEF RInv, ReservationKnown
  <2>3. i \in 1..(n + 1) /\ events'[i] = events[i]
    BY <1>1, <2>2
  <2>4. Reserving(i, n + 1)'
    <3>1. ASSUME NEW k \in (i + 1)..(n + 1)
          PROVE  /\ events'[k].kind # "store_conditional"
                 /\ events'[k].kind = "load_reserved" => ~events'[k].ok
      <4>1. (k \in (i + 1)..n /\ k \in 1..n) \/ k = n + 1
        BY <1>1, <2>2
      <4>2. CASE k \in (i + 1)..n /\ k \in 1..n
        <5>1. events'[k] = events[k]
          BY <1>1, <4>2
        <5> QED BY <2>2, <4>2, <5>1, Zenon DEF Reserving
      <4>3. CASE k = n + 1
        <5>1. events'[k] = new
          BY <1>1, <4>3
        <5> QED BY <5>1, Zenon
      <4> QED BY <4>1, <4>2, <4>3, Zenon
    <3> QED BY <2>2, <2>3, <3>1, Zenon DEF Reserving
  <2>5. reservation[3] <= space'.generation
    BY <2>1 DEF Moves
  <2>6. reservation[3] = space'.generation =>
          events'[i].cells = Cells(space', reservation[1], reservation[2])
    <3>1. space'.generation = space.generation + 1 => reservation[3] # space'.generation
      BY <2>1
    <3> QED BY <2>2, <2>3, <3>1 DEF Moves
  <2> QED BY <1>1, <2>1, <2>3, <2>4, <2>5, <2>6 DEF ReservationKnown
<1>3. ReservationHeld'
  BY HeldKept DEF RInv
<1> QED BY <1>1, <1>2, <1>3 DEF RInv

\* A step that leaves the events and the reservation.
LEMMA SameEvents ==
  ASSUME RInv, space.generation \in Nat, events' = events, reservation' = reservation, Moves
  PROVE  RInv'
<1>1. EventsTyped' /\ ReservationHeld'
  BY DEF RInv, EventsTyped, EventTyped, ReservationHeld
<1>2. ReservationKnown'
  <2> SUFFICES ASSUME reservation # <<>> PROVE ReservationKnown'
    BY DEF ReservationKnown
  <2>1. reservation[3] \in Nat /\ reservation[3] <= space.generation
    BY DEF RInv, ReservationKnown
  <2>2. PICK i \in 1..Len(events) :
          /\ Reserving(i, Len(events))
          /\ reservation[3] = space.generation =>
               events[i].cells = Cells(space, reservation[1], reservation[2])
    BY DEF RInv, ReservationKnown
  <2>3. Reserving(i, Len(events))'
    BY <2>2 DEF Reserving
  <2>4. /\ reservation[3] <= space'.generation
        /\ space'.generation = space.generation + 1 => reservation[3] # space'.generation
    BY <2>1, SMTT(40) DEF Moves
  <2> QED BY <2>1, <2>2, <2>3, <2>4 DEF ReservationKnown, Moves
<1> QED BY <1>1, <1>2 DEF RInv

\* The event of an effect.
LEMMA EventFields ==
  ASSUME NEW e, NEW outcome
  PROVE  /\ EventTyped(Event(e, outcome))
         /\ Event(e, outcome).kind = e.kind /\ Event(e, outcome).ok = outcome.ok
         /\ (e.kind = "load_reserved" /\ outcome.ok) \/ outcome.written # <<>> =>
              Event(e, outcome).cells = Cells(space, e.address, e.size)
         /\ e.kind = "store_conditional" => Event(e, outcome).written = outcome.written
BY Zenon DEF EventTyped, Event

\* Servicing an effect keeps what is known of the reservation.
LEMMA EffectRInv ==
  ASSUME IInv, RInv, Effect
  PROVE  RInv'
<1> DEFINE outcome == ExecuteEffect(Pending)
           new == Event(Pending, outcome)
<1>0. PICK n \in Nat : n = Len(events)
  BY DEF RInv, EventsTyped
<1>1. /\ events' = Append(events, new) /\ reservation' = outcome.reservation /\ space' = space
      /\ space.generation \in Nat /\ Pending.kind \in Kinds
  BY PendingEffect DEF Effect, Service, IInv, Typed
<1>2. /\ EventTyped(new) /\ new.kind = Pending.kind /\ new.ok = outcome.ok
      /\ (Pending.kind = "load_reserved" /\ outcome.ok) \/ outcome.written # <<>> =>
           new.cells = Cells(space, Pending.address, Pending.size)
      /\ Pending.kind = "store_conditional" => new.written = outcome.written
  BY EventFields
<1>3. /\ Pending.kind = "store_conditional" =>
           /\ outcome.reservation = <<>>
           /\ outcome.written # <<>> =>
                reservation = <<Pending.address, Pending.size, space.generation>>
      /\ Pending.kind = "load_reserved" /\ outcome.ok =>
           outcome.reservation = <<Pending.address, Pending.size, space.generation>>
      /\ Pending.kind # "store_conditional" /\ ~(Pending.kind = "load_reserved" /\ outcome.ok) =>
           outcome.reservation = reservation
  BY <1>1, EffectReservation
<1> HIDE DEF outcome, new
<1>4. /\ EventsTyped' /\ n \in Nat /\ Len(events') = n + 1
      /\ events'[n + 1] = new
  BY <1>0, <1>1, <1>2, AppendEvent DEF RInv
<1>5. CASE Pending.kind = "store_conditional"
  <2>1. ASSUME outcome.written # <<>>
        PROVE  \E i \in 1..n : Reserving(i, n) /\ events[i].cells = new.cells
    <3>1. /\ reservation # <<>> /\ reservation[1] = Pending.address
          /\ reservation[2] = Pending.size /\ reservation[3] = space.generation
      BY <1>3, <1>5, <2>1
    <3> QED BY <1>0, <1>2, <2>1, <3>1 DEF RInv, ReservationKnown
  <2>2. ReservationHeld'
    BY <1>0, <1>1, <1>2, <1>5, <2>1, HeldKept DEF RInv
  <2>3. ReservationKnown'
    BY <1>1, <1>3, <1>5 DEF ReservationKnown
  <2> QED BY <1>4, <2>2, <2>3 DEF RInv
<1>6. CASE Pending.kind = "load_reserved" /\ outcome.ok
  <2>1. ReservationHeld'
    BY <1>1, <1>2, <1>6, HeldKept DEF RInv
  <2>2. /\ reservation'[1] = Pending.address /\ reservation'[2] = Pending.size
        /\ reservation'[3] = space.generation
    BY <1>1, <1>3, <1>6
  <2>3. Reserving(n + 1, n + 1)'
    <3>1. (n + 1 + 1)..(n + 1) = {}
      OBVIOUS
    <3> QED BY <1>2, <1>4, <1>6, <3>1, Zenon DEF Reserving
  <2>4. events'[n + 1].cells = Cells(space', reservation'[1], reservation'[2])
    BY <1>1, <1>2, <1>4, <1>6, <2>2
  <2>5. reservation'[3] \in Nat /\ reservation'[3] <= space'.generation /\ n + 1 \in 1..(n + 1)
    BY <1>1, <1>4, <2>2
  <2>6. ReservationKnown'
    BY <1>4, <2>3, <2>4, <2>5 DEF ReservationKnown
  <2> QED BY <1>4, <2>1, <2>6 DEF RInv
<1>7. CASE Pending.kind # "store_conditional" /\ ~(Pending.kind = "load_reserved" /\ outcome.ok)
  BY <1>1, <1>2, <1>3, <1>7, OtherEvent DEF Moves
<1> QED BY <1>5, <1>6, <1>7

\* raise_exception keeps it, whatever the handler maps.
LEMMA ExceptionRInv ==
  ASSUME IInv, RInv, Exception
  PROVE  RInv'
<1> DEFINE new == Event(Pending, [Done EXCEPT !.ok = ~frame'.failed])
<1>1. events' = Append(events, new) /\ reservation' = reservation /\ Pending.kind = "exception"
  BY DEF Exception
<1>2. Moves /\ space.generation \in Nat
  BY HostMoves DEF Exception, Moves, IInv, Typed
<1>3. EventTyped(new) /\ new.kind = "exception"
  BY <1>1, EventFields
<1> QED BY <1>1, <1>2, <1>3, OtherEvent

\* An event that is given its memory order.
LEMMA OrderedEvent ==
  ASSUME NEW event, EventTyped(event), NEW order, NEW e, e = [event EXCEPT !.order = order]
  PROVE  /\ EventTyped(e) /\ e.kind = event.kind /\ e.ok = event.ok
         /\ e.instruction = event.instruction /\ e.sequence = event.sequence
         /\ e.cells = event.cells /\ e.written = event.written
         /\ e.read = event.read /\ e.device = event.device /\ e.order = order
BY DEF EventTyped

\* commit_instruction gives events their order and changes nothing else of them.
LEMMA CommitRInv ==
  ASSUME IInv, RInv, Commit
  PROVE  RInv'
<1>0. PICK n \in Nat : n = Len(events)
  BY DEF RInv, EventsTyped
<1>1. /\ events' = [i \in DOMAIN events |-> Reordered(events[i])]
      /\ reservation' = reservation /\ space' = space
  BY DEF Commit, CommitInstruction
<1>2. n \in Nat /\ DOMAIN events = 1..n
  BY <1>0 DEF RInv, EventsTyped
<1>3. ASSUME NEW i \in 1..n
      PROVE  /\ EventTyped(events'[i]) /\ events'[i].kind = events[i].kind
             /\ events'[i].ok = events[i].ok /\ events'[i].cells = events[i].cells
             /\ events'[i].written = events[i].written
  <2>1. EventTyped(events[i]) /\ events'[i] = Reordered(events[i])
    BY <1>1, <1>2 DEF RInv, EventsTyped
  <2>3. CASE events'[i] = events[i]
    BY <2>1, <2>3
  <2>4. CASE events'[i] # events[i]
    <3>1. PICK order : events'[i] = [events[i] EXCEPT !.order = order]
      BY <2>1, <2>4, Zenon DEF Reordered
    <3> QED BY <2>1, <3>1, OrderedEvent
  <2> QED BY <2>3, <2>4
<1>4. DOMAIN events' = 1..n /\ events' \in Seq(Range(events')) /\ Len(events') = n
  <2>1. events' = [i \in 1..n |-> Reordered(events[i])]
    BY <1>1, <1>2
  <2>2. DOMAIN events' = 1..n /\ \A i \in 1..n : events'[i] \in Range(events')
    BY <2>1 DEF Range
  <2>3. events' \in [1..n -> Range(events')]
    BY <2>1, <2>2
  <2> QED BY <1>2, <2>2, <2>3
<1>5. EventsTyped'
  BY <1>3, <1>4 DEF EventsTyped
<1>6. \A i \in 1..n : Reserving(i, n) => Reserving(i, n)'
  <2> SUFFICES ASSUME NEW i \in 1..n, Reserving(i, n) PROVE Reserving(i, n)'
    OBVIOUS
  <2>1. \A k \in (i + 1)..n : k \in 1..n
    OBVIOUS
  <2> QED BY <1>3, <2>1, Zenon DEF Reserving
<1>7. ReservationKnown'
  <2> SUFFICES ASSUME reservation # <<>> PROVE ReservationKnown'
    BY <1>1 DEF ReservationKnown
  <2>1. PICK i \in 1..n :
          /\ Reserving(i, n)
          /\ reservation[3] = space.generation =>
               events[i].cells = Cells(space, reservation[1], reservation[2])
    BY <1>0 DEF RInv, ReservationKnown
  <2>2. Reserving(i, n)' /\ events'[i].cells = events[i].cells
    BY <1>3, <1>6, <2>1
  <2>3. reservation[3] \in Nat /\ reservation[3] <= space.generation
    BY DEF RInv, ReservationKnown
  <2> QED BY <1>1, <1>4, <2>1, <2>2, <2>3, Zenon DEF ReservationKnown
<1>8. ReservationHeld'
  <2>1. ASSUME NEW j \in 1..n
        PROVE  1..(j - 1) \subseteq 1..n /\ \A i \in 1..(j - 1) : (i + 1)..(j - 1) \subseteq 1..n
    BY <1>2
  <2> SUFFICES ASSUME NEW j \in 1..n,
                      events'[j].kind = "store_conditional", events'[j].written # <<>>
               PROVE  \E i \in 1..(j - 1) :
                        /\ events'[i].kind = "load_reserved" /\ events'[i].cells = events'[j].cells
                        /\ \A k \in (i + 1)..(j - 1) :
                             /\ events'[k].kind # "store_conditional"
                             /\ events'[k].kind = "load_reserved" => ~events'[k].ok
    BY <1>4, Zenon DEF ReservationHeld
  <2>2. PICK i \in 1..(j - 1) :
          /\ events[i].kind = "load_reserved" /\ events[i].cells = events[j].cells
          /\ \A k \in (i + 1)..(j - 1) :
               /\ events[k].kind # "store_conditional"
               /\ events[k].kind = "load_reserved" => ~events[k].ok
    BY <1>2, <1>3, Zenon DEF RInv, ReservationHeld
  <2>3. i \in 1..n /\ \A k \in (i + 1)..(j - 1) : k \in 1..n
    BY <2>1, <2>2, Zenon
  <2>4. events'[i].kind = "load_reserved" /\ events'[i].cells = events'[j].cells
    BY <1>3, <2>2, <2>3, Zenon
  <2>5. ASSUME NEW k \in (i + 1)..(j - 1)
        PROVE  /\ events'[k].kind # "store_conditional"
               /\ events'[k].kind = "load_reserved" => ~events'[k].ok
    <3>1. events'[k].kind = events[k].kind /\ events'[k].ok = events[k].ok
      BY <1>3, <2>3, Zenon
    <3> QED BY <2>2, <3>1, Zenon
  <2> QED BY <2>2, <2>4, <2>5, Zenon
<1> QED BY <1>5, <1>7, <1>8 DEF RInv

\* Every step keeps it.
LEMMA NextRInv ==
  ASSUME IInv, RInv, [Next]_vars
  PROVE  RInv'
<1>0. space.generation \in Nat
  BY DEF IInv, Typed
<1>1. CASE Host
  BY <1>0, <1>1, HostMoves, SameEvents DEF Host
<1>2. CASE \E effects \in Instructions : Start(effects)
  BY <1>0, <1>2, SameEvents DEF Start, BeginInstruction, serviceVars, Moves
<1>3. CASE Effect
  BY <1>3, EffectRInv
<1>4. CASE Exception
  BY <1>4, ExceptionRInv
<1>5. CASE Fault \/ CommitFault
  BY <1>0, <1>5, SameEvents DEF Fault, CommitFault, AbortInstruction, Moves
<1>6. CASE Commit
  BY <1>6, CommitRInv
<1>7. CASE UNCHANGED vars
  BY <1>0, <1>7, SameEvents DEF vars, serviceVars, Moves
<1> QED BY <1>1, <1>2, <1>3, <1>4, <1>5, <1>6, <1>7 DEF Next

\* A store_conditional that writes does so where the last load_reserved read, with no other
\* store_conditional between them: whatever the host maps in between, an address that leads
\* elsewhere by then does not keep its reservation.
THEOREM ExecutorReservationHeld == Spec => []ReservationHeld
<1>1. Init => RInv
  BY DEF Init, InitService, RInv, EventsTyped, ReservationKnown, ReservationHeld
<1>2. RInv => ReservationHeld
  BY DEF RInv
<1> QED BY <1>1, <1>2, NextRInv, AlwaysIInv, PTL DEF Spec

-----------------------------------------------------------------------------
\* Facts about natural numbers.

\* Every set of naturals that has a member has a least one: the induction the
\* proofs about counters and indices of the code rest on.
LEMMA LeastNatural ==
  ASSUME NEW S \in SUBSET Nat, S # {}
  PROVE  \E n \in S : \A m \in S : n <= m
<1> DEFINE R == OpToRel(<, Nat)
<1>1. IsWellFoundedOn(R, Nat)
  BY NatLessThanWellFounded, Zenon
<1>2. PICK n \in S : \A m \in S : ~ (<<m, n>> \in R)
  <2> HIDE DEF R
  <2> QED BY <1>1, WFMin, Zenon
<1>3. ASSUME NEW m \in S PROVE n <= m
  <2>1. m \in Nat /\ n \in Nat
    BY Zenon
  <2>2. ~ (m < n)
    BY <1>2, <2>1, Zenon DEF OpToRel
  <2> QED BY <2>1, <2>2
<1> QED BY <1>3, Zenon

\* A set that has 0, and each number of 1..m whose predecessor it has, has all of 0..m.
LEMMA Induction ==
  ASSUME NEW m \in Nat, NEW S, 0 \in S, \A n \in 1..m : n - 1 \in S => n \in S
  PROVE  \A n \in 0..m : n \in S
<1> DEFINE Bad == (0..m) \ S
<1>1. SUFFICES ASSUME Bad # {} PROVE FALSE
  BY <1>1, Zenon
<1>2. PICK n \in Bad : \A k \in Bad : n <= k
  <2>1. Bad \in SUBSET Nat
    OBVIOUS
  <2> HIDE DEF Bad
  <2> QED BY <1>1, <2>1, LeastNatural, Zenon
<1>3. n \in 1..m
  BY <1>2
<1>4. n - 1 \notin Bad
  BY <1>2, <1>3
<1> QED BY <1>2, <1>3, <1>4

\* The greatest member of a set of indices.
LEMMA Greatest ==
  ASSUME NEW n \in Nat, NEW S \in SUBSET (1..n), S # {}
  PROVE  Max(S) \in S /\ \A i \in S : i <= Max(S)
<1> DEFINE D == {n - i : i \in S}
<1>1. D \in SUBSET Nat /\ D # {}
  <2>1. \A i \in S : n - i \in Nat
    OBVIOUS
  <2> QED BY <2>1, Zenon
<1>2. PICK d \in D : \A e \in D : d <= e
  <2> HIDE DEF D
  <2> QED BY <1>1, LeastNatural, Zenon
<1>3. PICK i \in S : d = n - i
  BY <1>2
<1>4. ASSUME NEW j \in S PROVE i >= j
  <2>1. n - j \in D
    OBVIOUS
  <2>2. n - i <= n - j
    BY <1>2, <1>3, <2>1
  <2> QED BY <2>2
<1>5. Max(S) \in S /\ \A j \in S : Max(S) >= j
  BY <1>4, Zenon DEF Max
<1> QED BY <1>5

\* The greater and the lesser of two.
LEMMA OfTwo ==
  ASSUME NEW a \in Nat, NEW b \in Nat
  PROVE  /\ Max({a, b}) = IF a >= b THEN a ELSE b
         /\ Min({a, b}) = IF a <= b THEN a ELSE b
<1>1. Max({a, b}) \in {a, b} /\ \A y \in {a, b} : Max({a, b}) >= y
  <2>1. \E x \in {a, b} : \A y \in {a, b} : x >= y
    OBVIOUS
  <2> QED BY <2>1, Zenon DEF Max
<1>2. Min({a, b}) \in {a, b} /\ \A y \in {a, b} : Min({a, b}) <= y
  <2>1. \E x \in {a, b} : \A y \in {a, b} : x <= y
    OBVIOUS
  <2> QED BY <2>1, Zenon DEF Min
<1> QED BY <1>1, <1>2

\* A function on 1..n is a sequence.
LEMMA IsSequence ==
  ASSUME NEW n \in Nat, NEW f, f = [i \in 1..n |-> f[i]]
  PROVE  f \in Seq(Range(f)) /\ Len(f) = n /\ DOMAIN f = 1..n
<1>1. DOMAIN f = 1..n
  OBVIOUS
<1>2. \A i \in 1..n : f[i] \in Range(f)
  BY <1>1 DEF Range
<1> QED BY <1>1, <1>2

-----------------------------------------------------------------------------
(* The serial order.  The events of the effects that were given a memory    *)
(* order say what every byte of memory is, because each write that reaches  *)
(* memory has its event: at once, or from when its store is staged until    *)
(* the commit gives it its order.                                           *)

\* A mapping that lies within its backing.
MappingIn(m, B) ==
  /\ m = [start |-> m.start, end |-> m.end, backing |-> m.backing, offset |-> m.offset,
          permissions |-> m.permissions]
  /\ m.start \in Nat /\ m.end \in Nat /\ m.offset \in Nat /\ m.start <= m.end
  /\ m.backing \in 1..Len(B)
  /\ m.offset + (m.end - m.start) <= Len(B[m.backing])

\* Memory is sequences of bytes.
Backings(B) ==
  /\ B \in Seq(Range(B))
  /\ \A b \in 1..Len(B) : B[b] \in Seq(Range(B[b]))

MemoryTyped == Backings(backings) /\ \A m \in space.mappings : MappingIn(m, backings)

\* A cell of the memory there is.
IsCell(cell) == \E b \in 1..Len(backings) : \E o \in 1..Len(backings[b]) : cell = <<b, o>>

\* The orders of events, and that each is given once.
OrdersIn(log) ==
  /\ \A i \in DOMAIN log : log[i].order \in Int
  /\ \A i, j \in DOMAIN log : log[i].order = log[j].order => i = j \/ log[i].order = NoOrder

\* What is known of every event.
EventKnown(event) ==
  /\ event.instruction \in Nat /\ event.instruction < nextInstruction
  /\ event.sequence \in Nat
  /\ \/ event.order = NoOrder /\ event.read = <<>>
     \/ event.order \in Nat /\ event.order < nextMemoryOrder
  /\ \A k \in DOMAIN event.cells : IsCell(event.cells[k])

\* No two events are of one effect, and none of an effect of this instruction to come.
EventsApart ==
  /\ \A i, j \in DOMAIN events :
       events[i].instruction = events[j].instruction /\ events[i].sequence = events[j].sequence
         => i = j
  /\ frame.running => \A i \in DOMAIN events :
       events[i].instruction = Id => events[i].sequence < active.nextSequence

\* The order the service gave an effect of this instruction is the order of its event.
OrdersAgree ==
  frame.running =>
    /\ \A s \in DOMAIN effectOrders : s \in Nat /\ s < active.nextSequence
    /\ \A i \in DOMAIN events :
         events[i].instruction = Id /\ events[i].sequence \in DOMAIN effectOrders =>
           events[i].order = effectOrders[events[i].sequence]

\* Event j is of a store that is staged.
EventOf(j, store) ==
  /\ events[j].instruction = Id /\ events[j].sequence = store.sequence
  /\ events[j].order = NoOrder /\ events[j].written = store.bytes
  /\ events[j].cells = Cells(space, store.address, Len(store.bytes))

StoresRecorded ==
  frame.running =>
    /\ \A i \in DOMAIN active.stores :
         /\ active.stores[i].sequence < active.nextSequence
         /\ \E j \in DOMAIN events : EventOf(j, active.stores[i])
    /\ \A i, j \in DOMAIN active.stores :
         active.stores[i].sequence = active.stores[j].sequence => i = j

\* Every byte that was read, other than of a device, is what the writes ordered before leave.
ReadsIn(log) ==
  \A i \in DOMAIN log : ~log[i].device =>
    \A k \in DOMAIN log[i].read : Leaves(log, log[i].read[k], log[i].cells[k], log[i].order)

\* Every byte of memory is what the writes leave.
MemoryIn(log, B, bound) ==
  \A b \in DOMAIN B : \A o \in DOMAIN B[b] : Leaves(log, B[b][o], <<b, o>>, bound)

SInv ==
  /\ MemoryTyped
  /\ EventsTyped /\ nextMemoryOrder \in Nat
  /\ \A i \in DOMAIN events : EventKnown(events[i])
  /\ OrdersIn(events) /\ EventsApart /\ OrdersAgree /\ StoresRecorded
  /\ ReadsIn(events) /\ MemoryIn(events, backings, nextMemoryOrder)

-----------------------------------------------------------------------------
\* Where the bytes go.

\* Memory keeps its shape when bytes are written to it.
LEMMA ShapeKept ==
  ASSUME NEW B, NEW cells, NEW bytes
  PROVE  /\ DOMAIN WriteCells(B, cells, bytes) = DOMAIN B
         /\ \A b \in DOMAIN B : DOMAIN WriteCells(B, cells, bytes)[b] = DOMAIN B[b]
BY DEF WriteCells

\* A cell an access does not lead to keeps its byte, and any other has the last of those
\* that go to it.
Lands(byte, old, n, cells, bytes, cell) ==
  \/ byte = old /\ \A k \in 1..n : cells[k] # cell
  \/ \E k \in 1..n :
       /\ cells[k] = cell /\ byte = bytes[k]
       /\ \A m \in 1..n : cells[m] = cell => m <= k

\* Memory::write is such.
LEMMA Landed ==
  ASSUME NEW B, NEW n \in Nat, NEW cells, DOMAIN cells = 1..n, NEW bytes,
         NEW b \in DOMAIN B, NEW o \in DOMAIN B[b]
  PROVE  Lands(WriteCells(B, cells, bytes)[b][o], B[b][o], n, cells, bytes, <<b, o>>)
<1>0. PICK byte : byte = WriteCells(B, cells, bytes)[b][o]
  BY Zenon
<1> SUFFICES \/ byte = B[b][o] /\ \A k \in 1..n : cells[k] # <<b, o>>
             \/ \E k \in 1..n :
                  /\ cells[k] = <<b, o>> /\ byte = bytes[k]
                  /\ \A m \in 1..n : cells[m] = <<b, o>> => m <= k
  BY <1>0, Zenon DEF Lands
<1> DEFINE at == {i \in DOMAIN cells : cells[i] = <<b, o>>}
<1>1. byte = IF at = {} THEN B[b][o] ELSE bytes[Max(at)]
  BY <1>0 DEF WriteCells
<1>2. at \in SUBSET (1..n)
  OBVIOUS
<1>3. CASE at = {}
  BY <1>1, <1>3
<1>4. CASE at # {}
  <2>1. Max(at) \in at /\ \A i \in at : i <= Max(at)
    <3> HIDE DEF at
    <3> QED BY <1>2, <1>4, Greatest, Zenon
  <2>2. PICK k : k = Max(at)
    BY Zenon
  <2>3. k \in 1..n /\ cells[k] = <<b, o>> /\ \A m \in 1..n : cells[m] = <<b, o>> => m <= k
    BY <2>1, <2>2, Zenon
  <2> QED BY <1>1, <1>4, <2>2, <2>3, Zenon
<1> QED BY <1>3, <1>4, Zenon

\* The bytes of an access that is valid are in cells there are.
LEMMA CellsInside ==
  ASSUME MemoryTyped, NEW start \in Nat, NEW size \in Nat, NEW permission,
         Accessible(space, start, size, permission)
  PROVE  /\ DOMAIN Cells(space, start, size) = 1..size
         /\ \A i \in 1..size : IsCell(Cells(space, start, size)[i])
<1>1. DOMAIN Cells(space, start, size) = 1..size
  BY DEF Cells
<1>2. ASSUME NEW i \in 1..size PROVE IsCell(Cells(space, start, size)[i])
  <2>1. PICK a \in Nat : a = start + i - 1 /\ a \in start..(start + size - 1)
    OBVIOUS
  <2>2. PICK m : m = MappingAt(space, a)
    OBVIOUS
  <2>3. m \in Meeting(space, a, 1)
    <3>1. Meeting(space, a, 1) # {}
      BY <2>1 DEF Accessible, MappedRange
    <3> QED BY <2>2, <3>1, Zenon DEF MappingAt
  <2>4. m \in space.mappings /\ m.start < a + 1 /\ m.end > a
    BY <2>3 DEF Meeting
  <2>5. /\ m.start \in Nat /\ m.end \in Nat /\ m.offset \in Nat /\ m.backing \in 1..Len(backings)
        /\ m.offset + (m.end - m.start) <= Len(backings[m.backing])
        /\ Len(backings[m.backing]) \in Nat
    BY <2>4 DEF MemoryTyped, Backings, MappingIn
  <2>6. Cells(space, start, size)[i] = <<m.backing, m.offset + (a - m.start) + 1>>
    <3>1. Cells(space, start, size)[i] =
            <<MappingAt(space, start + i - 1).backing,
              MappingAt(space, start + i - 1).offset
                + (start + i - 1 - MappingAt(space, start + i - 1).start) + 1>>
      BY Zenon DEF Cells
    <3>2. start + i - 1 = a
      BY <2>1
    <3>3. start + i - 1 - m.start = a - m.start
      BY <2>1, <2>5
    <3> QED BY <2>2, <3>1, <3>2, <3>3, Zenon
  <2>7. m.offset + (a - m.start) + 1 \in 1..Len(backings[m.backing])
    <3>1. \A s, e, f, l \in Nat :
            s < a + 1 /\ e > a /\ f + (e - s) <= l => f + (a - s) + 1 \in 1..l
      OBVIOUS
    <3> QED BY <2>4, <2>5, <3>1, Zenon
  <2> QED BY <2>5, <2>6, <2>7, Zenon DEF IsCell
<1> QED BY <1>1, <1>2

\* A part of a mapping lies where the mapping does.
LEMMA PartInside ==
  ASSUME NEW B, NEW m, MappingIn(m, B), Len(B[m.backing]) \in Nat,
         NEW from \in Nat, NEW to \in Nat, m.start <= from, from <= to, to <= m.end,
         NEW permissions
  PROVE  /\ MappingIn(Part(m, from, to), B)
         /\ MappingIn([Part(m, from, to) EXCEPT !.permissions = permissions], B)
<1>1. /\ m.start \in Nat /\ m.end \in Nat /\ m.offset \in Nat /\ m.backing \in 1..Len(B)
      /\ m.offset + (m.end - m.start) <= Len(B[m.backing])
      /\ m = [start |-> m.start, end |-> m.end, backing |-> m.backing, offset |-> m.offset,
              permissions |-> m.permissions]
  BY DEF MappingIn
<1>2. PICK offset : offset = m.offset + (from - m.start)
  OBVIOUS
<1>3. offset \in Nat /\ offset + (to - from) <= Len(B[m.backing])
  <2>1. \A s, e, f, l \in Nat : s <= from /\ to <= e /\ f + (e - s) <= l =>
          f + (from - s) \in Nat /\ (f + (from - s)) + (to - from) <= l
    OBVIOUS
  <2> QED BY <1>1, <1>2, <2>1
<1>4. Part(m, from, to) = [start |-> from, end |-> to, backing |-> m.backing, offset |-> offset,
                           permissions |-> m.permissions]
  <2>1. Part(m, from, to) = [m EXCEPT !.start = from, !.end = to, !.offset = offset]
    BY <1>2, Zenon DEF Part
  <2>2. PICK s, e, b, f, p :
          m = [start |-> s, end |-> e, backing |-> b, offset |-> f, permissions |-> p]
    BY <1>1, Zenon
  <2>3. [m EXCEPT !.start = from, !.end = to, !.offset = offset] =
          [start |-> from, end |-> to, backing |-> b, offset |-> offset, permissions |-> p]
    <3>1. PICK x : x = [m EXCEPT !.start = from, !.end = to]
      BY Zenon
    <3>2. x = [start |-> from, end |-> to, backing |-> b, offset |-> f, permissions |-> p]
      BY <2>2, <3>1, Zenon
    <3>3. [x EXCEPT !.offset = offset] =
            [start |-> from, end |-> to, backing |-> b, offset |-> offset, permissions |-> p]
      BY ONLY <3>2
    <3> QED BY <3>1, <3>3, Zenon
  <2>4. m.backing = b /\ m.permissions = p
    BY ONLY <2>2
  <2> QED BY <2>1, <2>3, <2>4, Zenon
<1>5. ASSUME NEW p
      PROVE  MappingIn([start |-> from, end |-> to, backing |-> m.backing, offset |-> offset,
                        permissions |-> p], B)
  BY <1>1, <1>3 DEF MappingIn
<1>6. [Part(m, from, to) EXCEPT !.permissions = permissions] =
        [start |-> from, end |-> to, backing |-> m.backing, offset |-> offset,
         permissions |-> permissions]
  BY <1>4
<1> QED BY <1>4, <1>5, <1>6, Zenon

\* replace_range leaves every mapping within its backing.
LEMMA ReplacedInside ==
  ASSUME MemoryTyped, NEW start \in Nat, NEW size \in Nat, size > 0, NEW kept, NEW permissions
  PROVE  \A m \in ReplaceRange(space, start, size, kept, permissions).mappings : MappingIn(m, backings)
<1> DEFINE end == start + size
           met == Meeting(space, start, size)
           before == {Part(m, m.start, start) : m \in {x \in met : x.start < start}}
           after == {Part(m, end, m.end) : m \in {x \in met : x.end > end}}
           Middle(m) == [Part(m, Max({m.start, start}), Min({m.end, end})) EXCEPT !.permissions = permissions]
<1>1. \A m \in ReplaceRange(space, start, size, kept, permissions).mappings :
        m \in space.mappings \/ m \in before \/ m \in after \/ m \in {Middle(x) : x \in met}
  BY Zenon DEF ReplaceRange
<1>2. ASSUME NEW m \in met
      PROVE  /\ MappingIn(m, backings) /\ Len(backings[m.backing]) \in Nat
             /\ m.start \in Nat /\ m.end \in Nat
             /\ m.start < end /\ start < m.end
  BY DEF Meeting, MemoryTyped, MappingIn, Backings
<1>3. end \in Nat /\ start < end
  OBVIOUS
<1> HIDE DEF end, met
<1>4. ASSUME NEW m \in before PROVE MappingIn(m, backings)
  <2>1. PICK x \in met : x.start < start /\ m = Part(x, x.start, start)
    OBVIOUS
  <2>2. x.start <= x.start /\ x.start <= start /\ start <= x.end
    BY <1>2, <2>1
  <2> QED BY <1>2, <2>1, <2>2, PartInside, Zenon
<1>5. ASSUME NEW m \in after PROVE MappingIn(m, backings)
  <2>1. PICK x \in met : x.end > end /\ m = Part(x, end, x.end)
    OBVIOUS
  <2>2. x.start <= end /\ end <= x.end /\ x.end <= x.end
    BY <1>2, <1>3, <2>1
  <2> QED BY <1>2, <1>3, <2>1, <2>2, PartInside, Zenon
<1>6. ASSUME NEW m \in {Middle(x) : x \in met} PROVE MappingIn(m, backings)
  <2>1. PICK x \in met : m = Middle(x)
    BY Zenon
  <2>2. PICK from, to : from = Max({x.start, start}) /\ to = Min({x.end, end})
    OBVIOUS
  <2>3. /\ from = IF x.start >= start THEN x.start ELSE start
        /\ to = IF x.end <= end THEN x.end ELSE end
    BY <1>2, <1>3, <2>2, OfTwo, Zenon
  <2>4. /\ from \in Nat /\ to \in Nat /\ x.start <= from /\ from <= to /\ to <= x.end
    <3>1. MappingIn(x, backings) => x.start <= x.end
      BY DEF MappingIn
    <3> QED BY <1>2, <1>3, <2>3, <3>1
  <2> QED BY <1>2, <2>1, <2>2, <2>4, PartInside, Zenon
<1>7. ASSUME NEW m \in space.mappings PROVE MappingIn(m, backings)
  BY DEF MemoryTyped
<1> QED BY <1>1, <1>4, <1>5, <1>6, <1>7, Zenon

\* create_backing adds a backing of zeros and leaves the others.
LEMMA BackingAdded ==
  ASSUME Backings(backings), NEW size \in Nat, NEW B, B = Append(backings, Zeros(size))
  PROVE  /\ Backings(B) /\ Len(backings) \in Nat /\ Len(B) = Len(backings) + 1
         /\ \A b \in 1..Len(backings) : B[b] = backings[b]
         /\ B[Len(backings) + 1] = Zeros(size) /\ Len(Zeros(size)) = size
<1>0. PICK n \in Nat : n = Len(backings)
  BY DEF Backings
<1>1. backings \in Seq(Range(backings) \cup {Zeros(size)})
  BY DEF Backings
<1>2. /\ B \in Seq(Range(backings) \cup {Zeros(size)}) /\ Len(B) = n + 1 /\ DOMAIN B = 1..(n + 1)
      /\ \A b \in 1..n : B[b] = backings[b]
      /\ B[n + 1] = Zeros(size)
  BY <1>0, <1>1
<1>3. B \in Seq(Range(B))
  <2>1. \A i \in 1..(n + 1) : B[i] \in Range(B)
    BY <1>2, Zenon DEF Range
  <2> QED BY <1>2, <2>1
<1>4. Zeros(size) \in Seq(Range(Zeros(size))) /\ Len(Zeros(size)) = size
  <2>1. Zeros(size) = [i \in 1..size |-> Zeros(size)[i]]
    BY DEF Zeros
  <2> QED BY <2>1, IsSequence, Zenon
<1>5. ASSUME NEW b \in 1..(n + 1) PROVE B[b] \in Seq(Range(B[b]))
  <2>1. b \in 1..n \/ b = n + 1
    OBVIOUS
  <2> QED BY <1>0, <1>2, <1>4, <2>1, Zenon DEF Backings
<1> QED BY <1>0, <1>2, <1>3, <1>4, <1>5, Zenon DEF Backings

\* What the host may make of the backings.
Grown == backings' = backings \/ \E size \in Nat : backings' = Append(backings, Zeros(size))

\* Whatever the host maps, protects or unmaps, a mapping lies within its backing.
LEMMA HostMemory ==
  ASSUME MemoryTyped, HostChange
  PROVE  MemoryTyped' /\ Grown
<1>1. PICK range \in HostRanges :
        \/ HostMap(range[1], range[2], ReadWrite)
        \/ \E b \in DOMAIN backings : HostAlias(range[1], range[2], b)
        \/ HostProtect(range[1], range[2], Read)
        \/ \E prunes \in BOOLEAN : HostUnmap(range[1], range[2], prunes)
        \/ MapReadToClear(range[1], range[2])
  BY DEF HostChange
<1>2. PICK start \in Nat, size \in Nat : start = range[1] /\ size = range[2]
  BY SizesAssumption
<1>3. Backings(backings) /\ \A m \in space.mappings : MappingIn(m, backings)
  BY DEF MemoryTyped
<1>4. PICK B : B = Append(backings, Zeros(size))
  BY Zenon
<1>5. /\ Backings(B) /\ Len(backings) \in Nat /\ Len(B) = Len(backings) + 1
      /\ \A b \in 1..Len(backings) : B[b] = backings[b]
      /\ B[Len(backings) + 1] = Zeros(size) /\ Len(Zeros(size)) = size
  BY <1>3, <1>4, BackingAdded, Zenon
<1>6. ASSUME NEW m, MappingIn(m, backings) PROVE MappingIn(m, B)
  BY <1>5, <1>6 DEF MappingIn
\* A mapping that is added.
<1>7. ASSUME NEW C, Backings(C), \A m \in space.mappings : MappingIn(m, C),
             NEW b, NEW permissions, MayMap(space, C, start, size, b, 0),
             space' = Mapped(space, start, size, b, 0, permissions), backings' = C
      PROVE  MemoryTyped'
  <2>1. b \in 1..Len(C) /\ Len(C[b]) \in Nat /\ 0 + size <= Len(C[b])
    BY <1>7 DEF MayMap, Backings
  <2>2. MappingIn([start |-> start, end |-> start + size, backing |-> b, offset |-> 0,
                   permissions |-> permissions], C)
    BY <2>1, SMTT(40) DEF MappingIn
  <2>3. \A m \in space'.mappings : MappingIn(m, C)
    BY <1>7, <2>2, Zenon DEF Mapped
  <2> QED BY <1>7, <2>3, Zenon DEF MemoryTyped
<1>8. CASE HostMap(start, size, ReadWrite)
  <2>1. /\ MayMap(space, B, start, size, Len(B), 0)
        /\ space' = Mapped(space, start, size, Len(B), 0, ReadWrite) /\ backings' = B
    BY <1>4, <1>8, Zenon DEF HostMap
  <2> QED BY <1>3, <1>4, <1>5, <1>6, <1>7, <2>1, Zenon DEF Grown
<1>9. CASE \E b \in DOMAIN backings : HostAlias(start, size, b)
  BY <1>3, <1>7, <1>9, Zenon DEF HostAlias, Grown
<1>10. ASSUME MayReplace(space, start, size), NEW kept, NEW permissions,
              space' = ReplaceRange(space, start, size, kept, permissions), backings' = backings
       PROVE  MemoryTyped' /\ Grown
  <2>1. size > 0
    BY <1>10 DEF MayReplace, InRange
  <2>2. \A m \in space'.mappings : MappingIn(m, backings)
    BY <1>10, <2>1, ReplacedInside, Zenon
  <2> QED BY <1>3, <1>10, <2>2, Zenon DEF MemoryTyped, Grown
<1>11. CASE HostProtect(start, size, Read)
  BY <1>10, <1>11, Zenon DEF HostProtect
<1>12. CASE \E prunes \in BOOLEAN : HostUnmap(start, size, prunes)
  BY <1>10, <1>12, Zenon DEF HostUnmap
<1>13. CASE MapReadToClear(start, size)
  <2>1. /\ backings' = B
        /\ \/ /\ MayMap(space, B, start, size, Len(B), 0)
              /\ space' = Mapped(space, start, size, Len(B), 0, ReadWrite)
           \/ space' = space
    BY <1>4, <1>13, Zenon DEF MapReadToClear
  <2>2. \A m \in space.mappings : MappingIn(m, B)
    BY <1>3, <1>6, Zenon
  <2>3. MemoryTyped'
    BY <1>5, <1>7, <2>1, <2>2, Zenon DEF MemoryTyped
  <2> QED BY <1>4, <2>1, <2>3, Zenon DEF Grown
<1> QED BY <1>1, <1>2, <1>8, <1>9, <1>11, <1>12, <1>13, Zenon

-----------------------------------------------------------------------------
\* `new` continues `log`, and has the same writes ordered below `bound`.
Continues(log, new, bound) ==
  /\ DOMAIN log \subseteq DOMAIN new
  /\ \A i \in DOMAIN log :
       /\ new[i].cells = log[i].cells /\ new[i].written = log[i].written
       /\ log[i].order # NoOrder => new[i].order = log[i].order
  /\ \A i \in DOMAIN new : new[i].order # NoOrder /\ new[i].order < bound =>
       i \in DOMAIN log /\ log[i].order = new[i].order

\* What the writes below an order leave does not change when the events continue.
LEMMA LeavesContinues ==
  ASSUME NEW log, NEW new, NEW n \in Int, NEW b \in Int, b <= n, OrdersIn(new),
         Continues(log, new, n), NEW byte, NEW cell, Leaves(log, byte, cell, b)
  PROVE  Leaves(new, byte, cell, b)
<1>1. ASSUME NEW i \in DOMAIN new, NEW k, Wrote(new, i, k, cell, b)
      PROVE  i \in DOMAIN log /\ Wrote(log, i, k, cell, b) /\ log[i].order = new[i].order
  <2>1. new[i].order # NoOrder /\ new[i].order < b /\ new[i].order \in Int
    BY <1>1, Zenon DEF Wrote, OrdersIn
  <2>2. new[i].order < n
    BY <2>1
  <2>3. i \in DOMAIN log /\ log[i].order = new[i].order
    BY <2>1, <2>2, Zenon DEF Continues
  <2> QED BY <1>1, <2>3, Zenon DEF Continues, Wrote
<1>2. ASSUME NEW i \in DOMAIN log, NEW k, Wrote(log, i, k, cell, b)
      PROVE  i \in DOMAIN new /\ Wrote(new, i, k, cell, b) /\ log[i].order = new[i].order
  BY <1>2, Zenon DEF Continues, Wrote
<1>3. CASE byte = 0 /\ \A i \in DOMAIN log : \A k \in DOMAIN log[i].cells :
                         ~Wrote(log, i, k, cell, b)
  <2>1. ASSUME NEW i \in DOMAIN new, NEW k \in DOMAIN new[i].cells
        PROVE  ~Wrote(new, i, k, cell, b)
    <3>1. SUFFICES ASSUME Wrote(new, i, k, cell, b) PROVE FALSE
      BY Zenon
    <3>2. i \in DOMAIN log /\ Wrote(log, i, k, cell, b)
      BY <1>1, <3>1, Zenon
    <3>3. k \in DOMAIN log[i].cells
      BY <3>2, Zenon DEF Continues
    <3> QED BY <1>3, <3>2, <3>3, Zenon
  <2> QED BY <1>3, <2>1, Zenon DEF Leaves
<1>4. CASE \E i \in DOMAIN log : \E k \in DOMAIN log[i].cells :
             WroteLast(log, i, k, cell, b) /\ byte = log[i].written[k]
  <2>1. PICK i \in DOMAIN log : \E k \in DOMAIN log[i].cells :
          WroteLast(log, i, k, cell, b) /\ byte = log[i].written[k]
    BY <1>4, Zenon
  <2>2. PICK k \in DOMAIN log[i].cells : WroteLast(log, i, k, cell, b) /\ byte = log[i].written[k]
    BY <2>1, Zenon
  <2>3. /\ i \in DOMAIN new /\ Wrote(new, i, k, cell, b) /\ log[i].order = new[i].order
        /\ k \in DOMAIN new[i].cells /\ byte = new[i].written[k]
    BY <1>2, <2>2, Zenon DEF WroteLast, Continues
  <2>4. ASSUME NEW j \in DOMAIN new, NEW m \in DOMAIN new[j].cells, Wrote(new, j, m, cell, b)
        PROVE  new[j].order < new[i].order \/ (j = i /\ m <= k)
    <3>1. j \in DOMAIN log /\ Wrote(log, j, m, cell, b) /\ log[j].order = new[j].order
      BY <1>1, <2>4, Zenon
    <3>2. m \in DOMAIN log[j].cells
      BY <3>1, Zenon DEF Continues
    <3>3. log[j].order < log[i].order \/ (j = i /\ m <= k)
      BY <2>2, <3>1, <3>2, Zenon DEF WroteLast
    <3> QED BY <2>3, <3>1, <3>3, Zenon
  <2> QED BY <2>3, <2>4, Zenon DEF Leaves, WroteLast
<1> QED BY <1>3, <1>4, Zenon DEF Leaves

\* The write of the next order leaves its last byte for a cell.
LEMMA LeavesWritten ==
  ASSUME NEW log, OrdersIn(log), NEW n \in Nat, NEW i \in DOMAIN log, log[i].order = n,
         log[i].written # <<>>, NEW k \in DOMAIN log[i].cells, NEW cell, log[i].cells[k] = cell,
         \A m \in DOMAIN log[i].cells : log[i].cells[m] = cell => m <= k
  PROVE  Leaves(log, log[i].written[k], cell, n + 1)
<1>1. Wrote(log, i, k, cell, n + 1)
  BY DEF Wrote, NoOrder
<1>2. ASSUME NEW j \in DOMAIN log, NEW m \in DOMAIN log[j].cells, Wrote(log, j, m, cell, n + 1)
      PROVE  log[j].order < log[i].order \/ (j = i /\ m <= k)
  <2>1. log[j].order # NoOrder /\ log[j].order < n + 1 /\ log[j].order \in Int
    BY <1>2, Zenon DEF Wrote, OrdersIn
  <2>2. log[j].order < n \/ log[j].order = n
    BY <2>1
  <2>3. CASE log[j].order = n
    <3>1. j = i
      BY <2>1, <2>3, Zenon DEF OrdersIn
    <3> QED BY <1>2, <3>1, Zenon DEF Wrote
  <2> QED BY <2>2, <2>3, Zenon
<1> QED BY <1>1, <1>2, Zenon DEF Leaves, WroteLast

\* An order whose effect does not write a cell leaves what there was.
LEMMA LeavesSkipped ==
  ASSUME NEW log, OrdersIn(log), NEW n \in Nat, NEW cell, NEW byte, Leaves(log, byte, cell, n),
         \A i \in DOMAIN log : log[i].order = n /\ log[i].written # <<>> =>
           \A k \in DOMAIN log[i].cells : log[i].cells[k] # cell
  PROVE  Leaves(log, byte, cell, n + 1)
<1>1. ASSUME NEW i \in DOMAIN log, NEW k \in DOMAIN log[i].cells
      PROVE  Wrote(log, i, k, cell, n + 1) <=> Wrote(log, i, k, cell, n)
  <2>1. log[i].order \in Int
    BY Zenon DEF OrdersIn
  <2>2. log[i].order < n + 1 <=> log[i].order < n \/ log[i].order = n
    BY <2>1
  <2> QED BY <2>2, Zenon DEF Wrote
<1>2. ASSUME NEW i \in DOMAIN log, NEW k \in DOMAIN log[i].cells, WroteLast(log, i, k, cell, n)
      PROVE  WroteLast(log, i, k, cell, n + 1)
  BY <1>1, <1>2, Zenon DEF WroteLast
<1> QED BY <1>1, <1>2, Zenon DEF Leaves

\* The next order writes an access: memory is what the writes up to it leave.
LEMMA WrittenLeaves ==
  ASSUME NEW log, OrdersIn(log), NEW n \in Nat, NEW i \in DOMAIN log, log[i].order = n,
         NEW size \in Nat, DOMAIN log[i].cells = 1..size, log[i].written # <<>> \/ size = 0,
         NEW B, NEW b \in DOMAIN B, NEW o \in DOMAIN B[b], Leaves(log, B[b][o], <<b, o>>, n)
  PROVE  Leaves(log, WriteCells(B, log[i].cells, log[i].written)[b][o], <<b, o>>, n + 1)
<1>1. PICK byte : byte = WriteCells(B, log[i].cells, log[i].written)[b][o]
  BY Zenon
<1>2. \/ byte = B[b][o] /\ \A k \in 1..size : log[i].cells[k] # <<b, o>>
      \/ \E k \in 1..size :
           /\ log[i].cells[k] = <<b, o>> /\ byte = log[i].written[k]
           /\ \A m \in 1..size : log[i].cells[m] = <<b, o>> => m <= k
  <2>1. Lands(byte, B[b][o], size, log[i].cells, log[i].written, <<b, o>>)
    BY <1>1, Landed, Zenon
  <2> QED BY <2>1, Zenon DEF Lands
<1>3. CASE byte = B[b][o] /\ \A k \in 1..size : log[i].cells[k] # <<b, o>>
  <2>1. ASSUME NEW j \in DOMAIN log, log[j].order = n PROVE j = i
    BY <2>1 DEF OrdersIn, NoOrder
  <2>2. \A j \in DOMAIN log : log[j].order = n /\ log[j].written # <<>> =>
          \A k \in DOMAIN log[j].cells : log[j].cells[k] # <<b, o>>
    BY <1>3, <2>1, Zenon
  <2>3. Leaves(log, byte, <<b, o>>, n)
    BY <1>3, Zenon
  <2> QED BY <1>1, <2>2, <2>3, LeavesSkipped, Zenon
<1>4. CASE \E k \in 1..size :
             /\ log[i].cells[k] = <<b, o>> /\ byte = log[i].written[k]
             /\ \A m \in 1..size : log[i].cells[m] = <<b, o>> => m <= k
  <2>1. PICK k \in 1..size :
          /\ log[i].cells[k] = <<b, o>> /\ byte = log[i].written[k]
          /\ \A m \in 1..size : log[i].cells[m] = <<b, o>> => m <= k
    BY <1>4, Zenon
  <2>2. log[i].written # <<>>
    BY <2>1
  <2> QED BY <1>1, <2>1, <2>2, LeavesWritten, Zenon
<1> QED BY <1>2, <1>3, <1>4, Zenon

\* Writing keeps the backings sequences, of the same lengths.
LEMMA BackingsKept ==
  ASSUME NEW B, Backings(B), NEW cells, NEW bytes, NEW C, C = WriteCells(B, cells, bytes)
  PROVE  /\ Backings(C) /\ Len(C) = Len(B) /\ DOMAIN C = 1..Len(B)
         /\ \A b \in 1..Len(B) : Len(C[b]) = Len(B[b]) /\ DOMAIN C[b] = 1..Len(B[b])
<1>1. PICK n \in Nat : n = Len(B)
  BY DEF Backings
<1>2. DOMAIN B = 1..n /\ \A b \in 1..n : Len(B[b]) \in Nat /\ DOMAIN B[b] = 1..Len(B[b])
  BY <1>1 DEF Backings
<1>3. C = [b \in 1..n |-> C[b]]
  BY <1>2 DEF WriteCells
<1>4. C \in Seq(Range(C)) /\ Len(C) = n /\ DOMAIN C = 1..n
  BY <1>3, IsSequence, Zenon
<1>5. ASSUME NEW b \in 1..n
      PROVE  C[b] \in Seq(Range(C[b])) /\ Len(C[b]) = Len(B[b]) /\ DOMAIN C[b] = 1..Len(B[b])
  <2>1. PICK l \in Nat : l = Len(B[b])
    BY <1>2
  <2>2. PICK f : f = C[b]
    OBVIOUS
  <2>3. f = [o \in 1..l |-> f[o]]
    BY <1>2, <2>1, <2>2 DEF WriteCells
  <2> QED BY <2>1, <2>2, <2>3, IsSequence, Zenon
<1> QED BY <1>1, <1>4, <1>5, Zenon DEF Backings

\* Memory that keeps its shape has the same cells, and its mappings stay within it.
LEMMA ShapeTyped ==
  ASSUME MemoryTyped, space' = space, Backings(backings'), Len(backings') = Len(backings),
         \A b \in 1..Len(backings) : Len(backings'[b]) = Len(backings[b])
  PROVE  MemoryTyped' /\ \A cell : IsCell(cell) => IsCell(cell)'
<1>1. ASSUME NEW m, MappingIn(m, backings) PROVE MappingIn(m, backings')
  BY <1>1, Zenon DEF MappingIn
<1>2. MemoryTyped'
  BY <1>1, Zenon DEF MemoryTyped
<1> QED BY <1>2, Zenon DEF IsCell

\* A backing more has more cells.
LEMMA GrownCells ==
  ASSUME MemoryTyped, Grown
  PROVE  /\ \A cell : IsCell(cell) => IsCell(cell)'
         /\ \A b \in DOMAIN backings' : \A o \in DOMAIN backings'[b] :
              \/ IsCell(<<b, o>>) /\ backings'[b][o] = backings[b][o]
              \/ ~IsCell(<<b, o>>) /\ backings'[b][o] = 0
<1>1. /\ Len(backings) \in Nat /\ DOMAIN backings = 1..Len(backings)
      /\ \A b \in 1..Len(backings) : DOMAIN backings[b] = 1..Len(backings[b])
  BY DEF MemoryTyped, Backings
<1>2. CASE backings' = backings
  BY <1>1, <1>2, Zenon DEF IsCell
<1>3. CASE \E size \in Nat : backings' = Append(backings, Zeros(size))
  <2>1. PICK size \in Nat : backings' = Append(backings, Zeros(size))
    BY <1>3, Zenon
  <2>2. PICK n \in Nat : n = Len(backings)
    BY <1>1
  <2>3. /\ Backings(backings') /\ Len(backings') = n + 1
        /\ \A b \in 1..n : backings'[b] = backings[b]
        /\ backings'[n + 1] = Zeros(size)
    BY <2>1, <2>2, BackingAdded, Zenon DEF MemoryTyped
  <2>4. DOMAIN backings' = 1..(n + 1)
    BY <2>3 DEF Backings
  <2>5. \A b \in 1..(n + 1) : b \in 1..n \/ (b = n + 1 /\ b \notin 1..n)
    OBVIOUS
  <2>6. \A b \in 1..n : b \in 1..(n + 1)
    OBVIOUS
  <2>7. \A cell : IsCell(cell) => IsCell(cell)'
    BY <2>2, <2>3, <2>6, Zenon DEF IsCell
  <2>8. ASSUME NEW b \in DOMAIN backings', NEW o \in DOMAIN backings'[b]
        PROVE  \/ IsCell(<<b, o>>) /\ backings'[b][o] = backings[b][o]
               \/ ~IsCell(<<b, o>>) /\ backings'[b][o] = 0
    <3>1. CASE b \in 1..n
      BY <1>1, <2>2, <2>3, <3>1, Zenon DEF IsCell
    <3>2. CASE b = n + 1 /\ b \notin 1..n
      <4>1. backings'[b][o] = 0
        BY <2>3, <3>2 DEF Zeros
      <4>2. ~IsCell(<<b, o>>)
        BY <2>2, <3>2 DEF IsCell
      <4> QED BY <4>1, <4>2, Zenon
    <3> QED BY <2>4, <2>5, <3>1, <3>2, Zenon
  <2> QED BY <2>7, <2>8, Zenon
<1> QED BY <1>2, <1>3, Zenon DEF Grown

\* SInv says of the bytes what SerialOrder does.
LEMMA SerialOrderHolds == SInv => SerialOrder
BY Zenon DEF SInv, OrdersIn, ReadsIn, MemoryIn, SerialOrder

-----------------------------------------------------------------------------
\* The steps.

\* The bytes that were read stay what the writes before them leave.
LEMMA ReadsKept ==
  ASSUME SInv, OrdersIn(events'), Continues(events, events', nextMemoryOrder),
         NEW i \in DOMAIN events, ~events'[i].device, NEW k \in DOMAIN events'[i].read,
         events'[i].read = events[i].read, events'[i].device = events[i].device
  PROVE  Leaves(events', events'[i].read[k], events'[i].cells[k], events'[i].order)
<1>1. EventKnown(events[i]) /\ nextMemoryOrder \in Nat
  BY Zenon DEF SInv
<1>2. events[i].order \in Nat /\ events[i].order < nextMemoryOrder
  <2>1. events[i].read # <<>>
    OBVIOUS
  <2> QED BY <1>1, <2>1, Zenon DEF EventKnown
<1>3. events[i].order # NoOrder
  BY <1>2 DEF NoOrder
<1>4. events'[i].order = events[i].order /\ events'[i].cells = events[i].cells
  BY <1>3, Zenon DEF Continues
<1>5. PICK byte, cell, bound : byte = events[i].read[k] /\ cell = events[i].cells[k] /\ bound = events[i].order
  BY Zenon
<1>6. Leaves(events, byte, cell, bound)
  BY <1>5, Zenon DEF SInv, ReadsIn
<1>7. bound \in Int /\ nextMemoryOrder \in Int /\ bound <= nextMemoryOrder
  BY <1>1, <1>2, <1>5
<1>8. Leaves(events', byte, cell, bound)
  BY <1>6, <1>7, LeavesContinues, Zenon
<1> QED BY <1>4, <1>5, <1>8, Zenon

\* What a step leaves that gives no order: memory only grows, and the events continue.
LEMMA SerialKept ==
  ASSUME SInv, Grown, OrdersIn(events'), Continues(events, events', nextMemoryOrder),
         nextMemoryOrder' = nextMemoryOrder,
         \A i \in DOMAIN events' : \A k \in DOMAIN events'[i].cells : IsCell(events'[i].cells[k]),
         \A i \in DOMAIN events : events'[i].read = events[i].read /\ events'[i].device = events[i].device,
         \A i \in DOMAIN events' : i \notin DOMAIN events => events'[i].read = <<>>
  PROVE  ReadsIn(events') /\ MemoryIn(events', backings', nextMemoryOrder')
<1>1. ReadsIn(events')
  <2> SUFFICES ASSUME NEW i \in DOMAIN events', ~events'[i].device, NEW k \in DOMAIN events'[i].read
               PROVE  Leaves(events', events'[i].read[k], events'[i].cells[k], events'[i].order)
    BY Zenon DEF ReadsIn
  <2>1. i \in DOMAIN events
    <3>1. events'[i].read # <<>>
      OBVIOUS
    <3> QED BY <3>1, Zenon
  <2> QED BY <2>1, ReadsKept, Zenon
<1>2. ASSUME NEW b \in DOMAIN backings', NEW o \in DOMAIN backings'[b]
      PROVE  Leaves(events', backings'[b][o], <<b, o>>, nextMemoryOrder)
  <2>1. MemoryTyped /\ nextMemoryOrder \in Nat
    BY Zenon DEF SInv
  <2>2. \/ IsCell(<<b, o>>) /\ backings'[b][o] = backings[b][o]
        \/ ~IsCell(<<b, o>>) /\ backings'[b][o] = 0
    BY <2>1, GrownCells, Zenon
  <2>3. CASE IsCell(<<b, o>>) /\ backings'[b][o] = backings[b][o]
    <3>1. b \in DOMAIN backings /\ o \in DOMAIN backings[b]
      BY <2>1, <2>3 DEF IsCell, MemoryTyped, Backings
    <3>2. Leaves(events, backings[b][o], <<b, o>>, nextMemoryOrder)
      BY <3>1, Zenon DEF SInv, MemoryIn
    <3>3. nextMemoryOrder \in Int /\ nextMemoryOrder <= nextMemoryOrder
      BY <2>1
    <3> QED BY <2>3, <3>2, <3>3, LeavesContinues, Zenon
  <2>4. CASE ~IsCell(<<b, o>>) /\ backings'[b][o] = 0
    <3>1. \A i \in DOMAIN events' : \A k \in DOMAIN events'[i].cells :
            ~Wrote(events', i, k, <<b, o>>, nextMemoryOrder)
      BY <2>4, Zenon DEF Wrote
    <3> QED BY <2>4, <3>1, Zenon DEF Leaves
  <2> QED BY <2>2, <2>3, <2>4, Zenon
<1>3. MemoryIn(events', backings', nextMemoryOrder')
  BY <1>2, Zenon DEF MemoryIn
<1> QED BY <1>1, <1>3, Zenon

\* A step that records no event and gives no order.
LEMMA QuietSInv ==
  ASSUME SInv, events' = events, nextMemoryOrder' = nextMemoryOrder, MemoryTyped', Grown,
         nextInstruction \in Nat, nextInstruction' \in Nat, nextInstruction <= nextInstruction',
         EventsApart', OrdersAgree', StoresRecorded'
  PROVE  SInv'
<1>1. MemoryTyped
  BY Zenon DEF SInv
<1>2. \A i \in DOMAIN events : \A k \in DOMAIN events[i].cells : IsCell(events[i].cells[k])
  BY Zenon DEF SInv, EventKnown
<1>3. ASSUME NEW i \in DOMAIN events PROVE EventKnown(events[i])'
  <2>1. EventKnown(events[i])
    BY Zenon DEF SInv
  <2>2. events[i].instruction \in Nat /\ events[i].instruction < nextInstruction'
    BY <2>1 DEF EventKnown
  <2>3. \A k \in DOMAIN events[i].cells : IsCell(events[i].cells[k])'
    BY <1>1, <1>2, GrownCells, Zenon
  <2> QED BY <2>1, <2>2, <2>3, Zenon DEF EventKnown
<1>4. OrdersIn(events') /\ Continues(events, events', nextMemoryOrder)
  BY Zenon DEF SInv, Continues
<1>5. ReadsIn(events') /\ MemoryIn(events', backings', nextMemoryOrder')
  BY <1>2, <1>4, SerialKept, Zenon
<1>6. EventsTyped'
  BY Zenon DEF SInv, EventsTyped, EventTyped
<1> QED BY <1>3, <1>4, <1>5, <1>6, Zenon DEF SInv

\* Nothing is said of an instruction when none is running.
LEMMA IdleSInv ==
  ASSUME SInv, events' = events, frame'.running = FALSE
  PROVE  EventsApart' /\ OrdersAgree' /\ StoresRecorded'
BY Zenon DEF SInv, EventsApart, OrdersAgree, StoresRecorded

\* Executor::new_at
LEMMA InitSInv == Init => SInv
<1> SUFFICES ASSUME Init PROVE SInv
  OBVIOUS
<1>1. events = <<>> /\ nextMemoryOrder = 0 /\ frame.running = FALSE /\ DOMAIN events = {}
  BY DEF Init, InitService, NoFrame, Framed
<1>2. Zeros(MemorySize) = [i \in 1..MemorySize |-> Zeros(MemorySize)[i]] /\ MemorySize \in Nat
  BY SizesAssumption DEF Zeros
<1>3. Zeros(MemorySize) \in Seq(Range(Zeros(MemorySize))) /\ Len(Zeros(MemorySize)) = MemorySize
  BY <1>2, IsSequence, Zenon
<1>4. backings = <<Zeros(MemorySize)>>
  BY DEF Init
<1>5. Len(backings) = 1 /\ DOMAIN backings = 1..1 /\ backings[1] = Zeros(MemorySize)
  BY <1>4
<1>6. Backings(backings)
  <2>1. backings = [b \in 1..1 |-> backings[b]]
    BY <1>4, <1>5
  <2>2. backings \in Seq(Range(backings))
    BY <2>1, IsSequence
  <2> QED BY <1>3, <1>5, <2>2 DEF Backings
<1>7. MemoryTyped
  <2>1. space.mappings = {[start |-> 0, end |-> 0 + MemorySize, backing |-> 1, offset |-> 0,
                           permissions |-> ReadWrite]}
    BY DEF Init, Mapped, EmptySpace
  <2>2. MappingIn([start |-> 0, end |-> 0 + MemorySize, backing |-> 1, offset |-> 0,
                   permissions |-> ReadWrite], backings)
    BY <1>2, <1>3, <1>5 DEF MappingIn
  <2> QED BY <1>6, <2>1, <2>2, Zenon DEF MemoryTyped
<1>8. MemoryIn(events, backings, nextMemoryOrder)
  <2>1. ASSUME NEW b \in DOMAIN backings, NEW o \in DOMAIN backings[b] PROVE backings[b][o] = 0
    BY <1>2, <1>5 DEF Zeros
  <2> QED BY <1>1, <2>1 DEF MemoryIn, Leaves
<1>9. EventsTyped
  BY <1>1 DEF EventsTyped
<1> QED BY <1>1, <1>7, <1>8, <1>9 DEF SInv, OrdersIn, EventsApart, OrdersAgree, StoresRecorded, ReadsIn

\* The host's changes between instructions.
LEMMA HostSInv ==
  ASSUME IInv, SInv, Host
  PROVE  SInv'
<1>1. MemoryTyped' /\ Grown
  BY HostMemory, Zenon DEF SInv, Host
<1>2. /\ events' = events /\ nextMemoryOrder' = nextMemoryOrder /\ nextInstruction' = nextInstruction
      /\ frame'.running = FALSE /\ nextInstruction \in Nat
  BY DEF Host, IInv, Typed, FrameTyped
<1>3. nextInstruction <= nextInstruction'
  BY <1>2
<1> QED BY <1>1, <1>2, <1>3, IdleSInv, QuietSInv, Zenon

\* execute_frame up to begin_instruction: no event is of the instruction it begins.
LEMMA StartSInv ==
  ASSUME IInv, SInv, NEW effects \in Instructions, Start(effects)
  PROVE  SInv'
<1>1. /\ events' = events /\ nextInstruction' = nextInstruction + 1
      /\ UNCHANGED <<space, backings, nextMemoryOrder>>
      /\ \/ frame' = NoFrame
         \/ effectOrders' = <<>> /\ active'.stores = <<>>
  <2>1. [Idle EXCEPT !.id = nextInstruction, !.generation = space.generation].stores = <<>>
    BY DEF Idle
  <2> QED BY <2>1, Zenon DEF Start, BeginInstruction, serviceVars
<1>2. nextInstruction \in Nat /\ nextInstruction' \in Nat /\ nextInstruction <= nextInstruction'
  BY <1>1 DEF IInv, Typed
<1>3. MemoryTyped' /\ Grown
  BY <1>1, Zenon DEF SInv, MemoryTyped, Grown
<1>4. EventsApart' /\ OrdersAgree' /\ StoresRecorded'
  <2>1. CASE frame' = NoFrame
    <3>1. frame'.running = FALSE
      BY <2>1 DEF NoFrame, Framed
    <3> QED BY <1>1, <3>1, IdleSInv, Zenon
  <2>2. CASE effectOrders' = <<>> /\ active'.stores = <<>>
    <3>1. DOMAIN effectOrders' = {} /\ DOMAIN active'.stores = {}
      BY <2>2
    <3>2. Id' = nextInstruction
      BY <1>1, <1>2 DEF Id
    <3>3. ASSUME NEW i \in DOMAIN events PROVE events[i].instruction # Id'
      BY <1>2, <3>2 DEF SInv, EventKnown
    <3>4. EventsApart'
      BY <1>1, <3>3, Zenon DEF SInv, EventsApart
    <3>5. OrdersAgree'
      BY <1>1, <3>1, Zenon DEF OrdersAgree
    <3>6. StoresRecorded'
      BY <3>1, Zenon DEF StoresRecorded
    <3> QED BY <3>4, <3>5, <3>6
  <2> QED BY <1>1, <2>1, <2>2
<1> QED BY <1>1, <1>2, <1>3, <1>4, QuietSInv, Zenon

\* An instruction that ends without a commit.
LEMMA AbortSInv ==
  ASSUME IInv, SInv, Fault \/ CommitFault
  PROVE  SInv'
<1>1. /\ UNCHANGED <<space, backings, nextMemoryOrder, events, nextInstruction>> /\ frame' = NoFrame
  BY Zenon DEF Fault, CommitFault, AbortInstruction
<1>2. nextInstruction \in Nat /\ nextInstruction <= nextInstruction'
  BY <1>1 DEF IInv, Typed
<1>3. MemoryTyped' /\ Grown
  BY <1>1, Zenon DEF SInv, MemoryTyped, Grown
<1>4. frame'.running = FALSE
  BY <1>1 DEF NoFrame, Framed
<1> QED BY <1>1, <1>2, <1>3, <1>4, IdleSInv, QuietSInv, Zenon

\* The event of the effect that is pending.
NewEvent(new) ==
  /\ EventTyped(new) /\ events' = Append(events, new)
  /\ new.instruction = Id /\ new.sequence = frame.sequence
  /\ \/ new.order = NoOrder /\ new.read = <<>> /\ nextMemoryOrder' = nextMemoryOrder
     \/ new.order = nextMemoryOrder /\ nextMemoryOrder' = nextMemoryOrder + 1
  /\ \A k \in DOMAIN new.cells : IsCell(new.cells[k])

\* A step of the instruction under way.
Advances ==
  /\ frame.running /\ nextInstruction' = nextInstruction
  /\ active.nextSequence = frame.sequence /\ active'.nextSequence = frame.sequence + 1
  /\ \A cell : IsCell(cell) => IsCell(cell)'

\* Recording an event keeps what is known of the events.
LEMMA RecordedEvent ==
  ASSUME IInv, SInv, NEW new, NewEvent(new), Advances
  PROVE  /\ Len(events) + 1 \in DOMAIN events' /\ events'[Len(events) + 1] = new
         /\ \A i \in DOMAIN events : i \in DOMAIN events' /\ events'[i] = events[i]
         /\ \A i \in DOMAIN events' : i \in DOMAIN events \/ i = Len(events) + 1
         /\ Len(events) + 1 \notin DOMAIN events
         /\ EventsTyped' /\ nextMemoryOrder' \in Nat
         /\ \A i \in DOMAIN events' : EventKnown(events[i])'
         /\ OrdersIn(events') /\ EventsApart'
         /\ Continues(events, events', nextMemoryOrder)
<1>1. /\ EventsTyped /\ nextMemoryOrder \in Nat /\ OrdersIn(events)
      /\ \A i \in DOMAIN events : EventKnown(events[i])
  BY Zenon DEF SInv
<1>2. PICK n \in Nat : n = Len(events) /\ DOMAIN events = 1..n
  BY <1>1 DEF EventsTyped
<1>3. /\ EventsTyped' /\ Len(events') = n + 1
      /\ \A i \in 1..n : events'[i] = events[i]
      /\ events'[n + 1] = new
  BY <1>1, <1>2, AppendEvent DEF NewEvent
<1>4. DOMAIN events' = 1..(n + 1)
  BY <1>3 DEF EventsTyped
<1>5. PICK m \in Nat : m = n + 1
  OBVIOUS
<1>6. /\ m \in DOMAIN events' /\ events'[m] = new /\ m \notin DOMAIN events
      /\ \A i \in DOMAIN events : i \in DOMAIN events' /\ events'[i] = events[i]
      /\ \A i \in DOMAIN events' : i \in DOMAIN events \/ i = m
  BY <1>2, <1>3, <1>4, <1>5
<1>7. PICK id \in Nat : id = Id /\ id < nextInstruction
  BY DEF IInv, Typed, Id
<1>8. frame.sequence \in Nat
  BY DEF IInv, Typed, FrameTyped
<1>9. nextMemoryOrder' \in Nat /\ nextMemoryOrder <= nextMemoryOrder'
  BY <1>1 DEF NewEvent
<1>10. ASSUME NEW i \in DOMAIN events PROVE EventKnown(events[i])'
  <2>1. EventKnown(events[i])
    BY <1>1, Zenon
  <2>2. \/ events[i].order = NoOrder /\ events[i].read = <<>>
        \/ events[i].order \in Nat /\ events[i].order < nextMemoryOrder'
    BY <1>1, <1>9, <2>1 DEF EventKnown
  <2> QED BY <1>6, <2>1, <2>2, Zenon DEF EventKnown, Advances
<1>11. new.order # NoOrder => new.order = nextMemoryOrder /\ nextMemoryOrder < nextMemoryOrder'
  BY <1>1 DEF NewEvent
<1>12. new.order = NoOrder => new.read = <<>>
  BY <1>1 DEF NewEvent, NoOrder
<1>13. EventKnown(events[m])'
  BY <1>1, <1>6, <1>7, <1>8, <1>11, <1>12, Zenon DEF EventKnown, Advances, NewEvent
<1>14. OrdersIn(events')
  <2>1. \A i \in DOMAIN events : events[i].order \in Int /\ events[i].order # nextMemoryOrder
    BY <1>1, SMTT(40) DEF EventKnown, NoOrder
  <2>2. new.order \in Int
    BY <1>1 DEF NewEvent, NoOrder
  <2>3. ASSUME NEW i \in DOMAIN events', NEW j \in DOMAIN events', events'[i].order = events'[j].order
        PROVE  i = j \/ events'[i].order = NoOrder
    <3>1. CASE i \in DOMAIN events /\ j \in DOMAIN events
      BY <1>1, <1>6, <2>3, <3>1, Zenon DEF OrdersIn
    <3>2. CASE i = m /\ j = m
      BY <3>2, Zenon
    <3>3. CASE (i = m /\ j \in DOMAIN events) \/ (i \in DOMAIN events /\ j = m)
      BY <1>6, <1>11, <2>1, <2>3, <3>3, Zenon
    <3> QED BY <1>6, <3>1, <3>2, <3>3, Zenon
  <2> QED BY <1>6, <2>1, <2>2, <2>3, Zenon DEF OrdersIn
<1>15. EventsApart'
  <2>0. EventsApart
    BY Zenon DEF SInv
  <2>1. ASSUME NEW i \in DOMAIN events, events[i].instruction = Id PROVE events[i].sequence < frame.sequence
    BY <2>0, <2>1, Zenon DEF EventsApart, Advances
  <2>2. ASSUME NEW i \in DOMAIN events, events[i].instruction = Id
        PROVE  events[i].sequence # frame.sequence /\ events[i].sequence < frame.sequence + 1
    <3>1. events[i].sequence \in Nat
      BY <1>1, Zenon DEF EventKnown
    <3> QED BY <1>8, <2>1, <2>2, <3>1
  <2>3. Id' = Id
    BY Zenon DEF Id, Advances
  <2>4. ASSUME NEW i \in DOMAIN events', NEW j \in DOMAIN events',
               events'[i].instruction = events'[j].instruction,
               events'[i].sequence = events'[j].sequence
        PROVE  i = j
    <3>1. CASE i \in DOMAIN events /\ j \in DOMAIN events
      BY <1>6, <2>0, <2>4, <3>1, Zenon DEF EventsApart
    <3>2. CASE i = m /\ j = m
      BY <3>2, Zenon
    <3>3. CASE (i = m /\ j \in DOMAIN events) \/ (i \in DOMAIN events /\ j = m)
      BY <1>6, <2>2, <2>4, <3>3, Zenon DEF NewEvent
    <3> QED BY <1>6, <3>1, <3>2, <3>3, Zenon
  <2>5. ASSUME NEW i \in DOMAIN events', events'[i].instruction = Id
        PROVE  events'[i].sequence < frame.sequence + 1
    <3>1. frame.sequence < frame.sequence + 1
      BY <1>8
    <3> QED BY <1>6, <2>2, <2>5, <3>1, Zenon DEF NewEvent
  <2> QED BY <2>3, <2>4, <2>5, Zenon DEF EventsApart, Advances
<1>16. Continues(events, events', nextMemoryOrder)
  <2>1. ~(nextMemoryOrder < nextMemoryOrder)
    BY <1>1
  <2> QED BY <1>6, <1>11, <2>1, Zenon DEF Continues
<1> QED BY <1>2, <1>3, <1>5, <1>6, <1>9, <1>10, <1>13, <1>14, <1>15, <1>16, Zenon

\* An effect of this instruction that has no order yet.
LEMMA NoOrderYet ==
  ASSUME SInv, frame.running, active.nextSequence = frame.sequence, frame.sequence \in Nat
  PROVE  frame.sequence \notin DOMAIN effectOrders
<1>1. \A s \in DOMAIN effectOrders : s \in Nat /\ s < frame.sequence
  BY Zenon DEF SInv, OrdersAgree
<1>2. ~(frame.sequence < frame.sequence)
  OBVIOUS
<1> QED BY <1>1, <1>2, Zenon

\* raise_exception: the handler may change the mappings, and there is no staged store then.
LEMMA ExceptionSInv ==
  ASSUME IInv, SInv, Exception
  PROVE  SInv'
<1> DEFINE new == Event(Pending, [Done EXCEPT !.ok = ~frame'.failed])
<1>1. /\ frame.running /\ ~frame.failed /\ frame.sequence < Len(frame.effects)
      /\ Pending.kind = "exception" /\ nextInstruction' = nextInstruction
      /\ active' = [active EXCEPT !.nextSequence = @ + 1]
      /\ UNCHANGED <<nextMemoryOrder, effectOrders>>
      /\ events' = Append(events, new)
  BY Zenon DEF Exception
<1>2. Typed /\ InStep
  BY <1>1, Zenon DEF IInv
<1>3. /\ active.nextSequence = frame.sequence /\ frame.sequence \in Nat
      /\ active'.nextSequence = frame.sequence + 1 /\ active'.stores = active.stores
  <2>1. active.nextSequence = frame.sequence /\ frame.sequence \in Nat /\ active \in Actives
    BY <1>1, <1>2 DEF InStep, Typed, FrameTyped
  <2>2. active'.nextSequence = active.nextSequence + 1 /\ active'.stores = active.stores
    BY <1>1, <2>1 DEF Actives
  <2> QED BY <2>1, <2>2
<1>4. active.stores = <<>>
  <2>1. ~(Len(frame.effects) > 1)
    BY <1>1, SeveralSucceeds
  <2>2. frame.sequence = 0 /\ Single
    BY <1>1, <2>1, OnlyEffect
  <2> QED BY <2>2 DEF Single
<1>5. MemoryTyped' /\ Grown
  <2>1. CASE HostChange
    BY <2>1, HostMemory, Zenon DEF SInv
  <2>2. CASE UNCHANGED <<space, backings, devices>>
    BY <2>2, Zenon DEF SInv, MemoryTyped, Grown
  <2> QED BY <2>1, <2>2, Zenon DEF Exception
<1>6. \A cell : IsCell(cell) => IsCell(cell)'
  BY <1>5, GrownCells, Zenon DEF SInv
<1>7. /\ EventTyped(new) /\ new.instruction = Id /\ new.sequence = frame.sequence
      /\ new.order = NoOrder /\ new.read = <<>> /\ new.cells = <<>> /\ new.written = <<>>
  <2>1. frame.sequence \notin DOMAIN effectOrders'
    BY <1>1, <1>3, NoOrderYet, Zenon
  <2>2. [Done EXCEPT !.ok = ~frame'.failed].written = <<>>
    BY DEF Done, Failed
  <2> QED BY <1>1, <2>1, <2>2 DEF Event, EventTyped
<1>8. NewEvent(new)
  BY <1>1, <1>7 DEF NewEvent
<1>9. Advances
  BY <1>1, <1>3, <1>6, Zenon DEF Advances
<1> HIDE DEF new
<1>10. PICK m : m = Len(events) + 1
  BY Zenon
<1>11. /\ m \in DOMAIN events' /\ events'[m] = new
       /\ \A i \in DOMAIN events : i \in DOMAIN events' /\ events'[i] = events[i]
       /\ \A i \in DOMAIN events' : i \in DOMAIN events \/ i = m
       /\ m \notin DOMAIN events
       /\ EventsTyped' /\ nextMemoryOrder' \in Nat
       /\ \A i \in DOMAIN events' : EventKnown(events[i])'
       /\ OrdersIn(events') /\ EventsApart'
       /\ Continues(events, events', nextMemoryOrder)
  BY <1>8, <1>9, <1>10, RecordedEvent, Zenon
<1>12. \A i \in DOMAIN events' : \A k \in DOMAIN events'[i].cells : IsCell(events'[i].cells[k])
  BY <1>8, <1>11, Zenon DEF NewEvent, SInv, EventKnown
<1>13. ReadsIn(events') /\ MemoryIn(events', backings', nextMemoryOrder')
  BY <1>1, <1>5, <1>7, <1>11, <1>12, SerialKept, Zenon
<1>14. OrdersAgree'
  <2>1. \A s \in DOMAIN effectOrders : s \in Nat /\ s < frame.sequence
    BY <1>1, <1>3, Zenon DEF SInv, OrdersAgree
  <2>2. \A s \in DOMAIN effectOrders : s \in Nat /\ s < frame.sequence + 1
    BY <1>3, <2>1
  <2>3. frame.sequence \notin DOMAIN effectOrders
    BY <1>1, <1>3, NoOrderYet, Zenon
  <2>4. Id' = Id
    BY <1>1, Zenon DEF Id
  <2>5. \A i \in DOMAIN events' :
          events'[i].instruction = Id /\ events'[i].sequence \in DOMAIN effectOrders =>
            events'[i].order = effectOrders[events'[i].sequence]
    <3>1. \A i \in DOMAIN events :
            events[i].instruction = Id /\ events[i].sequence \in DOMAIN effectOrders =>
              events[i].order = effectOrders[events[i].sequence]
      BY <1>1, Zenon DEF SInv, OrdersAgree
    <3>2. events'[m].sequence \notin DOMAIN effectOrders
      BY <1>7, <1>11, <2>3, Zenon
    <3> QED BY <1>11, <3>1, <3>2, Zenon
  <2> QED BY <1>1, <1>3, <2>2, <2>4, <2>5, Zenon DEF OrdersAgree
<1>15. StoresRecorded'
  <2>1. DOMAIN active'.stores = {}
    BY <1>3, <1>4, SMTT(40)
  <2> QED BY <2>1, Zenon DEF StoresRecorded
<1> QED BY <1>5, <1>11, <1>13, <1>14, <1>15, Zenon DEF SInv

\* What an effect reads, and where it writes at once.
LEMMA EffectBytes ==
  ASSUME NEW e, e.kind \in Kinds
  PROVE  /\ e.kind = "read" /\ ExecuteEffect(e).ok =>
              /\ Accessible(space, e.address, e.size, "read")
              /\ DevicesMet(e.address, e.size) = {} =>
                   ExecuteEffect(e).word = ReadCells(backings, Cells(space, e.address, e.size))
         /\ e.kind \in {"load_reserved", "atomic_rmw"} /\ ExecuteEffect(e).ok =>
              /\ Accessible(space, e.address, e.size, "read")
              /\ ExecuteEffect(e).word = ReadCells(backings, Cells(space, e.address, e.size))
         /\ ExecuteEffect(e).written # <<>> =>
              /\ e.kind \in {"store_conditional", "atomic_rmw"} /\ ExecuteEffect(e).ok
              /\ Accessible(space, e.address, e.size, "write")
<1>1. CASE e.kind = "read"
  BY <1>1, Zenon DEF ExecuteEffect, ReadEffect, Done, Failed
<1>2. CASE e.kind = "write"
  BY <1>2 DEF ExecuteEffect, WriteEffect, Done, Failed
<1>3. CASE e.kind = "load_reserved"
  BY <1>3 DEF ExecuteEffect, LoadReserved, RamAccessible, Done, Failed
<1>4. CASE e.kind = "store_conditional"
  BY <1>4 DEF ExecuteEffect, StoreConditional, RamAccessible, Done, Failed
<1>5. CASE e.kind = "atomic_rmw"
  BY <1>5 DEF ExecuteEffect, AtomicRmw, RamAccessible, Done, Failed
<1>6. CASE e.kind \in {"fence", "exception"}
  BY <1>6, SMTT(40) DEF ExecuteEffect, Done, Failed
<1> QED BY <1>1, <1>2, <1>3, <1>4, <1>5, <1>6, ZenonT(40) DEF Kinds

\* The event of an effect has the cells of its access, when it read or wrote any.
Records(new, e, outcome, order) ==
  /\ EventTyped(new) /\ new.instruction = Id /\ new.sequence = frame.sequence
  /\ new.order = order
  /\ IF outcome.ok /\ e.kind \in {"read", "load_reserved", "atomic_rmw"}
     THEN new.read = outcome.word /\ new.cells = Cells(space, e.address, e.size)
     ELSE new.read = <<>>
  /\ new.cells = <<>> \/ new.cells = Cells(space, e.address, e.size)
  /\ outcome.written # <<>> \/ (outcome.ok /\ e.kind = "write") =>
       new.cells = Cells(space, e.address, e.size)
  /\ ~outcome.ok /\ outcome.written = <<>> => new.cells = <<>>
  /\ outcome.written = <<>> /\ e.kind \in {"store_conditional", "fence"} => new.cells = <<>>
  /\ e.kind = "write" /\ outcome.ok => new.written = e.bytes
  /\ ~(e.kind = "write" /\ outcome.ok) => new.written = outcome.written
  /\ e.kind = "read" /\ outcome.ok /\ ~new.device => DevicesMet(e.address, e.size) = {}

\* Event is such.
LEMMA EventRecords ==
  ASSUME NEW e, NEW outcome, e.kind \in Kinds \ {"exception"}
  PROVE  Records(Event(e, outcome), e, outcome,
                 IF frame.sequence \in DOMAIN effectOrders' THEN effectOrders'[frame.sequence] ELSE NoOrder)
BY Zenon DEF Records, Event, EventTyped, Kinds

\* What an effect that was serviced does to memory, and what its event says of it.
Serviced(new, size) ==
  /\ NewEvent(new)
  /\ new.device \/ \A k \in DOMAIN new.read :
       /\ k \in DOMAIN new.cells
       /\ new.read[k] = backings[new.cells[k][1]][new.cells[k][2]]
  /\ \/ backings' = backings /\ (new.written = <<>> \/ new.order = NoOrder)
     \/ /\ backings' = WriteCells(backings, new.cells, new.written)
        /\ new.order = nextMemoryOrder /\ new.written # <<>> /\ DOMAIN new.cells = 1..size

\* service gives an effect that happens at once the next order, and has it written or read
\* what its event says.
LEMMA EffectServiced ==
  ASSUME IInv, SInv, Effect
  PROVE  Serviced(Event(Pending, ExecuteEffect(Pending)), Pending.size)
<1> DEFINE outcome == ExecuteEffect(Pending)
           cells == Cells(space, Pending.address, Pending.size)
<1>1. /\ frame.running /\ ~frame.failed /\ frame.sequence < Len(frame.effects)
      /\ Pending.kind # "exception"
      /\ backings' = IF outcome.written = <<>> THEN backings
                     ELSE WriteCells(backings, cells, outcome.written)
      /\ events' = Append(events, Event(Pending, outcome))
  BY Zenon DEF Effect, Service
<1>2. /\ outcome.ok /\ Pending.kind # "write" =>
           /\ nextMemoryOrder' = nextMemoryOrder + 1
           /\ effectOrders' = Inserted([s \in {frame.sequence} |-> nextMemoryOrder])
      /\ ~(outcome.ok /\ Pending.kind # "write") =>
           nextMemoryOrder' = nextMemoryOrder /\ effectOrders' = effectOrders
  BY <1>1, SMTT(40) DEF Effect, Service, LinearizesImmediately
<1>3. Pending.kind \in Kinds \ {"exception"}
  BY <1>1, PendingEffect, SMTT(40)
<1>4. Pending.kind # "fence" => Pending.address \in Nat /\ Pending.size \in Nat
  <2>1. /\ frame.effects \in Instructions /\ frame.sequence + 1 \in 1..Len(frame.effects)
        /\ Pending = frame.effects[frame.sequence + 1]
    BY <1>1, PendingEffect, Zenon DEF IInv, InStep
  <2> QED BY <1>1, <2>1, InstructionsAssumption, SMTT(40)
<1>5. PICK new : new = Event(Pending, outcome)
  BY Zenon
<1>6. PICK order : order = IF frame.sequence \in DOMAIN effectOrders' THEN effectOrders'[frame.sequence] ELSE NoOrder
  BY Zenon
<1>7. Records(new, Pending, outcome, order)
  BY <1>3, <1>5, <1>6, EventRecords, Zenon
<1>8. /\ outcome.ok /\ Pending.kind # "write" => order = nextMemoryOrder
      /\ ~(outcome.ok /\ Pending.kind # "write") => order = NoOrder
  <2>1. frame.sequence \notin DOMAIN effectOrders
    <3>1. active.nextSequence = frame.sequence /\ frame.sequence \in Nat
      BY <1>1 DEF IInv, InStep, Typed, FrameTyped
    <3> QED BY <1>1, <3>1, NoOrderYet, Zenon
  <2>2. CASE outcome.ok /\ Pending.kind # "write"
    <3>1. PICK f : f = Inserted([s \in {frame.sequence} |-> nextMemoryOrder])
      BY Zenon
    <3>2. frame.sequence \in DOMAIN f /\ f[frame.sequence] = nextMemoryOrder
      BY <3>1 DEF Inserted
    <3> QED BY <1>2, <1>6, <2>2, <3>1, <3>2, Zenon
  <2>3. CASE ~(outcome.ok /\ Pending.kind # "write")
    BY <1>2, <1>6, <2>1, <2>3, Zenon
  <2> QED BY <2>2, <2>3, Zenon
<1>9. /\ Pending.kind = "read" /\ outcome.ok =>
           /\ Accessible(space, Pending.address, Pending.size, "read")
           /\ DevicesMet(Pending.address, Pending.size) = {} => outcome.word = ReadCells(backings, cells)
      /\ Pending.kind \in {"load_reserved", "atomic_rmw"} /\ outcome.ok =>
           /\ Accessible(space, Pending.address, Pending.size, "read")
           /\ outcome.word = ReadCells(backings, cells)
      /\ outcome.written # <<>> =>
           /\ Pending.kind \in {"store_conditional", "atomic_rmw"} /\ outcome.ok
           /\ Accessible(space, Pending.address, Pending.size, "write")
      /\ Pending.kind = "write" /\ outcome.ok =>
           Accessible(space, Pending.address, Pending.size, "write")
  <2>1. Pending.kind \in Kinds
    BY <1>3, Zenon
  <2>2. Pending.kind = "write" /\ outcome.ok => RamAccessible(Pending.address, Pending.size, "write")
    BY <2>1, EffectStores, Zenon
  <2> QED BY <2>1, <2>2, EffectBytes, Zenon DEF RamAccessible
<1> HIDE DEF outcome, cells
\* The cells there are in the event are of an access that is valid.
<1>10. ASSUME NEW permission, Accessible(space, Pending.address, Pending.size, permission),
              Pending.kind # "fence"
       PROVE  DOMAIN cells = 1..Pending.size /\ \A k \in DOMAIN cells : IsCell(cells[k])
  BY <1>4, <1>10, CellsInside, Zenon DEF SInv, cells
<1>11. ASSUME new.cells # <<>>
       PROVE  /\ new.cells = cells /\ DOMAIN cells = 1..Pending.size
              /\ \A k \in DOMAIN cells : IsCell(cells[k])
  <2>1. new.cells = cells
    BY <1>7, <1>11, Zenon DEF Records, cells
  <2>2. outcome.ok
    BY <1>7, <1>9, <1>11, Zenon DEF Records
  <2>3. Pending.kind # "fence"
    BY <1>7, <1>9, <1>11, Zenon DEF Records
  <2>4. CASE Pending.kind \in {"read", "load_reserved", "atomic_rmw"}
    BY <1>9, <1>10, <2>1, <2>2, <2>3, <2>4, Zenon
  <2>5. CASE Pending.kind = "write"
    BY <1>9, <1>10, <2>1, <2>2, <2>3, <2>5, Zenon
  <2>6. CASE Pending.kind = "store_conditional"
    <3>1. outcome.written # <<>>
      BY <1>7, <1>11, <2>6, Zenon DEF Records
    <3> QED BY <1>9, <1>10, <2>1, <2>3, <3>1, Zenon
  <2> QED BY <1>3, <2>3, <2>4, <2>5, <2>6 DEF Kinds
<1>12. DOMAIN <<>> = {}
  OBVIOUS
<1>13. NewEvent(new)
  <2>1. \A k \in DOMAIN new.cells : IsCell(new.cells[k])
    BY <1>11, <1>12, Zenon
  <2>2. \/ new.order = NoOrder /\ new.read = <<>> /\ nextMemoryOrder' = nextMemoryOrder
        \/ new.order = nextMemoryOrder /\ nextMemoryOrder' = nextMemoryOrder + 1
    <3>1. CASE outcome.ok /\ Pending.kind # "write"
      BY <1>2, <1>7, <1>8, <3>1, Zenon DEF Records
    <3>2. CASE ~(outcome.ok /\ Pending.kind # "write")
      <4>1. new.read = <<>>
        BY <1>7, <3>2 DEF Records
      <4> QED BY <1>2, <1>7, <1>8, <3>2, <4>1, ZenonT(40) DEF Records
    <3> QED BY <3>1, <3>2, Zenon
  <2> QED BY <1>1, <1>5, <1>7, <2>1, <2>2, Zenon DEF NewEvent, Records
<1>14. new.device \/ \A k \in DOMAIN new.read :
         k \in DOMAIN new.cells /\ new.read[k] = backings[new.cells[k][1]][new.cells[k][2]]
  <2>1. CASE outcome.ok /\ Pending.kind \in {"read", "load_reserved", "atomic_rmw"} /\ ~new.device
    <3>1. new.read = outcome.word /\ new.cells = cells
      BY <1>7, <2>1, ZenonT(40) DEF Records, cells
    <3>2. outcome.word = ReadCells(backings, cells)
      BY <1>7, <1>9, <2>1, Zenon DEF Records
    <3> QED BY <3>1, <3>2 DEF ReadCells
  <2>2. CASE ~(outcome.ok /\ Pending.kind \in {"read", "load_reserved", "atomic_rmw"})
    BY <1>7, <1>12, <2>2, Zenon DEF Records
  <2> QED BY <2>1, <2>2, Zenon
<1>15. \/ backings' = backings /\ (new.written = <<>> \/ new.order = NoOrder)
       \/ /\ backings' = WriteCells(backings, new.cells, new.written)
          /\ new.order = nextMemoryOrder /\ new.written # <<>> /\ DOMAIN new.cells = 1..Pending.size
  <2>1. CASE outcome.written = <<>>
    <3>1. new.written = <<>> \/ new.order = NoOrder
      BY <1>7, <1>8, <2>1, Zenon DEF Records
    <3> QED BY <1>1, <2>1, <3>1, Zenon
  <2>2. CASE outcome.written # <<>>
    <3>1. Pending.kind \in {"store_conditional", "atomic_rmw"} /\ outcome.ok
      BY <1>9, <2>2, Zenon
    <3>2. Pending.kind # "write" /\ Pending.kind # "fence"
      BY <3>1
    <3>3. new.cells = cells /\ new.written = outcome.written /\ new.order = nextMemoryOrder
      BY <1>7, <1>8, <2>2, <3>1, <3>2, Zenon DEF Records, cells
    <3>4. DOMAIN cells = 1..Pending.size
      BY <1>9, <1>10, <2>2, <3>2, Zenon
    <3> QED BY <1>1, <2>2, <3>3, <3>4, Zenon
  <2> QED BY <2>1, <2>2, Zenon
<1> QED BY <1>5, <1>13, <1>14, <1>15, Zenon DEF Serviced, outcome

\* Servicing an effect keeps memory what the events leave.
LEMMA ServicedMemory ==
  ASSUME IInv, SInv, NEW new, NEW size \in Nat, Serviced(new, size), Advances
  PROVE  ReadsIn(events') /\ MemoryIn(events', backings', nextMemoryOrder')
<1>0. PICK m : m = Len(events) + 1
  BY Zenon
<1>1. /\ m \in DOMAIN events' /\ events'[m] = new
      /\ \A i \in DOMAIN events : i \in DOMAIN events' /\ events'[i] = events[i]
      /\ \A i \in DOMAIN events' : i \in DOMAIN events \/ i = m
      /\ OrdersIn(events') /\ Continues(events, events', nextMemoryOrder)
  BY <1>0, RecordedEvent, Zenon DEF Serviced
<1>2. nextMemoryOrder \in Nat /\ nextMemoryOrder \in Int /\ nextMemoryOrder <= nextMemoryOrder
  BY DEF SInv
<1>3. ASSUME NEW b \in DOMAIN backings, NEW o \in DOMAIN backings[b]
      PROVE  Leaves(events', backings[b][o], <<b, o>>, nextMemoryOrder)
  <2>1. Leaves(events, backings[b][o], <<b, o>>, nextMemoryOrder)
    BY Zenon DEF SInv, MemoryIn
  <2> QED BY <1>1, <1>2, <2>1, LeavesContinues, Zenon
<1>4. ReadsIn(events')
  <2> SUFFICES ASSUME NEW i \in DOMAIN events', ~events'[i].device, NEW k \in DOMAIN events'[i].read
               PROVE  Leaves(events', events'[i].read[k], events'[i].cells[k], events'[i].order)
    BY Zenon DEF ReadsIn
  <2>1. CASE i \in DOMAIN events
    <3>1. events'[i].read = events[i].read /\ events'[i].device = events[i].device
      BY <1>1, <2>1, Zenon
    <3> QED BY <1>1, <2>1, <3>1, ReadsKept, Zenon
  <2>2. CASE i = m
    <3>1. ~new.device /\ k \in DOMAIN new.read /\ events'[i] = new
      BY <1>1, <2>2, Zenon
    <3>2. k \in DOMAIN new.cells /\ new.read[k] = backings[new.cells[k][1]][new.cells[k][2]]
      BY <3>1, Zenon DEF Serviced
    <3>3. new.read # <<>>
      BY <3>1
    <3>4. new.order = nextMemoryOrder /\ IsCell(new.cells[k])
      BY <3>2, <3>3, Zenon DEF Serviced, NewEvent
    <3>5. PICK b \in 1..Len(backings) : \E o \in 1..Len(backings[b]) : new.cells[k] = <<b, o>>
      BY <3>4, Zenon DEF IsCell
    <3>6. PICK o \in 1..Len(backings[b]) : new.cells[k] = <<b, o>>
      BY <3>5, Zenon
    <3>7. b \in DOMAIN backings /\ o \in DOMAIN backings[b]
      BY <3>5, <3>6 DEF SInv, MemoryTyped, Backings
    <3>8. new.cells[k][1] = b /\ new.cells[k][2] = o
      BY <3>6
    <3>9. new.read[k] = backings[b][o]
      BY <3>2, <3>8, Zenon
    <3> QED BY <1>3, <3>1, <3>4, <3>6, <3>7, <3>9, Zenon
  <2> QED BY <1>1, <2>1, <2>2, Zenon
<1>5. MemoryIn(events', backings', nextMemoryOrder')
  <2>1. CASE backings' = backings /\ new.order = NoOrder
    <3>1. nextMemoryOrder' = nextMemoryOrder
      BY <1>2, <2>1 DEF Serviced, NewEvent, NoOrder
    <3> QED BY <1>3, <2>1, <3>1, ZenonT(40) DEF MemoryIn
  <2>2. ASSUME new.order # NoOrder PROVE nextMemoryOrder' = nextMemoryOrder + 1 /\ new.order = nextMemoryOrder
    BY <2>2, Zenon DEF Serviced, NewEvent
  <2>3. CASE backings' = backings /\ new.order # NoOrder /\ new.written = <<>>
    <3>1. ASSUME NEW i \in DOMAIN events', events'[i].order = nextMemoryOrder PROVE events'[i].written = <<>>
      <4>1. nextMemoryOrder # NoOrder
        BY <1>2 DEF NoOrder
      <4>2. i = m
        BY <1>1, <2>2, <2>3, <3>1, <4>1, Zenon DEF OrdersIn
      <4> QED BY <1>1, <2>3, <4>2, Zenon
    <3>2. ASSUME NEW b \in DOMAIN backings, NEW o \in DOMAIN backings[b]
          PROVE  Leaves(events', backings[b][o], <<b, o>>, nextMemoryOrder + 1)
      BY <1>1, <1>2, <1>3, <3>1, LeavesSkipped, Zenon
    <3> QED BY <2>2, <2>3, <3>2, Zenon DEF MemoryIn
  <2>4. CASE /\ backings' = WriteCells(backings, new.cells, new.written)
             /\ new.order = nextMemoryOrder /\ new.written # <<>> /\ DOMAIN new.cells = 1..size
    <3>1. new.order # NoOrder
      BY <1>2, <2>4 DEF NoOrder
    <3>2. ASSUME NEW b \in DOMAIN backings, NEW o \in DOMAIN backings[b]
          PROVE  Leaves(events', WriteCells(backings, new.cells, new.written)[b][o], <<b, o>>, nextMemoryOrder + 1)
      <4>1. /\ events'[m].order = nextMemoryOrder /\ DOMAIN events'[m].cells = 1..size
            /\ events'[m].written # <<>>
        BY <1>1, <2>4, Zenon
      <4>2. Leaves(events', WriteCells(backings, events'[m].cells, events'[m].written)[b][o], <<b, o>>,
                   nextMemoryOrder + 1)
        BY <1>1, <1>2, <1>3, <4>1, WrittenLeaves, Zenon
      <4> QED BY <1>1, <4>2, Zenon
    <3>3. DOMAIN backings' = DOMAIN backings /\ \A b \in DOMAIN backings : DOMAIN backings'[b] = DOMAIN backings[b]
      <4>1. PICK C : C = WriteCells(backings, new.cells, new.written)
        BY Zenon
      <4>2. DOMAIN C = DOMAIN backings /\ \A b \in DOMAIN backings : DOMAIN C[b] = DOMAIN backings[b]
        BY ONLY <4>1, ShapeKept
      <4> QED BY <2>4, <4>1, <4>2, Zenon
    <3> QED BY <2>2, <2>4, <3>1, <3>2, <3>3, Zenon DEF MemoryIn
  <2> QED BY <2>1, <2>3, <2>4, Zenon DEF Serviced
<1> QED BY <1>4, <1>5, Zenon

\* Servicing an effect: a store that is staged has its event, and every other effect happens.
LEMMA EffectSInv ==
  ASSUME IInv, SInv, Effect
  PROVE  SInv'
<1>1. PICK new : new = Event(Pending, ExecuteEffect(Pending))
  BY Zenon
<1>2. Serviced(new, Pending.size)
  BY <1>1, EffectServiced, Zenon
<1>3. /\ frame.running /\ ~frame.failed /\ frame.sequence < Len(frame.effects)
      /\ Pending.kind # "exception" /\ nextInstruction' = nextInstruction /\ space' = space
      /\ active' = [active EXCEPT !.nextSequence = @ + 1, !.failed = ~ExecuteEffect(Pending).ok,
                                  !.stores = ExecuteEffect(Pending).stores]
      /\ effectOrders' = effectOrders \/ effectOrders' = Inserted([s \in {frame.sequence} |-> nextMemoryOrder])
  BY Zenon DEF Effect, Service
<1>4. Typed /\ InStep
  BY <1>3, Zenon DEF IInv
<1>5. active.nextSequence = frame.sequence /\ frame.sequence \in Nat /\ active \in Actives
  BY <1>3, <1>4 DEF InStep, Typed, FrameTyped
<1>6. active'.nextSequence = frame.sequence + 1 /\ active'.stores = ExecuteEffect(Pending).stores
  BY <1>3, <1>5 DEF Actives
<1>7. MemoryTyped' /\ \A cell : IsCell(cell) => IsCell(cell)'
  <2>0. MemoryTyped /\ Backings(backings)
    BY Zenon DEF SInv, MemoryTyped
  <2>1. CASE backings' = backings
    BY <1>3, <2>0, <2>1, Zenon DEF MemoryTyped, IsCell
  <2>2. CASE backings' = WriteCells(backings, new.cells, new.written)
    <3>1. /\ Backings(backings') /\ Len(backings') = Len(backings)
          /\ \A b \in 1..Len(backings) : Len(backings'[b]) = Len(backings[b])
      <4>1. PICK C : C = backings'
        BY Zenon
      <4>2. C = WriteCells(backings, new.cells, new.written)
        BY <2>2, <4>1, Zenon
      <4>3. /\ Backings(C) /\ Len(C) = Len(backings)
            /\ \A b \in 1..Len(backings) : Len(C[b]) = Len(backings[b])
        BY ONLY <2>0, <4>2, BackingsKept
      <4> QED BY <4>1, <4>3, Zenon
    <3> QED BY <1>3, <2>0, <3>1, ShapeTyped, Zenon
  <2> QED BY <1>2, <2>1, <2>2, Zenon DEF Serviced
<1>8. Advances
  BY <1>3, <1>5, <1>6, <1>7, Zenon DEF Advances
<1>9. PICK m : m = Len(events) + 1
  BY Zenon
<1>10. /\ m \in DOMAIN events' /\ events'[m] = new
       /\ \A i \in DOMAIN events : i \in DOMAIN events' /\ events'[i] = events[i]
       /\ \A i \in DOMAIN events' : i \in DOMAIN events \/ i = m
       /\ EventsTyped' /\ nextMemoryOrder' \in Nat
       /\ \A i \in DOMAIN events' : EventKnown(events[i])'
       /\ OrdersIn(events') /\ EventsApart'
  BY <1>2, <1>8, <1>9, RecordedEvent, Zenon DEF Serviced
<1>11. Pending.kind \in Kinds /\ (Pending.kind = "write" => Pending.size = Len(Pending.bytes))
  BY <1>3, PendingEffect
<1>12. PICK order : order = IF frame.sequence \in DOMAIN effectOrders' THEN effectOrders'[frame.sequence] ELSE NoOrder
  BY Zenon
<1>13. Records(new, Pending, ExecuteEffect(Pending), order)
  BY <1>1, <1>3, <1>11, <1>12, EventRecords
<1>14. ReadsIn(events') /\ MemoryIn(events', backings', nextMemoryOrder')
  <2>1. CASE Pending.size \in Nat
    BY <1>2, <1>8, <2>1, ServicedMemory, Zenon
  <2>2. CASE Pending.size \notin Nat
    <3>1. Pending.kind = "fence"
      <4>1. /\ frame.effects \in Instructions /\ frame.sequence + 1 \in 1..Len(frame.effects)
            /\ Pending = frame.effects[frame.sequence + 1]
        BY <1>3, PendingEffect DEF IInv, InStep
      <4> QED BY <1>3, <2>2, <4>1, InstructionsAssumption
    <3>2. ExecuteEffect(Pending).written = <<>>
      BY <3>1, SMTT(40) DEF ExecuteEffect, Done, Failed
    <3>3. new.written = <<>>
      BY <1>13, <3>1, <3>2, Zenon DEF Records
    <3>4. Serviced(new, 0)
      BY <1>2, <3>3, Zenon DEF Serviced
    <3> QED BY <1>8, <3>4, ServicedMemory
  <2> QED BY <2>1, <2>2, Zenon
<1>15. frame.sequence \notin DOMAIN effectOrders
  BY <1>3, <1>5, NoOrderYet, Zenon
<1>16. Id' = Id
  BY <1>3, Zenon DEF Id
<1>17. OrdersAgree'
  <2>1. /\ \A s \in DOMAIN effectOrders' : s \in DOMAIN effectOrders \/ s = frame.sequence
        /\ \A s \in DOMAIN effectOrders : s \in DOMAIN effectOrders' /\ effectOrders'[s] = effectOrders[s]
    BY <1>3, <1>15 DEF Inserted
  <2>2. \A s \in DOMAIN effectOrders : s \in Nat /\ s < frame.sequence
    BY <1>3, <1>5, Zenon DEF SInv, OrdersAgree
  <2>3. \A s \in DOMAIN effectOrders' : s \in Nat /\ s < frame.sequence + 1
    BY <1>5, <2>1, <2>2
  <2>4. \A i \in DOMAIN events :
          events[i].instruction = Id /\ events[i].sequence \in DOMAIN effectOrders =>
            events[i].order = effectOrders[events[i].sequence]
    BY <1>3, Zenon DEF SInv, OrdersAgree
  <2>5. ASSUME NEW i \in DOMAIN events', events'[i].instruction = Id,
               events'[i].sequence \in DOMAIN effectOrders'
        PROVE  events'[i].order = effectOrders'[events'[i].sequence]
    <3>1. CASE i = m
      BY <1>10, <1>12, <1>13, <2>5, <3>1, Zenon DEF Records
    <3>2. CASE i \in DOMAIN events
      <4>1. events'[i] = events[i]
        BY <1>10, <3>2, Zenon
      <4>2. events[i].sequence # frame.sequence
        <5>1. events[i].sequence < active.nextSequence
          BY <1>3, <2>5, <3>2, <4>1, Zenon DEF SInv, EventsApart
        <5> QED BY <1>5, <5>1
      <4> QED BY <2>1, <2>4, <2>5, <3>2, <4>1, <4>2, Zenon
    <3> QED BY <1>10, <3>1, <3>2, Zenon
  <2> QED BY <1>6, <1>16, <2>3, <2>5, Zenon DEF OrdersAgree
<1>18. StoresRecorded'
  <2>1. ExecuteEffect(Pending).stores =
          IF Pending.kind = "write" /\ ExecuteEffect(Pending).ok
          THEN Append(active.stores, [sequence |-> active.nextSequence, address |-> Pending.address,
                                      bytes |-> Pending.bytes])
          ELSE active.stores
    BY <1>11, EffectStores, Zenon
  <2>2. PICK store : store = [sequence |-> frame.sequence, address |-> Pending.address,
                              bytes |-> Pending.bytes]
    BY Zenon
  <2>3. store.sequence = frame.sequence /\ store.address = Pending.address /\ store.bytes = Pending.bytes
    BY <2>2, Zenon
  <2>4. PICK n \in Nat : DOMAIN active.stores = 1..n /\ n = Len(active.stores)
    BY <1>5 DEF Actives
  <2>5. /\ \A i \in 1..n : active.stores[i].sequence \in Nat /\ active.stores[i].sequence < frame.sequence
        /\ \A i \in 1..n : \E j \in DOMAIN events : EventOf(j, active.stores[i])
        /\ \A i, j \in 1..n : active.stores[i].sequence = active.stores[j].sequence => i = j
    <3>1. \A i \in 1..n : active.stores[i].sequence \in Nat
      <4>1. \A i \in 1..n : active.stores[i] \in Stores
        BY <1>5, <2>4, SMTT(40) DEF Actives
      <4> QED BY <4>1, Zenon DEF Stores
    <3> QED BY <1>3, <1>5, <2>4, <3>1, Zenon DEF SInv, StoresRecorded
  <2>6. \A i \in 1..n : active.stores[i].sequence < frame.sequence + 1 /\ active.stores[i].sequence # frame.sequence
    BY <1>5, <2>5
  <2>8. CASE active'.stores = active.stores
    <3>1. \A i \in 1..n : \E j \in DOMAIN events' : EventOf(j, active.stores[i])'
      <4> TAKE i \in 1..n
      <4>1. PICK j \in DOMAIN events : EventOf(j, active.stores[i])
        BY <2>5, Zenon
      <4>2. j \in DOMAIN events' /\ EventOf(j, active.stores[i])'
        BY <1>3, <1>10, <1>16, <2>8, <4>1, Zenon DEF EventOf
      <4> QED BY <4>2, Zenon
    <3> QED BY <1>6, <2>4, <2>5, <2>6, <2>8, <3>1, Zenon DEF StoresRecorded
  <2>9. CASE Pending.kind = "write" /\ ExecuteEffect(Pending).ok
    <3>1. active'.stores = Append(active.stores, store)
      BY <1>5, <1>6, <2>1, <2>2, <2>9, Zenon
    <3>2. /\ DOMAIN active'.stores = 1..(n + 1)
          /\ \A i \in 1..n : active'.stores[i] = active.stores[i]
          /\ active'.stores[n + 1] = store
      <4>1. active.stores \in Seq(Stores)
        BY <1>5 DEF Actives
      <4>2. active.stores \in Seq(Stores \cup {store})
        BY <4>1
      <4> QED BY <2>4, <3>1, <4>2
    <3>3. EventOf(m, store)'
      <4>1. new.instruction = Id /\ new.sequence = frame.sequence /\ new.written = Pending.bytes
        BY <1>13, <2>9, Zenon DEF Records
      <4>2. new.cells = Cells(space, Pending.address, Len(Pending.bytes))
        BY <1>11, <1>13, <2>9, Zenon DEF Records
      <4>3. new.order = NoOrder
        <5>1. effectOrders' = effectOrders
          BY <2>9 DEF Effect, Service, LinearizesImmediately
        <5> QED BY <1>12, <1>13, <1>15, <5>1, Zenon DEF Records
      <4> QED BY <1>3, <1>10, <1>16, <2>3, <4>1, <4>2, <4>3, Zenon DEF EventOf
    <3>4. \A i \in 1..(n + 1) : i \in 1..n \/ i = n + 1
      OBVIOUS
    <3>5. frame.sequence < frame.sequence + 1
      BY <1>5
    <3>6. ASSUME NEW i \in 1..(n + 1)
          PROVE  /\ active'.stores[i].sequence < frame.sequence + 1
                 /\ \E j \in DOMAIN events' : EventOf(j, active.stores[i])'
      <4>1. CASE i \in 1..n
        <5>1. active'.stores[i] = active.stores[i]
          BY <3>2, <4>1, Zenon
        <5>2. PICK j \in DOMAIN events : EventOf(j, active.stores[i])
          BY <2>5, <4>1, Zenon
        <5>3. j \in DOMAIN events' /\ EventOf(j, active.stores[i])'
          BY <1>3, <1>10, <1>16, <5>1, <5>2, Zenon DEF EventOf
        <5> QED BY <2>6, <4>1, <5>1, <5>3, Zenon
      <4>2. CASE i = n + 1
        <5>1. active'.stores[i] = store
          BY <3>2, <4>2, Zenon
        <5>2. EventOf(m, active.stores[i])'
          BY <3>3, <5>1, Zenon DEF EventOf
        <5> QED BY <1>10, <2>3, <3>5, <5>1, <5>2, Zenon
      <4> QED BY <3>4, <4>1, <4>2, Zenon
    <3>7. ASSUME NEW i \in 1..(n + 1), NEW j \in 1..(n + 1),
                 active'.stores[i].sequence = active'.stores[j].sequence
          PROVE  i = j
      BY <2>3, <2>5, <2>6, <3>2, <3>4, <3>7, Zenon
    <3> QED BY <1>6, <3>2, <3>6, <3>7, Zenon DEF StoresRecorded
  <2> QED BY <1>6, <2>1, <2>8, <2>9, Zenon
<1> QED BY <1>7, <1>10, <1>14, <1>17, <1>18, Zenon DEF SInv

\* What is left after each of the stores, up to the m-th.
Publishing(f, stores, m) ==
  f = [n \in 0..m |-> IF n = 0 THEN backings ELSE Publish(f[n - 1], stores[n])]

\* Publishing the stores goes through memory after each of them.
LEMMA PublishedLast ==
  ASSUME NEW stores, NEW N \in Nat, N = Len(stores)
  PROVE  \E f : Publishing(f, stores, N) /\ Published(stores) = f[N]
<1> DEFINE S == {m \in 0..N : \E f : Publishing(f, stores, m)}
<1>1. 0 \in S
  <2>1. 0 \in 0..N
    OBVIOUS
  <2>2. PICK f : f = [n \in 0..0 |-> backings]
    BY Zenon
  <2>3. f = [n \in 0..0 |-> IF n = 0 THEN backings ELSE Publish(f[n - 1], stores[n])]
    BY <2>2
  <2> QED BY <2>1, <2>3, Zenon DEF Publishing
<1>2. ASSUME NEW m \in 1..N, m - 1 \in S PROVE m \in S
  <2>1. PICK f : Publishing(f, stores, m - 1)
    BY <1>2, Zenon
  <2>2. PICK g : g = [n \in 0..m |-> IF n = m THEN Publish(f[m - 1], stores[m]) ELSE f[n]]
    BY Zenon
  <2>3. ASSUME NEW n \in 0..m
        PROVE  g[n] = IF n = 0 THEN backings ELSE Publish(g[n - 1], stores[n])
    <3>1. CASE n = m
      <4>1. g[n] = Publish(f[m - 1], stores[m]) /\ g[m - 1] = f[m - 1] /\ n # 0
        BY <2>2, <3>1
      <4> QED BY <3>1, <4>1, Zenon
    <3>2. CASE n # m
      <4>1. n \in 0..(m - 1) /\ g[n] = f[n]
        BY <2>2, <3>2
      <4>2. f[n] = IF n = 0 THEN backings ELSE Publish(f[n - 1], stores[n])
        BY <2>1, <4>1, Zenon DEF Publishing
      <4>3. n # 0 => g[n - 1] = f[n - 1]
        BY <2>2, <3>2
      <4> QED BY <4>1, <4>2, <4>3, Zenon
    <3> QED BY <3>1, <3>2, Zenon
  <2>4. g = [n \in 0..m |-> g[n]]
    BY <2>2, Zenon
  <2>5. Publishing(g, stores, m)
    BY <2>3, <2>4, Zenon DEF Publishing
  <2>6. m \in 0..N
    OBVIOUS
  <2> QED BY <2>5, <2>6, Zenon
<1>3. N \in S
  <2>1. N \in 0..N
    OBVIOUS
  <2> HIDE DEF S
  <2> QED BY <1>1, <1>2, <2>1, Induction, Zenon
<1>4. PICK f : Publishing(f, stores, N)
  BY <1>3, Zenon
<1> DEFINE after[n \in 0..Len(stores)] == IF n = 0 THEN backings ELSE Publish(after[n - 1], stores[n])
<1>5. f = [n \in 0..Len(stores) |-> IF n = 0 THEN backings ELSE Publish(f[n - 1], stores[n])]
  BY <1>4, Zenon DEF Publishing
<1>6. after = [n \in 0..Len(stores) |-> IF n = 0 THEN backings ELSE Publish(after[n - 1], stores[n])]
  BY <1>5, Zenon DEF after
<1>7. Published(stores) = after[N]
  BY Zenon DEF Published
<1>8. Publishing(after, stores, N)
  <2> HIDE DEF after
  <2> QED BY <1>6, Zenon DEF Publishing
<1> QED BY <1>7, <1>8, Zenon

\* Event i of a log is of a store that took an order.
EventAt(log, i, store, order) ==
  /\ i \in DOMAIN log /\ log[i].order = order /\ log[i].written = store.bytes
  /\ log[i].cells = Cells(space, store.address, Len(store.bytes))

\* B has the shape of memory, and is what the writes of a log below `bound` leave.
Left(log, B, bound) ==
  /\ Backings(B) /\ Len(B) = Len(backings)
  /\ \A b \in 1..Len(backings) : Len(B[b]) = Len(backings[b])
  /\ MemoryIn(log, B, bound)

\* Publishing a store whose event has the next order leaves what the writes up to it leave.
LEMMA StorePublished ==
  ASSUME NEW log, OrdersIn(log), NEW B, NEW n \in Nat, Left(log, B, n), NEW store, NEW i,
         store.bytes \in Seq(Nat), EventAt(log, i, store, n)
  PROVE  Left(log, Publish(B, store), n + 1)
<1>1. PICK C : C = WriteCells(B, log[i].cells, log[i].written)
  BY Zenon
<1>2. Publish(B, store) = C
  BY <1>1, Zenon DEF Publish, EventAt
<1>3. PICK size \in Nat : size = Len(store.bytes)
  OBVIOUS
<1>4. DOMAIN log[i].cells = 1..size
  BY <1>3 DEF EventAt, Cells
<1>5. log[i].written # <<>> \/ size = 0
  BY <1>3 DEF EventAt
<1>6. /\ Backings(C) /\ Len(C) = Len(B) /\ DOMAIN C = 1..Len(B)
      /\ \A b \in 1..Len(B) : Len(C[b]) = Len(B[b]) /\ DOMAIN C[b] = 1..Len(B[b])
  <2>1. Backings(B)
    BY Zenon DEF Left
  <2> QED BY ONLY <1>1, <2>1, BackingsKept
<1>7. DOMAIN B = 1..Len(B) /\ \A b \in 1..Len(B) : DOMAIN B[b] = 1..Len(B[b])
  BY DEF Left, Backings
<1>8. ASSUME NEW b \in DOMAIN C, NEW o \in DOMAIN C[b]
      PROVE  Leaves(log, C[b][o], <<b, o>>, n + 1)
  <2>1. b \in DOMAIN B /\ o \in DOMAIN B[b]
    BY <1>6, <1>7, Zenon
  <2>2. Leaves(log, B[b][o], <<b, o>>, n)
    BY <2>1, Zenon DEF Left, MemoryIn
  <2>3. i \in DOMAIN log /\ log[i].order = n
    BY Zenon DEF EventAt
  <2> QED BY <1>1, <1>4, <1>5, <2>1, <2>2, <2>3, WrittenLeaves, Zenon
<1> QED BY <1>2, <1>6, <1>8, Zenon DEF Left, MemoryIn

\* Stores that are published in the order of their events leave what the writes leave.
LEMMA StoresPublished ==
  ASSUME NEW log, OrdersIn(log), NEW stores, NEW N \in Nat, N = Len(stores),
         NEW base \in Nat, Left(log, backings, base),
         \A n \in 1..N : stores[n].bytes \in Seq(Nat),
         \A n \in 1..N : \E i : EventAt(log, i, stores[n], base + n - 1)
  PROVE  Left(log, Published(stores), base + N)
<1>1. PICK f : Publishing(f, stores, N) /\ Published(stores) = f[N]
  BY PublishedLast, Zenon
<1>2. \A n \in 0..N : f[n] = IF n = 0 THEN backings ELSE Publish(f[n - 1], stores[n])
  BY <1>1, Zenon DEF Publishing
<1> DEFINE S == {n \in 0..N : Left(log, f[n], base + n)}
<1>3. 0 \in S
  <2>1. 0 \in 0..N /\ base + 0 = base
    OBVIOUS
  <2>2. f[0] = backings
    BY <1>2, <2>1, Zenon
  <2> QED BY <2>1, <2>2, Zenon
<1>4. ASSUME NEW n \in 1..N, n - 1 \in S PROVE n \in S
  <2>1. n \in 0..N /\ n # 0 /\ base + (n - 1) \in Nat /\ base + n = (base + (n - 1)) + 1
        /\ base + n - 1 = base + (n - 1)
    OBVIOUS
  <2>2. f[n] = Publish(f[n - 1], stores[n])
    BY <1>2, <2>1, Zenon
  <2>3. Left(log, f[n - 1], base + (n - 1))
    BY <1>4, Zenon
  <2>4. PICK i : EventAt(log, i, stores[n], base + n - 1)
    BY Zenon
  <2>5. EventAt(log, i, stores[n], base + (n - 1))
    BY <2>1, <2>4, Zenon
  <2>6. Left(log, Publish(f[n - 1], stores[n]), (base + (n - 1)) + 1)
    BY <2>1, <2>3, <2>5, StorePublished, Zenon
  <2> QED BY <2>1, <2>2, <2>6, Zenon
<1>5. N \in S
  <2>1. N \in 0..N
    OBVIOUS
  <2> HIDE DEF S
  <2> QED BY <1>3, <1>4, <2>1, Induction, Zenon
<1> QED BY <1>1, <1>5, Zenon

\* The orders a commit gives: the staged stores take the next ones, in turn.
LEMMA CommitOrders ==
  ASSUME IInv, SInv, Commit, NEW N \in Nat, N = Len(active.stores), DOMAIN active.stores = 1..N
  PROVE  /\ \A n \in 1..N : /\ active.stores[n].sequence \in DOMAIN effectOrders'
                            /\ effectOrders'[active.stores[n].sequence] = nextMemoryOrder + n - 1
         /\ \A s \in DOMAIN effectOrders' :
              \/ \E n \in 1..N : s = active.stores[n].sequence
              \/ s \in DOMAIN effectOrders /\ effectOrders'[s] = effectOrders[s]
<1>1. PICK order : order = [n \in 1..N |-> nextMemoryOrder + n - 1]
  BY Zenon
<1>2. PICK given : given = [s \in {active.stores[n].sequence : n \in 1..N} |->
                              order[CHOOSE n \in 1..N : active.stores[n].sequence = s]]
  BY Zenon
<1>3. effectOrders' = Inserted(given) /\ frame.running
  BY <1>1, <1>2, Zenon DEF Commit, CommitInstruction
<1>4. /\ DOMAIN effectOrders' = DOMAIN effectOrders \cup DOMAIN given
      /\ \A s \in DOMAIN effectOrders' : effectOrders'[s] = IF s \in DOMAIN given THEN given[s] ELSE effectOrders[s]
  BY <1>3, Zenon DEF Inserted
<1>5. DOMAIN given = {active.stores[n].sequence : n \in 1..N}
  BY <1>2, Zenon
<1>6. ASSUME NEW n \in 1..N
      PROVE  active.stores[n].sequence \in DOMAIN given /\ given[active.stores[n].sequence] = nextMemoryOrder + n - 1
  <2>1. PICK m : m = CHOOSE i \in 1..N : active.stores[i].sequence = active.stores[n].sequence
    BY Zenon
  <2>2. m \in 1..N /\ active.stores[m].sequence = active.stores[n].sequence
    BY <2>1, Zenon
  <2>3. m = n
    BY <1>3, <2>2, Zenon DEF SInv, StoresRecorded
  <2>4. order[m] = nextMemoryOrder + n - 1
    BY <1>1, <2>3, Zenon
  <2> QED BY <1>2, <1>5, <2>1, <2>4, Zenon
<1> QED BY <1>4, <1>5, <1>6, Zenon

\* What a commit makes of the events: those of its stores take their order, and nothing else
\* of them changes.
CommitsEvents(N) ==
  /\ EventsTyped' /\ DOMAIN events' = DOMAIN events
  /\ \A i \in DOMAIN events :
       /\ events'[i].instruction = events[i].instruction /\ events'[i].sequence = events[i].sequence
       /\ events'[i].cells = events[i].cells /\ events'[i].written = events[i].written
       /\ events'[i].read = events[i].read /\ events'[i].device = events[i].device
       /\ \/ events'[i].order = events[i].order
          \/ \E n \in 1..N : /\ EventOf(i, active.stores[n])
                             /\ events'[i].order = nextMemoryOrder + n - 1
  /\ \A n \in 1..N : \E i \in DOMAIN events :
       EventOf(i, active.stores[n]) /\ events'[i].order = nextMemoryOrder + n - 1

\* Commit is such.
LEMMA CommitEvents ==
  ASSUME IInv, SInv, Commit, NEW N \in Nat, N = Len(active.stores), DOMAIN active.stores = 1..N
  PROVE  CommitsEvents(N)
<1>1. /\ frame.running /\ EventsTyped /\ DOMAIN events' = DOMAIN events
      /\ \A i \in DOMAIN events : events'[i] = Reordered(events[i])
  BY Zenon DEF Commit, SInv
<1>2. /\ \A n \in 1..N : /\ active.stores[n].sequence \in DOMAIN effectOrders'
                         /\ effectOrders'[active.stores[n].sequence] = nextMemoryOrder + n - 1
      /\ \A s \in DOMAIN effectOrders' :
           \/ \E n \in 1..N : s = active.stores[n].sequence
           \/ s \in DOMAIN effectOrders /\ effectOrders'[s] = effectOrders[s]
  BY CommitOrders
<1>3. ASSUME NEW i \in DOMAIN events
      PROVE  /\ EventTyped(events'[i])
             /\ events'[i].instruction = events[i].instruction /\ events'[i].sequence = events[i].sequence
             /\ events'[i].cells = events[i].cells /\ events'[i].written = events[i].written
             /\ events'[i].read = events[i].read /\ events'[i].device = events[i].device
             /\ events'[i].order =
                  IF events[i].instruction = Id /\ events[i].sequence \in DOMAIN effectOrders'
                  THEN effectOrders'[events[i].sequence] ELSE events[i].order
  <2>1. EventTyped(events[i])
    BY <1>1, Zenon DEF EventsTyped
  <2>2. CASE events[i].instruction = Id /\ events[i].sequence \in DOMAIN effectOrders'
    <3>1. PICK event, order, e : event = events[i] /\ order = effectOrders'[events[i].sequence] /\ e = events'[i]
      BY Zenon
    <3>2. e = [event EXCEPT !.order = order]
      BY <1>1, <2>2, <3>1, Zenon DEF Reordered
    <3>3. /\ EventTyped(e) /\ e.instruction = event.instruction /\ e.sequence = event.sequence
          /\ e.cells = event.cells /\ e.written = event.written
          /\ e.read = event.read /\ e.device = event.device /\ e.order = order
      <4>1. EventTyped(event)
        BY <2>1, <3>1, Zenon
      <4> QED BY ONLY <3>2, <4>1, OrderedEvent
    <3> QED BY <2>2, <3>1, <3>3, Zenon
  <2>3. CASE ~(events[i].instruction = Id /\ events[i].sequence \in DOMAIN effectOrders')
    <3>1. events'[i] = events[i]
      BY <1>1, <2>3, Zenon DEF Reordered
    <3> QED BY <2>1, <2>3, <3>1, Zenon
  <2> QED BY <2>2, <2>3, Zenon
<1>4. EventsTyped'
  <2>1. PICK n \in Nat : DOMAIN events' = 1..n
    BY <1>1 DEF EventsTyped
  <2>2. PICK e : e = events'
    BY Zenon
  <2>3. e = [i \in 1..n |-> e[i]]
    BY <1>1, <2>1, <2>2, Zenon DEF Commit
  <2>4. e \in Seq(Range(e))
    BY <2>3, IsSequence
  <2> QED BY <1>1, <1>3, <2>2, <2>4, Zenon DEF EventsTyped
<1>5. ASSUME NEW n \in 1..N
      PROVE  \E i \in DOMAIN events : EventOf(i, active.stores[n]) /\ events'[i].order = nextMemoryOrder + n - 1
  <2>1. PICK i \in DOMAIN events : EventOf(i, active.stores[n])
    BY <1>1, Zenon DEF SInv, StoresRecorded
  <2>2. events'[i].order = effectOrders'[active.stores[n].sequence]
    BY <1>2, <1>3, <2>1, ZenonT(40) DEF EventOf
  <2> QED BY <1>2, <2>1, <2>2, Zenon
<1>6. ASSUME NEW i \in DOMAIN events, events'[i].order # events[i].order
      PROVE  \E n \in 1..N : EventOf(i, active.stores[n]) /\ events'[i].order = nextMemoryOrder + n - 1
  <2>1. /\ events[i].instruction = Id /\ events[i].sequence \in DOMAIN effectOrders'
        /\ events'[i].order = effectOrders'[events[i].sequence]
    BY <1>3, <1>6, Zenon
  <2>2. CASE events[i].sequence \in DOMAIN effectOrders /\ effectOrders'[events[i].sequence] = effectOrders[events[i].sequence]
    BY <1>1, <1>6, <2>1, <2>2, Zenon DEF SInv, OrdersAgree
  <2>3. CASE \E n \in 1..N : events[i].sequence = active.stores[n].sequence
    <3>1. PICK n \in 1..N : events[i].sequence = active.stores[n].sequence
      BY <2>3, Zenon
    <3>2. PICK j \in DOMAIN events : EventOf(j, active.stores[n])
      BY <1>1, Zenon DEF SInv, StoresRecorded
    <3>3. i = j
      BY <2>1, <3>1, <3>2, Zenon DEF SInv, EventsApart, EventOf
    <3> QED BY <1>2, <2>1, <3>1, <3>2, <3>3, Zenon
  <2> QED BY <1>2, <2>1, <2>2, <2>3, Zenon
<1> QED BY <1>1, <1>3, <1>4, <1>5, <1>6, Zenon DEF CommitsEvents

\* A commit: memory is what the writes leave, those of the stores it publishes included.
LEMMA CommitSInv ==
  ASSUME IInv, SInv, Commit
  PROVE  SInv'
<1>1. PICK N \in Nat : N = Len(active.stores) /\ DOMAIN active.stores = 1..N
  BY DEF IInv, Typed, Actives
<1>2. CommitsEvents(N)
  BY <1>1, CommitEvents, Zenon
<1>3. /\ backings' = Published(active.stores) /\ nextMemoryOrder' = nextMemoryOrder + Len(active.stores)
      /\ space' = space /\ nextInstruction' = nextInstruction /\ frame' = NoFrame
  BY Zenon DEF Commit, CommitInstruction
<1>4. /\ nextMemoryOrder \in Nat /\ nextMemoryOrder' = nextMemoryOrder + N /\ nextMemoryOrder' \in Nat
  BY <1>1, <1>3 DEF SInv
<1>5. ASSUME NEW i \in DOMAIN events
      PROVE  /\ events[i].order \in Int /\ events'[i].order \in Int
             /\ \/ events'[i].order = events[i].order /\ (events[i].order = NoOrder \/ events[i].order < nextMemoryOrder)
                \/ /\ events[i].order = NoOrder /\ events'[i].order \in Nat
                   /\ nextMemoryOrder <= events'[i].order /\ events'[i].order < nextMemoryOrder'
                   /\ \E n \in 1..N : EventOf(i, active.stores[n]) /\ events'[i].order = nextMemoryOrder + n - 1
  <2>1. EventKnown(events[i]) /\ events[i].order \in Int
    BY Zenon DEF SInv, OrdersIn
  <2>2. CASE events'[i].order = events[i].order
    BY <2>1, <2>2, Zenon DEF EventKnown
  <2>3. CASE \E n \in 1..N : EventOf(i, active.stores[n]) /\ events'[i].order = nextMemoryOrder + n - 1
    <3>1. PICK n \in 1..N : EventOf(i, active.stores[n]) /\ events'[i].order = nextMemoryOrder + n - 1
      BY <2>3, Zenon
    <3>2. events[i].order = NoOrder
      BY <3>1, Zenon DEF EventOf
    <3>3. /\ events'[i].order \in Nat /\ events'[i].order \in Int
          /\ nextMemoryOrder <= events'[i].order /\ events'[i].order < nextMemoryOrder'
      BY <1>4, <3>1
    <3> QED BY <2>1, <2>3, <3>2, <3>3, Zenon
  <2> QED BY <1>2, <2>2, <2>3, Zenon DEF CommitsEvents
<1>6. OrdersIn(events')
  <2> SUFFICES ASSUME NEW i \in DOMAIN events, NEW j \in DOMAIN events,
                      events'[i].order = events'[j].order, events'[i].order # NoOrder
               PROVE  i = j
    BY <1>2, <1>5, Zenon DEF OrdersIn, CommitsEvents
  <2>1. CASE events'[i].order = events[i].order /\ events'[j].order = events[j].order
    BY <2>1, Zenon DEF SInv, OrdersIn
  <2>2. CASE events'[i].order # events[i].order /\ events'[j].order # events[j].order
    <3>1. PICK n \in 1..N : EventOf(i, active.stores[n]) /\ events'[i].order = nextMemoryOrder + n - 1
      BY <1>5, <2>2, Zenon
    <3>2. PICK m \in 1..N : EventOf(j, active.stores[m]) /\ events'[j].order = nextMemoryOrder + m - 1
      BY <1>5, <2>2, Zenon
    <3>3. n = m
      <4>1. nextMemoryOrder + n - 1 = nextMemoryOrder + m - 1
        BY <3>1, <3>2, Zenon
      <4> QED BY ONLY <1>4, <4>1, n \in 1..N, m \in 1..N, N \in Nat
    <3> QED BY <3>1, <3>2, <3>3, Zenon DEF EventOf, SInv, EventsApart
  <2>3. CASE events'[i].order # events[i].order /\ events'[j].order = events[j].order
    <3>1. events'[j].order < nextMemoryOrder /\ nextMemoryOrder <= events'[i].order
      BY <1>5, <2>3, Zenon
    <3>2. events'[i].order \in Int /\ events'[j].order \in Int
      BY <1>5, Zenon
    <3> QED BY <1>4, <3>1, <3>2
  <2>4. CASE events'[i].order = events[i].order /\ events'[j].order # events[j].order
    <3>1. events'[i].order < nextMemoryOrder /\ nextMemoryOrder <= events'[j].order
      BY <1>5, <2>4, Zenon
    <3>2. events'[i].order \in Int /\ events'[j].order \in Int
      BY <1>5, Zenon
    <3> QED BY <1>4, <3>1, <3>2
  <2> QED BY <2>1, <2>2, <2>3, <2>4, Zenon
<1>7. Continues(events, events', nextMemoryOrder)
  <2>1. ASSUME NEW i \in DOMAIN events, events'[i].order < nextMemoryOrder
        PROVE  events'[i].order = events[i].order
    BY <1>4, <1>5, <2>1
  <2> QED BY <1>2, <1>5, <2>1, Zenon DEF Continues, CommitsEvents
<1>8. Left(events', backings', nextMemoryOrder')
  <2>1. Left(events', backings, nextMemoryOrder)
    <3>1. nextMemoryOrder \in Int /\ nextMemoryOrder <= nextMemoryOrder
      BY <1>4
    <3>2. ASSUME NEW b \in DOMAIN backings, NEW o \in DOMAIN backings[b]
          PROVE  Leaves(events', backings[b][o], <<b, o>>, nextMemoryOrder)
      <4>1. Leaves(events, backings[b][o], <<b, o>>, nextMemoryOrder)
        BY Zenon DEF SInv, MemoryIn
      <4> QED BY <1>6, <1>7, <3>1, <4>1, LeavesContinues, Zenon
    <3> QED BY <3>2, Zenon DEF Left, MemoryIn, SInv, MemoryTyped
  <2>2. \A n \in 1..N : active.stores[n].bytes \in Seq(Nat)
    <3>1. \A n \in 1..N : active.stores[n] \in Stores
      BY <1>1 DEF IInv, Typed, Actives
    <3> QED BY <3>1, Zenon DEF Stores
  <2>3. \A n \in 1..N : \E i : EventAt(events', i, active.stores[n], nextMemoryOrder + n - 1)
    <3> TAKE n \in 1..N
    <3>1. PICK i \in DOMAIN events : EventOf(i, active.stores[n]) /\ events'[i].order = nextMemoryOrder + n - 1
      BY <1>2, Zenon DEF CommitsEvents
    <3>2. EventAt(events', i, active.stores[n], nextMemoryOrder + n - 1)
      BY <1>2, <3>1, Zenon DEF CommitsEvents, EventAt, EventOf
    <3> QED BY <3>2, Zenon
  <2> QED BY <1>1, <1>3, <1>4, <1>6, <2>1, <2>2, <2>3, StoresPublished, Zenon
<1>9. MemoryTyped' /\ \A cell : IsCell(cell) => IsCell(cell)'
  <2>1. MemoryTyped
    BY Zenon DEF SInv
  <2> QED BY <1>3, <1>8, <2>1, ShapeTyped, Zenon DEF Left
<1>10. ReadsIn(events')
  BY <1>2, <1>6, <1>7, ReadsKept, Zenon DEF ReadsIn, CommitsEvents
<1>11. ASSUME NEW i \in DOMAIN events PROVE EventKnown(events[i])'
  <2>1. EventKnown(events[i])
    BY Zenon DEF SInv
  <2>2. \/ events'[i].order = NoOrder /\ events[i].read = <<>>
        \/ events'[i].order \in Nat /\ events'[i].order < nextMemoryOrder'
    BY <1>4, <1>5, <2>1 DEF EventKnown, NoOrder
  <2> QED BY <1>2, <1>3, <1>9, <2>1, <2>2, Zenon DEF EventKnown, CommitsEvents
<1>12. ~frame'.running
  BY <1>3 DEF NoFrame, Framed
<1>13. EventsApart'
  BY <1>2, <1>12, Zenon DEF SInv, EventsApart, CommitsEvents
<1>14. OrdersAgree' /\ StoresRecorded'
  BY <1>12, Zenon DEF OrdersAgree, StoresRecorded
<1> QED BY <1>2, <1>4, <1>6, <1>8, <1>9, <1>10, <1>11, <1>13, <1>14, Zenon DEF SInv, CommitsEvents, Left

\* Every step keeps the invariant.
LEMMA NextSInv ==
  ASSUME IInv, SInv, [Next]_vars
  PROVE  SInv'
<1>1. CASE Host
  BY <1>1, HostSInv, Zenon
<1>2. ASSUME NEW effects \in Instructions, Start(effects) PROVE SInv'
  BY <1>2, StartSInv, Zenon
<1>3. CASE Effect
  BY <1>3, EffectSInv, Zenon
<1>4. CASE Exception
  BY <1>4, ExceptionSInv, Zenon
<1>5. CASE Fault \/ CommitFault
  BY <1>5, AbortSInv, Zenon
<1>6. CASE Commit
  BY <1>6, CommitSInv, Zenon
<1>7. CASE UNCHANGED vars
  <2>1. UNCHANGED <<space, backings, active, nextMemoryOrder, effectOrders, frame, nextInstruction, events>>
    BY <1>7, Zenon DEF vars, serviceVars
  <2>2. Id' = Id
    BY <2>1, Zenon DEF Id
  <2>4. MemoryTyped' /\ \A cell : IsCell(cell) => IsCell(cell)'
    BY <2>1, Zenon DEF SInv, MemoryTyped, IsCell
  <2>5. \A i \in DOMAIN events' : EventKnown(events[i])'
    BY <2>1, <2>4, Zenon DEF SInv, EventKnown
  <2>6. EventsTyped' /\ EventsApart' /\ OrdersAgree'
    BY <2>1, <2>2, Zenon DEF SInv, EventsTyped, EventsApart, OrdersAgree
  <2>7. StoresRecorded'
    <3>1. ASSUME frame.running, NEW i \in DOMAIN active.stores
          PROVE  \E j \in DOMAIN events : EventOf(j, active.stores[i])'
      BY <2>1, <2>2, <3>1, Zenon DEF SInv, StoresRecorded, EventOf
    <3> QED BY <2>1, <3>1, Zenon DEF SInv, StoresRecorded
  <2> QED BY <2>1, <2>4, <2>5, <2>6, <2>7, Zenon DEF SInv
<1> QED BY <1>1, <1>2, <1>3, <1>4, <1>5, <1>6, <1>7, Zenon DEF Next

\* The serial order of effect_order, over every run: orders are given once, a read of RAM
\* sees the writes ordered before it and no other, and memory is what all of them leave.
THEOREM ExecutorSerialOrder == Spec => []SerialOrder
<1>1. Spec => []SInv
  BY InitSInv, NextSInv, AlwaysIInv, PTL DEF Spec
<1> QED BY <1>1, SerialOrderHolds, PTL
=============================================================================
