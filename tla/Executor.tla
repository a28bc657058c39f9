------------------------------ MODULE Executor ------------------------------
(***************************************************************************)
(* How libs/simcore/src/executor.rs runs one instruction over the memory   *)
(* service: the ranges of an instruction with several accesses are checked *)
(* before it begins, each effect its frame yields is serviced, and the     *)
(* instruction commits, its register writes last, or traps and is aborted. *)
(*                                                                         *)
(* An instruction is the sequence of effects it yields, on the branch its  *)
(* operands choose; the fetch is of code the host leaves mapped, and the   *)
(* terms between two effects evaluate.  The host maps, protects and unmaps *)
(* between instructions, or inside its exception handler.                  *)
(***************************************************************************)
EXTENDS MemoryService

CONSTANTS
  Instructions,        \* the sequences of effects there are to run
  MemorySize,          \* of the RAM an executor is made with, at address 0
  HostRanges,          \* <<start, size>> the host changes the mappings of
  DeviceValue,         \* what a device has to hand out, per byte
  MaxInstructions, MaxGeneration, MaxBackings    \* bounds

Kinds == {"read", "write", "load_reserved", "store_conditional", "atomic_rmw", "fence", "exception"}

ASSUME InstructionsAssumption ==
  \A effects \in Instructions :
    /\ Len(effects) \in Nat /\ DOMAIN effects = 1..Len(effects)
    /\ \A i \in 1..Len(effects) :
         /\ effects[i].kind \in Kinds
         /\ effects[i].kind \notin {"fence", "exception"} =>
              effects[i].address \in Nat /\ effects[i].size \in Nat
         /\ effects[i].kind = "write" =>
              effects[i].bytes \in Seq(Nat) /\ effects[i].size = Len(effects[i].bytes)

ASSUME SizesAssumption == MemorySize \in Nat /\ HostRanges \subseteq Nat \X Nat

VARIABLES
  register,            \* the register the instructions load
  frame,               \* the instruction under way: see Framed
  nextInstruction,
  lastFault,           \* the sequence of the effect that trapped, or NoFault
  events,              \* effect_events, with the cells each access was to
  entry                \* history: what the instruction found, and its handler left

vars == <<serviceVars, register, frame, nextInstruction, lastFault, events, entry>>

NoFault == -1
NoOrder == -1

\* SemanticFrame: `write` is the register write it holds back.
Framed(effects) ==
  [effects |-> effects, sequence |-> 0, write |-> <<>>, failed |-> FALSE, running |-> TRUE]

NoFrame == [Framed(<<>>) EXCEPT !.running = FALSE]

\* Executor::new_at
Init ==
  /\ space = Mapped(EmptySpace, 0, MemorySize, 1, 0, ReadWrite)
  /\ backings = <<Zeros(MemorySize)>>
  /\ InitService
  /\ register = <<>>
  /\ frame = NoFrame
  /\ nextInstruction = 1
  /\ lastFault = NoFault
  /\ events = <<>>
  /\ entry = <<>>

------------------------------------------------------------------------------
\* The host's changes.  Each gives the next value of space, backings and devices.

\* create_backing and map.
HostMap(start, size, permissions) ==
  LET grown == Append(backings, Zeros(size))
  IN  /\ Len(backings) < MaxBackings
      /\ MayMap(space, grown, start, size, Len(grown), 0)
      /\ space' = Mapped(space, start, size, Len(grown), 0, permissions)
      /\ backings' = grown
      /\ devices' = devices

\* map of a backing that is there.
HostAlias(start, size, backing) ==
  /\ MayMap(space, backings, start, size, backing, 0)
  /\ space' = Mapped(space, start, size, backing, 0, ReadWrite)
  /\ UNCHANGED <<backings, devices>>

HostProtect(start, size, permissions) ==
  /\ MayReplace(space, start, size)
  /\ space' = ReplaceRange(space, start, size, TRUE, permissions)
  /\ UNCHANGED <<backings, devices>>

\* MemoryService::unmap, which prunes the devices, or Memory::unmap, which does not.
HostUnmap(start, size, prunes) ==
  /\ MayReplace(space, start, size)
  /\ space' = ReplaceRange(space, start, size, FALSE, {})
  /\ devices' = IF prunes THEN {d \in devices : \E m \in space'.mappings : m.backing = d.backing}
                ELSE devices
  /\ UNCHANGED backings

\* map_read_to_clear: the backing is made before the mapping is refused.
MapReadToClear(start, size) ==
  LET grown == Append(backings, Zeros(size))
      may == MayMap(space, grown, start, size, Len(grown), 0)
      device == [backing |-> Len(grown), value |-> [i \in 1..size |-> DeviceValue]]
  IN  /\ Len(backings) < MaxBackings
      /\ space' = IF may THEN Mapped(space, start, size, Len(grown), 0, ReadWrite) ELSE space
      /\ backings' = grown
      /\ devices' = Pruned \cup IF may THEN {device} ELSE {}

HostChange ==
  /\ space.generation < MaxGeneration
  /\ \E range \in HostRanges :
       \/ HostMap(range[1], range[2], ReadWrite)
       \/ \E b \in DOMAIN backings : HostAlias(range[1], range[2], b)
       \/ HostProtect(range[1], range[2], Read)
       \/ \E prunes \in BOOLEAN : HostUnmap(range[1], range[2], prunes)
       \/ MapReadToClear(range[1], range[2])

Host ==
  /\ ~frame.running
  /\ HostChange
  /\ UNCHANGED <<active, lastInstruction, reservation, nextMemoryOrder, effectOrders>>
  /\ UNCHANGED <<register, frame, nextInstruction, lastFault, events, entry>>

------------------------------------------------------------------------------
\* Running an instruction

\* Mutant: a load after a staged store passes the preflight.
FootprintUnordered(effects) ==
  \A i \in DOMAIN effects : effects[i].kind \in {"read", "write"}

\* footprint::preflight of an instruction with several effects: loads, then stores.
Footprint(effects) ==
  \A i \in DOMAIN effects :
    /\ effects[i].kind \in {"read", "write"}
    /\ effects[i].kind = "read" => \A j \in 1..(i - 1) : effects[j].kind = "read"

\* Mutant: the preflight does not reject devices.
PreflightDevices(effects) ==
  Len(effects) > 1 =>
    /\ Footprint(effects)
    /\ \A i \in DOMAIN effects :
         Accessible(space, effects[i].address, effects[i].size, effects[i].kind)

\* What an instruction must pass before it begins.
Preflight(effects) ==
  Len(effects) > 1 =>
    /\ Footprint(effects)
    /\ \A i \in DOMAIN effects :
         RamAccessible(effects[i].address, effects[i].size, effects[i].kind)

\* execute_frame, up to begin_instruction.
Start(effects) ==
  /\ ~frame.running
  /\ nextInstruction <= MaxInstructions
  /\ nextInstruction' = nextInstruction + 1
  /\ IF Preflight(effects)
     THEN /\ BeginInstruction(nextInstruction)
          /\ frame' = Framed(effects)
          /\ lastFault' = NoFault
          /\ entry' = <<backings, devices', register>>
     ELSE /\ frame' = NoFrame
          /\ lastFault' = 0
          /\ UNCHANGED <<serviceVars, entry>>
  /\ UNCHANGED <<register, events>>

Id == nextInstruction - 1
Pending == frame.effects[frame.sequence + 1]

\* The event of an effect that was serviced.
Event(e, outcome) ==
  LET reads == outcome.ok /\ e.kind \in {"read", "load_reserved", "atomic_rmw"}
  IN  [instruction |-> Id, sequence |-> frame.sequence, kind |-> e.kind, ok |-> outcome.ok,
       cells |-> IF reads \/ outcome.written # <<>> \/ (outcome.ok /\ e.kind = "write")
                 THEN Cells(space, e.address, e.size) ELSE <<>>,
       device |-> e.kind = "read" /\ outcome.ok /\ DevicesMet(e.address, e.size) # {},
       read |-> IF reads THEN outcome.word ELSE <<>>,
       written |-> IF e.kind = "write" /\ outcome.ok THEN e.bytes ELSE outcome.written,
       order |-> IF frame.sequence \in DOMAIN effectOrders' THEN effectOrders'[frame.sequence] ELSE NoOrder]

\* drive_frame of an effect that is not an exception, and the frame that resumes on it.
Effect ==
  LET outcome == ExecuteEffect(Pending)
      event == Event(Pending, outcome)
  IN  /\ frame.running /\ ~frame.failed
      /\ frame.sequence < Len(frame.effects)
      /\ Pending.kind # "exception"
      /\ Service(Id, frame.sequence, Pending)
      /\ events' = Append(events, event)
      /\ frame' = IF outcome.ok
                  THEN [frame EXCEPT !.sequence = @ + 1,
                                     !.write = IF outcome.word = <<>> THEN @ ELSE outcome.word]
                  ELSE [frame EXCEPT !.failed = TRUE]
      /\ UNCHANGED <<register, nextInstruction, lastFault, entry>>

\* raise_exception: there is no handler, or it runs and may change the mappings.
Exception ==
  /\ frame.running /\ ~frame.failed
  /\ frame.sequence < Len(frame.effects)
  /\ Pending.kind = "exception"
  /\ ~ServiceRefused(Id, frame.sequence, Pending)
  /\ active' = [active EXCEPT !.nextSequence = @ + 1]
  /\ UNCHANGED <<lastInstruction, reservation, nextMemoryOrder, effectOrders>>
  /\ \/ /\ frame' = [frame EXCEPT !.failed = TRUE]
        /\ UNCHANGED <<space, backings, devices>>
     \/ /\ frame' = [frame EXCEPT !.sequence = @ + 1]
        /\ HostChange \/ UNCHANGED <<space, backings, devices>>
  /\ events' = Append(events, Event(Pending, [Done EXCEPT !.ok = ~frame'.failed]))
  /\ entry' = <<backings', devices', register>>
  /\ UNCHANGED <<register, nextInstruction, lastFault>>

\* drive_frame ends in an error: the frame failed on a response, or the service refused.
Trapped ==
  \/ frame.failed
  \/ frame.sequence < Len(frame.effects) /\ ServiceRefused(Id, frame.sequence, Pending)

\* The error path of execute_frame.
Fault ==
  /\ frame.running
  /\ Trapped
  /\ AbortInstruction(Id)
  /\ lastFault' = frame.sequence
  /\ frame' = NoFrame
  /\ entry' = <<>>
  /\ UNCHANGED <<register, nextInstruction, events>>

\* commit_instruction is refused.
CommitFault ==
  /\ frame.running /\ ~frame.failed
  /\ frame.sequence = Len(frame.effects)
  /\ CommitRefused(Id)
  /\ AbortInstruction(Id)
  /\ lastFault' = Len(SelectSeq(frame.effects, LAMBDA e : e.kind # "exception"))
  /\ frame' = NoFrame
  /\ entry' = <<>>
  /\ UNCHANGED <<register, nextInstruction, events>>

\* The memory order of this instruction's events once it committed.
Reordered(event) ==
  IF event.instruction = Id /\ event.sequence \in DOMAIN effectOrders'
  THEN [event EXCEPT !.order = effectOrders'[event.sequence]] ELSE event

\* commit_instruction, then the frame's own commit.
Commit ==
  /\ frame.running /\ ~frame.failed
  /\ frame.sequence = Len(frame.effects)
  /\ CommitInstruction(Id)
  /\ events' = [i \in DOMAIN events |-> Reordered(events[i])]
  /\ register' = IF frame.write = <<>> THEN register ELSE frame.write
  /\ frame' = NoFrame
  /\ entry' = <<>>
  /\ UNCHANGED <<nextInstruction, lastFault>>

Next ==
  \/ Host
  \/ \E effects \in Instructions : Start(effects)
  \/ Effect \/ Exception \/ Fault \/ CommitFault \/ Commit

Spec == Init /\ [][Next]_vars

------------------------------------------------------------------------------

\* An instruction that traps after it began leaves memory, the devices and the registers
\* as it found them, whatever effect it trapped on: no store of it is seen, and no device
\* has handed out a value that the program did not get.
Precise ==
  [][frame.running /\ ~frame'.running /\ lastFault' # NoFault =>
       <<backings', devices', register'>> = entry]_vars

\* "Resolve every access of a multi-access instruction before it starts": once such an
\* instruction began, no effect of it faults or is refused, and it commits.
BeganCommits ==
  [][frame.running /\ Len(frame.effects) > 1 /\ ~frame'.running => lastFault' = NoFault]_vars

\* Event i of a log writes a cell, with the k-th byte of its access, before the order `bound`.
Wrote(log, i, k, cell, bound) ==
  /\ log[i].order # NoOrder /\ log[i].order < bound
  /\ log[i].written # <<>> /\ log[i].cells[k] = cell

\* No such write is after it.
WroteLast(log, i, k, cell, bound) ==
  /\ Wrote(log, i, k, cell, bound)
  /\ \A j \in DOMAIN log : \A m \in DOMAIN log[j].cells :
       Wrote(log, j, m, cell, bound) => log[j].order < log[i].order \/ (j = i /\ m <= k)

\* The writes ordered below `bound` leave this byte in a cell: the last of them wrote it, or
\* there is none.
Leaves(log, byte, cell, bound) ==
  \/ byte = 0 /\ \A i \in DOMAIN log : \A k \in DOMAIN log[i].cells : ~Wrote(log, i, k, cell, bound)
  \/ \E i \in DOMAIN log : \E k \in DOMAIN log[i].cells :
       WroteLast(log, i, k, cell, bound) /\ byte = log[i].written[k]

\* effect_order is "the global memory-order index assigned at this effect's linearization
\* event": orders are given once, a read of RAM sees the writes ordered before it and no
\* other, through whatever address, and memory is what all of them leave.
SerialOrder ==
  /\ \A i, j \in DOMAIN events : events[i].order = events[j].order => i = j \/ events[i].order = NoOrder
  /\ \A i \in DOMAIN events : ~events[i].device =>
       \A k \in DOMAIN events[i].read :
         Leaves(events, events[i].read[k], events[i].cells[k], events[i].order)
  /\ \A b \in DOMAIN backings : \A o \in DOMAIN backings[b] :
       Leaves(events, backings[b][o], <<b, o>>, nextMemoryOrder)

\* store_conditional "writes memory iff a valid reservation covers the exact" access and
\* consumes it either way: one that writes does so where the last load_reserved read, with
\* no other store_conditional between them, one that faulted included.
ReservationHeld ==
  \A j \in DOMAIN events :
    events[j].kind = "store_conditional" /\ events[j].written # <<>> =>
      \E i \in 1..(j - 1) :
        /\ events[i].kind = "load_reserved" /\ events[i].cells = events[j].cells
        /\ \A k \in (i + 1)..(j - 1) :
             /\ events[k].kind # "store_conditional"
             /\ events[k].kind = "load_reserved" => ~events[k].ok
=============================================================================
