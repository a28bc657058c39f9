SPECIFICATION Spec
CONSTANTS
  Owners = {o1, o2}
  Cells = {a, b}
  MaxOperands = 2
  MinTail = 0
  Divisor = 2
  MaxTick = 5
  NotBuilt = NotBuilt
SYMMETRY Symmetry
CHECK_DEADLOCK FALSE
INVARIANTS
  LookupExact
  ReadsOnce
