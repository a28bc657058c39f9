CHECK_DEADLOCK FALSE
SPECIFICATION Spec
CONSTANTS
  NoOperand = NoOperand
  Ids = {1, 2, 3, 4}
  Slots <- TwoSlots
  Leaves = {a}
  Unaries = {f}
  MaxDepth = 2
  MaxEquations = 2
INVARIANTS
  Congruent
  HashConsed
  RowsCanonical
  Listed
  ChangeLogged
  OutsideScopeUnchanged
