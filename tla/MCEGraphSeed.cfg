CHECK_DEADLOCK FALSE
SPECIFICATION SpecSeeding
CONSTANTS
  NoOperand = NoOperand
  Ids = {1, 2, 3, 4, 5}
  Slots <- TwoSlots
  Leaves = {a}
  Unaries = {f}
  MaxDepth = 0
  MaxEquations = 1
INVARIANTS
  Congruent
  SeededLikeOneAtATime
PROPERTY
  PassesMerge
