SPECIFICATION Spec
CONSTANTS
  Ops = {1, 2, 3, 4, 5, 6}
  Stride = 2
  MaxPosition = 21
  Base = {1, 2}
  Tasks = {1, 2}
  Minted <- MintedOps
  MaxStart = 7
  MaxEdits = 2
CHECK_DEADLOCK FALSE
INVARIANTS
  CommittedBeforeUnlessRenumbered
PROPERTY
  AppendGoesLastUnlessRenumbered
