SPECIFICATION Spec
CONSTANTS
  Ops = {1, 2, 3}
  Stride = 4
  MaxPosition = 30
INVARIANTS
  PositionsSpread
PROPERTY
  ImplementsOpOrder
