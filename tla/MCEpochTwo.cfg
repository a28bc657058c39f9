SPECIFICATION Spec
CONSTANTS
  f = f
  m = m
  g = g
  n1 = n1
  n2 = n2
  vf = vf
  vm = vm
  vg = vg
  w1 = w1
  w2 = w2
  Parts <- MCParts
  Ops <- MCOps
  Res <- MCRes
  ValueChunkOf <- MCValueChunkOf
  Names <- MCNames
  MakesOps <- TwoEpochsMakes
  Layouts <- TwoEpochs
  MaxEdits = 1
  MaxEpochs = 2
INVARIANT NoDanglingReads
