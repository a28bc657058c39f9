SPECIFICATION Spec
CONSTANTS
  f = f
  m = m
  g = g
  n1 = n1
  n2 = n2
  vf = vf
  vm = vm
  vg = vg
  w1 = w1
  w2 = w2
  Parts <- MCParts
  Ops <- MCOps
  Res <- MCRes
  ValueChunkOf <- MCValueChunkOf
  Names <- MCNames
  MakesOps <- MCMakesOps
  Layouts <- MCLayouts
  MaxEdits = 2
  MaxEpochs = 1
INVARIANTS
  NoDanglingReads
  NeverRefused
  ChunkingIrrelevant
  TaskSettledIsFresh
PROPERTIES
  VersionsKept
  NoLostEdit
