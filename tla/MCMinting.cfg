SPECIFICATION Spec
CONSTANTS
  MaxChunks = 5
  ChunkRows = 2
  MaxParts = 3
  MaxScopes = 1
  TargetLists <- Apart
  NoChunk = NoChunk
  NoPart = NoPart
CHECK_DEADLOCK FALSE
INVARIANTS
  TasksMintApart
  IdsAscend
PROPERTY
  MergeKeepsIds
