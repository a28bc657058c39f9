CONSTANTS
  Width = 2
  MaxIds = 4
  Values <- ValuesModulo
  Zero = 0
  Kinds <- KindsCarried
  Extents = {1}
  MaxCalls = 3
  Asks <- AsksOne
  Plus <- PlusModulo
  Minus <- MinusModulo
SPECIFICATION Spec
INVARIANTS
  RepresentativeOfTheSet
  MapBelowFlat
PROPERTIES
  UnionEquates
  ImplementsPartition
  Returns
