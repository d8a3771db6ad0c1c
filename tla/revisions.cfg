SPECIFICATION Spec
CONSTANTS
  None = None
  ParentTarget = 6
  ParentMax = 8
  ChildTarget = 3
  ChildMin = 2
  ChildMax = 4
  Overlap = 1
  Bodies <- MCBodies
  FileSets <- MCFileSets
  MaxFiles = 1
  Deployments <- MCDeployments
  MaxChanges = 3
INVARIANTS
  VectorIsOfItsText
  ReadTextIsKept
  ChunksFit
  KeysAreUnique
  ParentHoldsChild
PROPERTY
  EmbedsOnlyNewText
CHECK_DEADLOCK FALSE
