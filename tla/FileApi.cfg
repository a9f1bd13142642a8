CONSTANTS
  Volumes <- MCVolumes
  PrefixOf <- MCPrefixOf
  ClusterSize = 2
  SlotsPerCluster = 3
  Paths <- MCPaths
  BlockSize = 3
  Pieces <- MCPieces
  MaxPath = 5
  Machines <- MCMachines
  NoBoot = NoBoot
SPECIFICATION Spec
INVARIANTS CacheHonest AnswersTrue TextAsStored PathsCompose MountedRight
