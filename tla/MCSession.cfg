SPECIFICATION Spec
CONSTANTS
  Sources <- MCSources
  MaxMembers = 3
  Declared <- MCDeclared
  Aliases <- MCAliases
  Names <- MCNames
  MaxModules = 3
  MaxDepth = 2
  Folded <- MCFolded
  MaxListed = 2
  Manifests <- MCManifests
  Credentials <- MCCredentials
  Cut <- MCCut
  Toolchains <- MCToolchains
  Ids <- MCIds
  MaxSlots = 3
  Capacity = 1
  MaxChunkToolchains = 1
  MaxSessions = 2
INVARIANTS
  ResolverIsItsOwn
  RegisteredIsWhole
  RequiresReachTheirOwn
  EachRunsOnce
CHECK_DEADLOCK FALSE
