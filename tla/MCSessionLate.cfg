SPECIFICATION Spec
CONSTANTS
  Sources <- MCSources
  MaxMembers = 3
  Declared <- MCDeclared
  Aliases <- MCAliases
  Names <- MCNames
  MaxModules = 3
  MaxDepth = 2
  Folded <- MCFolded
  MaxListed = 2
  Manifests <- LateManifests
  Credentials <- MCCredentials
  Cut <- MCCut
  Toolchains <- MCToolchains
  Ids <- MCIds
  MaxSlots = 4
  Capacity = 2
  MaxChunkToolchains = 1
  MaxSessions = 1
INVARIANTS
  OwnersAreItsOwn
CHECK_DEADLOCK FALSE
