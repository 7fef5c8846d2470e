SPECIFICATION Spec
CONSTANTS
  Urls <- MCUrls
  Digests <- MCDigests
  Worlds <- MCWorlds
  None = None
  MaxDepth = 2
  MaxNodes = 2
  MaxCalls = 2
CHECK_DEADLOCK FALSE
INVARIANTS
  PinsHonoured
  AcquiredIsClosed
  ShortestFirst
  NoKnot
