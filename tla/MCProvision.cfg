SPECIFICATION Spec
CONSTANTS
  M1 = M1
  M2 = M2
  D1 = D1
  D2 = D2
  F1 = F1
  F2 = F2
  None = None
  Machines <- MCMachines
  Pids <- MCPids
  Digests <- MCDigests
  Members <- MCMembers
  MaxAttempts = 2
SYMMETRY Symmetry
INVARIANTS
  PresentIsComplete
  AnsweredIsThere
  NoLitter
PROPERTY
  EntriesStay
