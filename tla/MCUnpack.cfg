SPECIFICATION UnpackSpec
CONSTANTS
  Missing = Missing
  Malformed = Malformed
  MaxFullName = 3
  MaxMemberBytes = 8
  MaxTotal = 7
  MaxMembers = 5
  MaxPath = 3
  MaxHops = 2
  Fuel = 12
  Backslashed = {"back"}
  Drives = {"drive"}
  Dotted = {"dotted"}
  Archives <- MCArchives
INVARIANTS
  TreeIsTheArchive
  CopiesReadTheSame
  WithinTheLimit
CHECK_DEADLOCK FALSE
