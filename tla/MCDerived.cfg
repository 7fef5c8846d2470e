SPECIFICATION Spec
CONSTANTS
  Names <- MCNames
  Files <- MCNames
  FileOf <- MCFileOf
  Texts <- MCTexts
  None = None
INVARIANTS
  GeneratedIsThere
  CheckIsHonest
  NoStrays
PROPERTIES
  EditsAreKept
