SPECIFICATION Spec
CONSTANTS
  One = One
  Two = Two
  Someone = Someone
  Writers <- MCWriters
  Readers <- MCReaders
  Texts <- MCTexts
  Pieces = 2
  Exclusive = TRUE
  MaxOpens = 4
  None = None
PROPERTIES
  ChangesWhole
