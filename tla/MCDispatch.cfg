SPECIFICATION Spec
CONSTANTS
  Slots <- MCSlots
  KindOf <- MCKindOf
  Credentials <- MCCredentials
  EnvOf <- MCEnvOf
  None = None
INVARIANTS
  WindowsMatch
  PlaceIsOwn
  NeverAnothersEnv
