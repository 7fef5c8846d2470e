SPECIFICATION Spec
CONSTANTS
  Slots <- MCSlots
  KindOf <- MCKindOf
  Credentials <- MCCredentials
  EnvOf <- MCEnvOf
  None = None
INVARIANT
  EnvIsPutBack
