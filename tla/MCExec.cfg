SPECIFICATION ExecSpec
CONSTANTS
  Platforms = {"posix", "windows"}
  SearchPath <- MCSearchPath
  Installed <- MCInstalled
  Unresolvable <- MCUnresolvable
  BatchNames = {"run.bat"}
  ImproperNames = {"../cc"}
  LongNames = {}
  UnsafeLabels = {"bell"}
  ReportCapacity = 1
  Calls <- MCCalls
  MaxTools = 2
  Labels = {"no label", "bell"}
  Names = {"cc", "mvn", "run.bat", "gone", "../cc"}
  MaxArguments = 2
  MaxEnv = 2
  Inherited <- MCInherited
  CoreCredentials = {"TOKEN"}
  Folded <- MCFolded
  Limit = 2
  FirstCapacity = 2
  SinkSize = 1
  PipeRoom = 1
  Interrupted = 141
INVARIANTS
  TruncationIsSaid
  NothingIsLeft
PROPERTIES
  CallEnds
CHECK_DEADLOCK FALSE
