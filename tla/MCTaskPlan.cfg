SPECIFICATION FairSpec
CONSTANTS
  NodeCount = 3
  Graphs <- MCGraphs
INVARIANTS
  PlannedIsAPlan
  RefusalsAreExact
  StackFits
PROPERTY
  WalkEnds
