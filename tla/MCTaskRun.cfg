SPECIFICATION FairSpec
CONSTANTS
  NodeCount = 3
  Graphs <- MCGraphs
  Requests <- MCRequests
  MaxCalls = 2
INVARIANTS
  PrerequisitesFirst
  RunningIsTheStack
  NothingBeforeThePlan
PROPERTIES
  BuildsInOrder
  CommandEnds
