CONSTANTS
  A = A  B = B  C = C
  Start = Start  End = End  NoRoute = NoRoute
  Node = {A, B, C}
  Graphs <- NamedGraphs
  Modes = {"Sync", "Async", "Exit"}
  MaxSteps = 3
  MaxRuns = 2
SPECIFICATION FairSpec
INVARIANTS
  TypeOK SyncDurable SavedStatesAreReached NoNodeTwice PredecessorsFirst StepsBounded
  ExitSavesOnlyTheEnd ParentsAreStored
PROPERTIES
  ImplementsThread RunsEnd PendingDrains
CHECK_DEADLOCK FALSE
