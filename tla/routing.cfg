CONSTANTS
  A = A  B = B  C = C
  Start = Start  End = End  NoRoute = NoRoute
  Node = {A, B, C}
  Graphs <- DecidingGraphs
  Modes = {"Sync"}
  MaxSteps = 4
  MaxRuns = 1
SPECIFICATION Spec
INVARIANTS
  RoutedNodesOnly
CHECK_DEADLOCK FALSE
