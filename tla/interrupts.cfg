CONSTANTS
  A = A  B = B
  Start = Start  End = End  NoRoute = NoRoute
  Node = {A, B}
  c1 = c1  c2 = c2
  Caller = {c1, c2}
  Graphs <- AllGraphs
  Asks <- AskedUpToTwice
  MaxIterations = 4
  MaxCalls = 3
SPECIFICATION Spec
SYMMETRY Callers
INVARIANTS
  TypeOK RunsFollowEdges CheckpointsContinueParents InterruptsAreSaved
  AnswersAreSpent
CHECK_DEADLOCK FALSE
