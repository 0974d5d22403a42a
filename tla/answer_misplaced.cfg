CONSTANTS
  A = A  B = B
  Start = Start  End = End  NoRoute = NoRoute
  Node = {A, B}
  c1 = c1  c2 = c2
  Caller = {c1}
  Graphs <- LineGraphs
  Asks <- AskedOnce
  MaxIterations = 4
  MaxCalls = 3
SPECIFICATION Spec
INVARIANTS
  ValueReachesItsInterrupt
CHECK_DEADLOCK FALSE
