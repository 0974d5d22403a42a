CONSTANTS
  search = search  mail = mail  unknown = unknown
  c1 = c1  c2 = c2
  Tool = {search, mail, unknown}
  Registered = {search, mail}
  Guarded = {mail}
  EditTools = {search, unknown}
  Batches <- AllBatches
  Caller = {c1, c2}
  Garbled = {2}
  MaxIterations = 2
  MaxCalls = 3
SPECIFICATION MCSpec
INVARIANTS
  TypeOK ApprovedToolsOnly DecisionsSpentInOrder CallsAnsweredInOrder
  InterruptLosesNoCall MemoryHoldsTurns
PROPERTIES
  CallsEnd
CHECK_DEADLOCK FALSE
