CONSTANTS
  search = search  mail = mail  unknown = unknown
  c1 = c1  c2 = c2
  Tool = {search, mail, unknown}
  Registered = {search, mail}
  Guarded = {mail}
  EditTools = {search}
  Batches <- ResumedBatches
  Caller = {c1}
  Garbled = {}
  MaxIterations = 2
  MaxCalls = 2
SPECIFICATION MCSpec
INVARIANTS
  DecisionsReachTheirCalls
CHECK_DEADLOCK FALSE
