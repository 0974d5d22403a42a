CONSTANTS
  WindowSizes = {0, 1, 3}
  MaxCallsPer = 2
  MaxMessages = 4
  MaxIds = 3
  Thread <- Two
  Writer <- Two
  Update <- Two
  MaxSnapshots = 3
  Caller <- Two
  TaskId = {"t"}
  TaskInput <- Two
  MaxExecutions = 3
  Counters <- LimitedBy
  MaxLag = 1
  MaxTime = 4
  MaxRequests = 3
  Networks <- AllGraphs
  EndNode = "End"
  NoGraph = ""
  MaxIterations = 4
  Speaker = {"A", "B"}
  Chunk = {"x", "y"}
  MaxChunks = 2
  BuildNode = {"A", "B"}
  GraphStart = "Start"
  GraphEnd = "End"
  BuildEdges <- AddedEdges
  MaxEdges = 3
  Field = {"input", "output", "action"}
  MaxNodes = 3
  Chatter <- Two
  MaxRetrievalRetries = 1
  MaxGenerationRetries = 1
  MaxChats = 2
  MaxItems = 1
  DeepConfigs <- DeepAgentConfigs
  Own = {"search"}
  MaxDeepCalls = 3
  Editor = {"p"}
  Segment = {"m", "n"}
  FilePath <- Paths
  RouteSets <- Routes
  FileWord = {"x", "y"}
  MaxWords = 1
  ToolFile <- DirectoryFile
  MaxLines = 3
  PageSize = {0, 1, 2}
  MaxToolCalls = 2
  Page <- FourPages
  RootPage = "p"
  Sites <- SmallSites
  CrawlSettings <- Crawls
  Sources <- LoadedParts
  UncutParts = {2}
  Capacity = 2
  Adder <- Two
  StoredDoc <- Two
  DocSpace = {"", "s"}
  DocBatches <- Batches
  DocScore <- Scores
  MaxDocIds = 3
  Searcher = {"p"}
  NameSegment = {"default", "k"}
  KeyNamespace <- Namespaces
  NamedKey <- NamedKeys
  KeptValue = {"x", "y"}
  NearnessOf <- NearTo
  KeyFilters <- ItemFilters
  FoundLimits = {1}
  MaxPuts = 2
  Stacks <- HookStacks
  AgentInputs <- Conversations
  ToolResults <- ToolAnswers
  HistoryThreshold = 2
  HistoryPreserve = 1
  MaxToolSteps = 2
SPECIFICATION MCSpec
PROPERTIES
  ResultsOutliveRestarts
CHECK_DEADLOCK FALSE
