SPECIFICATION Spec
CONSTANTS
  r1 = r1
  Runs = {r1}
  m1 = m1
  m2 = m2
  Ids = {m1, m2}
  Answers = {"open"}
  MaxLooks = 2
  MaxWrites = 2
  d1 = d1
  d2 = d2
  d3 = d3
  Daemons = {d1, d2, d3}
  Clients = {"tui"}
  Environments <- AnyEnvironment
  w1 = w1
  w2 = w2
  Windows = {w1, w2}
  q1 = q1
  q2 = q2
  q3 = q3
  Requests = {q1, q2, q3}
  Arrivals <- Requested
  CodeTTL = 1
  MaxTime = 3
  LedgerCap = 3
  MaxLedger = 6
  Definitions <- FiveDefinitions
  MaxDefinition = 1
  MaxReceipts = 2
  MaxReply = 4
  MaxListed = 4
  MaxRuns = 2
  MaxEvents = 5
  MaxStreams = 4
  MaxMishaps = 2
  Inside = {"asked", "other", "git"}
  Kept = {"git"}
  Outside = {"out"}
  Folder = "asked"
  DirOf <- FolderAt
  FileOf <- FileAt
  MaxMoves = 2
  Platforms = {"linux", "macos", "other"}
  MaxCommands = 1
  MaxIntrusions = 1
  Child = "child"
  Descendants = {"one", "two"}
  Threads = {"thread 1", "thread 2"}
  Providers = {"anthropic", "openai"}
  Keys = {"key"}
  MaxCalls = 3
  MaxElsewhere = 1
  Devices = {"ours", "theirs"}
  Here = "ours"
  Bodies = {"this", "that"}
  MaxHands = 3
INVARIANTS PlaceIsInTheList ListIsTrue SomeoneAnswers NobodyIsMissed OneSessionPerWindow TailIsTheNewestRows ReplyFits ViewCatchesUp CallsStayInside RemovesWhatItRead ProtectedStay NothingOutlives ReadsFollowWrites VerifiedMeansSigned
CHECK_DEADLOCK FALSE
