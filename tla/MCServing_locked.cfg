SPECIFICATION FairServing
CONSTANTS
  a = a
  b = b
  c = c
  d = d
  p1 = p1
  p2 = p2
  Content = {a, b, c, d}
  Blank = Blank
  Tokens <- MCTokens
  DeprecateHarmful = 2
  Proc = {p1, p2}
  PidOf <- MCOnePid
  Locked = TRUE
  Torn = Torn
  NoFile = NoFile
  NoProc = NoProc
  InitialStores <- MCServingStores
  DeltaLists <- MCDeltaLists
  CreditLists <- MCCredits
  MaxRuns = 2
  Modes = {"lexical", "agentic", "native"}
  Query <- MCQuery
  TopK = 2
  MaxIndex = 2
  CatalogCap = 2
  Answers <- MCAnswers
  Logs <- MCLogs
INVARIANTS TypeOK NeverTorn SoundStore ShowsTheBest CreditFindsLesson
PROPERTIES NoLostUpdate RefinesAtomicStore SessionsEnd
CHECK_DEADLOCK FALSE
