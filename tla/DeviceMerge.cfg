SPECIFICATION FairSpec
CONSTANTS
  h1 = h1
  h2 = h2
  a = a
  b = b
  e1 = e1
  Hosts = {h1, h2}
  Names = {a, b}
  Engines = {e1}
  NoEngine = NoEngine
  NoHost = NoHost
  Answers <- MCAnswers
  InitFiles <- MCInitFiles
  Settings <- MCSettings
  Threads = 1
  PollDuration = 1
  TimeBuffer = 1
  MaxAge = 3
  MaxRounds = 2
CHECK_DEADLOCK FALSE
INVARIANTS MergeInv DevicesKept
PROPERTIES ImplementsDiscovery DiscoveryEnds
