SPECIFICATION ServicesSpec
CONSTANTS
  Loggers = {l1, l2}
  NumMessages = 2
  TeeCap = 1
  NumSinks = 2
  SinkCap = 1
  Watched = {1}
  TeeLogs = TRUE
  MaxLogs = 3
  MaxSyslogs = 1
  StartupDelay = 1
  Period = 2
  CheckTimeout = 2
  MaxClock = 7
  NumCreds = 2
  Demands = {q1}
  Callers = {c1, c2}
  Kinds = {"customs", "interfaces"}
  NoOne = NoOne
  MaxVersion = 2
  MaxWork = 4
  o1 = o1
  o2 = o2
  n1 = n1
  n2 = n2
  Orgs = {o1, o2}
  Nets = {n1, n2}
  OrgOf <- MCOrgOf
  NumPages <- MCPages
  Builders = {b1, b2}
  Poller = Poller
  NoUnit = NoUnit
  MaxRetry = 1
  MaxNetRetry = 1
  MaxPolls = 2
  MaxBusy = 1
  JchfRoom = 1
  LogRoom = 1
  Configs <- MCConfigs
  EventNets = {n1, n2}
  NoNet = NoNet
  EventRetry = 1
  MaxHappen = 3
  MaxDownloads = 2
  EventRoom = 1
  Files <- MCFiles
  XmlFiles = {"x"}
  NameOf <- MCNameOf
  SysidsOf <- MCSysids
  SymbolsOf <- MCSymbols
  MatchesOf <- MCMatches
  Broken = {"sub/b"}
  Polled = {"a", "b", "c"}
  OidLen <- MCOidLen
  CounterTime = 60
  Adjust = 5
  ExtendsSets <- MCExtends
  Queries <- MCQueries
  NoFile = NoFile
  NoName = NoName
  TrapDefs <- MCTrapDefs
  NoVar = NoVar
  Rest = Rest
  Packets <- MCPackets
  DropUndefined = FALSE
  NoTrap = NoTrap
  TrapRoom = 1
  MaxTraps = 2
CHECK_DEADLOCK FALSE
INVARIANTS LogInv ServerInv ApiInv MerakiClientInv MibsInv
PROPERTIES TablesForward ServicesRun
