SPECIFICATION FairSpec
CONSTANTS
  Oids = {o1, o2}
  BlockLen = 2
  Jitter = 0
  CounterMod = 6
  StartValue = 2
  MaxTime = 6
  RestartValues = {4}
  RebootTimes = {5}
  MaxReboots = 1
  NoTick = NoTick
  Ticks = {t1, t2, t3}
  FastPoll = TRUE
  Submatch <- MCSubmatch
  BadRegexps = {}
  UpsCodes <- MCUpsCodes
  DevMibs <- MCDevMibs
  DevAnswers <- MCDevAnswers
  IfMibs <- MCIfMibs
  IfAnswers <- MCIfAnswers
  UptimeAnswers <- MCUptimes
  TickDuration = 30
  MaxMetricPolls = 2
  IfWalks <- MCIfWalks
  IfMetaAnswers <- MCIfMetaAnswers
  MetaMibs <- MCMetaMibs
  MetaAnswers <- MCMetaAnswers
  SysNames = {"SysName"}
  Huawei <- MCHuawei
  UserTags <- MCUserTags
  MaxMetaPolls = 2
CHECK_DEADLOCK FALSE
INVARIANTS PollersInv NeverOverReports SpansKept
PROPERTY PollersEnd
