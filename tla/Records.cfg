SPECIFICATION RecordsSpec
CONSTANTS
  Keys = {k1, k2, k3}
  Values = {1, 2, 3, 4}
  NoKey = NoKey
  NoValue = 0
  Capacity = 2
  Threads = {t1, t2}
  MaxFlows = 4
  FlowSet <- MCFlowSet
  ColName <- MCColName
  DeviceCols <- MCDeviceCols
  Subtypes <- MCSubtypes
  Udrs <- MCUdrs
  RemapTo <- MCRemapTo
  Foreign <- MCForeign
  DroppedAttrs = {"device_site"}
  Resolves = TRUE
  MaxRecords = 3
  FormatThreads = {f1, f2}
  MetadataSet <- MCMetadataSet
  Inputs <- MCInputs
  NoMetadata = NoMetadata
  Numeric = {"10"}
  SysKeys = {"SysName"}
  StripTo <- MCStripTo
  TableKeys <- MCTableKeys
  InterfaceKeys <- MCInterfaceKeys
  KeepAcross = {"device_name", "Index", "src_addr"}
  RemoveForSnmp = {"Uptime"}
  AllowSys = {"Uptime"}
  DroppedNames = {"timestamp"}
  KeyRank <- MCKeyRank
  MaxAttrs = 6
  PortNames = {"port", "src_port", "dst_port"}
  HighPorts = {"40000"}
  BlankPts = {"0", "-", "--"}
  NrmNames <- MCNrmNames
  OtelNames <- MCOtelNames
  WordBits = 4
  EventRoomNr = 1
  MaxInputs = 3
CHECK_DEADLOCK FALSE
INVARIANTS MapSound MatesShareKey PairedOnce RecordsInv
PROPERTIES ImplementsEvictingMap RecordsRun
