SPECIFICATION FairSpec
CONSTANTS
  InCap = 1
  Margin = 1
  InputThreads = 1
  MaxThreads = 2
  MsgscCap = 1
  TooBigCap = 1
  InitMaxFlows = 2
  SampleRate = 2
  SampleMin = 1
  Exporting = TRUE
  Filters = FALSE
  Replies = {"ok", "tooBig", "error"}
  NumSinks = 1
  NumRollups = 1
  MaxBatch = 1
  MaxBatches = 1
  MaxMetrics = 1
  MaxRecords = 2
  MetricsBatch = 0
  RecordLines = 2
  MaxTicks = 1
CHECK_DEADLOCK FALSE
INVARIANTS ExportInv HandlerWaitsForAll
 
