SPECIFICATION Spec
CONSTANTS
  InCap = 1
  Margin = 1
  InputThreads = 1
  MaxThreads = 1
  MsgscCap = 1
  TooBigCap = 1
  InitMaxFlows = 1
  SampleRate = 2
  SampleMin = 9
  Exporting = TRUE
  Filters = FALSE
  Replies = {"ok"}
  NumSinks = 1
  NumRollups = 1
  MaxBatch = 2
  MaxBatches = 0
  MaxMetrics = 0
  MaxRecords = 1
  MetricsBatch = 2
  RecordLines = 2
  MaxTicks = 0
CHECK_DEADLOCK FALSE
INVARIANT WaitGroupNeverNegative
