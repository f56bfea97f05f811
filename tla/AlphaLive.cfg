SPECIFICATION FairSpec
CONSTANTS
  Requests = {r1, r2}
  NumThreads = 1
  AlphaCap = 2
  PoolCap = 2
  MsgscCap = 1
  InitMaxFlows = 3
  SampleRate = 1
  SampleMin = 1
  Export = TRUE
  EnrichOutcomes = {"same"}
  JsonBodies = {"good"}
  Cids = {1}
  MaxRequests = 2
  MaxPerRequest = 3
CHECK_DEADLOCK FALSE
INVARIANT FlowsAccounted
PROPERTY QueuesDrain
