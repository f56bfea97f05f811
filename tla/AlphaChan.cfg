SPECIFICATION Spec
CONSTANTS
  Requests = {r1, r2}
  NumThreads = 2
  AlphaCap = 1
  PoolCap = 2
  MsgscCap = 1
  InitMaxFlows = 3
  SampleRate = 2
  SampleMin = 2
  Export = TRUE
  EnrichOutcomes = {"drop", "grow"}
  JsonBodies = {"good", "bad"}
  Cids = {1, 2}
  MaxRequests = 2
  MaxPerRequest = 2
CHECK_DEADLOCK FALSE
INVARIANTS TypeOK GiveBackNeverBlocks ObjectsConserved BatchShipped
