SPECIFICATION FairSpec
CONSTANTS
  Workers = {w1, w2}
  Addrs = {a1, a2}
  Known = {a1}
  MaxCache = 0
  NoName = NoName
  MaxBatchSize = 2
  MaxFlows = 3
  NoWorker = NoWorker
  Msgs = {m1, m2}
  RecsCap = 1
  MaxErrors = 1
  MaxCrashes = 1
  Threads = {t1, t2}
  Names = {n1}
  ChanSlack = 1
  Sizes = {1, 2}
  MaxMsgs = 2
  MaxBatches = 1
  NoThread = NoThread
  PromNames = {p1}
  x = x
  y = y
  ydot = ydot
  Tags = {x, y, ydot}
  UnsafeTags = {ydot}
  Safe <- MCSafe
  DigitTags = {d}
  Vals = {u, v}
  FlowsNeeded = 2
  MaxSamples = 4
  Blank = Blank
  MaxPayloads = 4
  MaxExpiries = 1
CHECK_DEADLOCK FALSE
INVARIANTS InputsInv OutputsInv
PROPERTY EdgesRun
