SPECIFICATION StitchSpec
CONSTANTS
  Keys = {k1, k2}
  Values = {1, 2, 3}
  NoKey = NoKey
  NoValue = 0
  Capacity = 2
  Threads = {t1, t2}
  MaxFlows = 3
CHECK_DEADLOCK FALSE
INVARIANT TakenOnce
