CONSTANTS
  Doc <- MCDoc
  Texts = {1, 2}
  Terms = {"a", "b"}
  Freq <- MCFreq
  Orders <- MCOrders
  Revs = {1, 2}
  V = 2
  RebuildMin = 2
  MaxVectors = 3
  MaxSnapshot = 1
  Distance <- MCDistance
  Hamming <- MCHamming
  FlatMax = 1
  Headroom = 2
  OVERSAMPLE = 2
  FilterOverfetch = 2
  DEFAULT_KNN = 2
  ShardLimits = {0, 1}
SPECIFICATION Spec
INVARIANTS IndexesExact GarbageBounded SearchSound
PROPERTIES Implements
