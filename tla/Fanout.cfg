CONSTANTS
  Leaders = {l1, l2, l3}
  Hit <- MCHit
  VectorHit <- MCVectorHit
  Limits = {0, 1}
  Interval = 2
  RRF_K = 60
  BufferCap = 2
SPECIFICATION FanoutSpec
INVARIANTS StreamAgrees AggregateExact HybridFair HybridCovered FederationAgrees
PROPERTIES UpdatesImprove Ends
CHECK_DEADLOCK FALSE
