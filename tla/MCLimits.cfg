SPECIFICATION MCSpec
INVARIANTS SlidingBound 
CONSTANTS
  Caller = {c1, c2}
  RateEnabled = TRUE
  MaxRequests = 2
  Window = 3
  MaxTime = 7
  NoBucket = NoBucket
  Sources = {s1, s2, s3, s4, s5}
  burst_size = 2
  Num = 2
  Den = 3
  MaxSources = 4
  MaxTick = 3
  MaxChecks = 4
SYMMETRY Symmetric
CHECK_DEADLOCK FALSE
