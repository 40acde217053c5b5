SPECIFICATION MCSpec
INVARIANTS WaitersExclusive RoundRobinFair RecordedIsServed StreamIsReassembled
PROPERTIES RequestsEnd
CHECK_DEADLOCK FALSE
CONSTANTS
  m1 = m1
  m2 = m2
  Request = {r1, r2, r3}
  Constituents <- MCTwo
  Switched = {m1, m2}
  RoundRobin = TRUE
  Kind = {timeout, misconfigured}
  Misconfigured = misconfigured
  RetryOn = {timeout}
  MaxRetries = 1
  FallbackOn = {timeout}
  NoModel = NoModel
  NoRequest = NoRequest
  None = None
  Switches <- MCSwitches
  Startup = "startup"
  Models <- MCModels
  Wanted <- MCWanted
  Hooks = TRUE
  Settings <- MCSettings
  Indexes = {0, 1}
  Calls = 2
  MaxEvents = 3
  Statuses <- MCStatuses
  Absent = Absent
