SPECIFICATION MCSpec
INVARIANTS SkipsOnlyOverlaps SelectionsAllowed
PROPERTIES NeverReinjected
SYMMETRY Symmetric
CHECK_DEADLOCK FALSE
CONSTANTS
  a1 = a1
  Agent = {a1, a2}
  Agents = {a1, a2}
  Default <- MCDefault
  Message = {m1, m2, m3, m4}
  Chat = {c1}
  NativeAgent = {a2}
  NativeText = {m4}
  Capacity = 2
  InjectDepth = 2
  MaxInFlight = 4
  Identity = {alice}
  Session = {s1}
  Model = {x1, x2, x3}
  SessionAgent = {a2}
  OverrideAgent = {a1}
  Synthetic = {x1}
  Matched = {x3}
  Command = {k1, k2, k3}
  None = None
  MaxBusy = 3
  MaxRestarts = 1
  Edits = {{x1}, {x2}}
