SPECIFICATION MCSpec
   
PROPERTIES DispatchesEnd 
CHECK_DEADLOCK FALSE
CONSTANTS
  r1 = r1 r2 = r2 s1 = s1 d1 = d1 d2 = d2 None = None Nothing = Nothing
  Reqs = {r1, r2}
  Sessions = {s1}
  SessionOf <- MCSessionOf
  Inputs <- MCInputs
  HasTimes = TRUE
  MaxRetries = 1
  MaxLog = 2
  Stored = {"cwd", "workshop"}
  Within <- MCWithin
  Trees <- MCTrees
  MaxBytes = 2
  MaxTotal = 2
  MaxCount = 1
  ScanOutbound = TRUE
  Dispatches = {d1, d2}
  Messages <- MCMessages
