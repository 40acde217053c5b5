CONSTANTS
  o1 = o1 o2 = o2 o3 = o3 z1 = z1 e1 = e1 c1 = c1 f1 = f1 f2 = f2
  browser = browser worker = worker gw = gw odd = odd
  None = None Missing = Missing Broken = Broken Planned = Planned
  Claws = {o1, o2, o3, z1, e1, c1}
  Files = {f1, f2}
  Units = {browser, worker, gw, odd}
  Orders <- MCOrders
  Adapter <- MCAdapter
  Given <- MCGiven
  FileOf <- MCFileOf
  ArgSets <- MCArgSets
  Shape <- MCShape
  Mode <- SystemMode
  NotYet = NotYet
  Configs <- MCConfigs
  Paths <- Files4
  UnderHome = {"home"}
  Contents <- MCContents
  OnPath = {"tool", "acpx", "codex-cli"}
  Features = {"persistent-context"}
  Statuses <- MCStatuses
  Ambient = FALSE
  PlanConfigs <- MCPlanConfigs
  Names <- MCNames
  NameOrder <- MCNameOrder
  Sizes = {1, 2}
  Requested = {"s1", "x"}
  PlanAgents <- MCAgents
SPECIFICATION MCSpec
INVARIANTS SettingsNeverLost InstalledIsComplete 
  ForetoldFailures StrictEgressHolds PlanIsTheClosure BlockedNeverCalled
CHECK_DEADLOCK FALSE
