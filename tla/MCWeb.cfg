SPECIFICATION MCSpec
INVARIANTS RemoteSeesNoSecrets DeliveredWasJudged  
PROPERTIES Releases
SYMMETRY Symmetric
CHECK_DEADLOCK FALSE
CONSTANTS
  r1 = r1 search = search model = model s1 = s1 s2 = s2 agent = agent
  NoHost = NoHost NoAgent = NoAgent NoSnap = NoSnap
  Reqs = {r1}
  Hosts <- MCHosts
  Secrets = {s1, s2}
  Agents = {agent}
  Shapes <- MCShapes
  Rules <- MCRules
  StaticAllow <- MCStatic
  SearchHosts = {search}
  LlmHosts = {model}
  BypassHosts = {}
  Mappings <- MCMappings
  Checks <- MCChecks
  ForbidSearch = FALSE
  Preflight = TRUE
  ScanOutbound = TRUE
  ScanInbound = TRUE
  ScanResponseSecrets = TRUE
  InjectCredentials = TRUE
  CacheExpires = TRUE
  DigestsExpire = TRUE
  OverrideNeedsToken = TRUE
  VaultEnabled = TRUE
  BrowsingStrategy = "strip"
  SearchStrategy = "strip"
  MaxWrites = 2
  Fetches = {f1, f2, f3}
  Urls = {u}
  Contents = {a, b}
  Protected = {}
  Intercepted = TRUE
  OverrideOnReview = FALSE
  None = None
  MaxEdits = 1
  Policies = {"default", "raises", "does not parse"}
  Fallbacks = {"allow", "unset", "other"}
  Calls = {"c1", "c2"}
  Inputs <- MCInputs
  Configs <- MCConfigs
  Feeds <- MCFeeds
  Nothing = Nothing
