SPECIFICATION Spec
INVARIANTS RunsAreApproved
SYMMETRY Symmetric
CONSTANTS
  c1 = c1  t1 = t1
  Request = {r1, r2}
  Token = {k1, k2}
  Caller = {c1, c2}
  Target = {t1, t2}
  HostOp <- EveryAdapter
  Sent <- EveryEndpoint
  Forms = {"plain"}
  Rules <- MixedRules
  FullBypass = {c2}
  FirstAgentBypass = TRUE
  ExecEnabled = TRUE
  AnsibleQueue = TRUE
  AnsibleTarget = {t1}
  ExecAllowed = {t2}
  SignalConfigured = TRUE
  AllowedApprovers = {c1}
  Approver = {c1}
  AdminCN = {c1}
  PluginConfigured = TRUE
  TTL = 0
  ConfirmWindow = 0
  RateEnabled = TRUE
  MaxRequests = 2
  Window = 1
  MaxTime = 0
  NoBucket = NoBucket  NoToken = NoToken  NoEntry = NoEntry
  NoArg = NoArg  NoSweep = NoSweep
