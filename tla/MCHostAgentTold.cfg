SPECIFICATION Spec
INVARIANTS ToldCodeConfirms
CONSTANTS
  c1 = c1  t1 = t1
  Request = {r1, r2}
  Token = {k1, k2}
  Caller = {c1}
  Target = {t1}
  HostOp <- OnlyPctStop
  Sent <- Destroys
  Forms = {"plain", "masked"}
  Rules <- DestroyRule
  FullBypass = {}
  FirstAgentBypass = FALSE
  ExecEnabled = FALSE
  AnsibleQueue = FALSE
  AnsibleTarget = {}
  ExecAllowed = {}
  SignalConfigured = TRUE
  AllowedApprovers = {c1}
  Approver = {c1}
  AdminCN = {}
  PluginConfigured = FALSE
  TTL = 1
  ConfirmWindow = 1
  RateEnabled = FALSE
  MaxRequests = 3
  Window = 3
  MaxTime = 2
  NoBucket = NoBucket  NoToken = NoToken  NoEntry = NoEntry
  NoArg = NoArg  NoSweep = NoSweep
