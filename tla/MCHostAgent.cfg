SPECIFICATION FairSpec
INVARIANTS SingleUse IndexMatchesStore AuditPrecedesRun
PROPERTIES ExpiredSwept
CONSTANTS
  c1 = c1  t1 = t1
  Request = {r1, r2, r3}
  Token = {k1}
  Caller = {c1}
  Target = {t1}
  HostOp <- OnlyPctStop
  Sent <- Destroys
  Forms = {"plain"}
  Rules <- DestroyRule
  FullBypass = {}
  FirstAgentBypass = FALSE
  ExecEnabled = FALSE
  AnsibleQueue = FALSE
  AnsibleTarget = {}
  ExecAllowed = {}
  SignalConfigured = TRUE
  AllowedApprovers = {c1}
  Approver = {c1}
  AdminCN = {}
  PluginConfigured = FALSE
  TTL = 1
  ConfirmWindow = 1
  RateEnabled = FALSE
  MaxRequests = 3
  Window = 3
  MaxTime = 3
  NoBucket = NoBucket  NoToken = NoToken  NoEntry = NoEntry
  NoArg = NoArg  NoSweep = NoSweep
