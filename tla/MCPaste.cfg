SPECIFICATION MCSpec
INVARIANTS UsedOnce ValueHasItsPolicy NamesWerePermitted
PROPERTIES EveryLinkCloses
CHECK_DEADLOCK FALSE
CONSTANTS
  n1 = n1 n2 = n2 head = head agent = agent Unknown = Unknown s1 = s1 s2 = s2
  Link = {l1, l2}
  Bulk = {l2}
  Post = {p1, p2}
  Name = {n1}
  LinkName <- MCLinkName
  Dumps <- MCDumps
  BadLine = BadLine
  Blank = Blank
  Origins <- MCOrigins
  Config <- MCConfig
  Nobody = Nobody
  Seed = Seed
  Session = {s1, s2}
  Calls <- MCCalls
  Names <- MCNames
  Headers = {head}
  BadName = BadName
  Policies <- MCPolicies
  KeySets <- MCKeys
  Attempts = 2
  Earlier = Earlier
