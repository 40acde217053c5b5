SPECIFICATION Spec
INVARIANTS NamedIsDecided
CHECK_DEADLOCK FALSE
CONSTANTS
  Id = {i1, i2}
  NoId = NoId
  Command <- FourMessages
  Message <- FourMessages
  Identity = {"ann", "bob"}
  Routed = {"ann"}
  own = own other = other foreign = foreign
  Agent = {own, other, foreign}
  AllowedAgents <- MCAllowedAgents
  BtwAgent <- MCBtwAgent
  Listable = {own}
  Models = {"a", "b"}
  AllowedUser = {"ann", "guest"}
  Inbound <- FewInbound
  ScansMessages = {"whatsapp", "signal"}
  AllowsSecrets = {"mock"}
  RichUi = {"telegram"}
  NoOne = "no one"
