SPECIFICATION ProxySpec
CONSTANTS
  Names = {"v", "b"}
  Clients = {c1, c2}
  ClientIdentity <- MCClientIdentity
  ClientTarget <- MCClientTarget
  Adopters = {a1}
  HostAnchor = h
  Creds = {k1}
  Minted = {t1}
  Services = {"token_registry"}
  NoToken = NoToken
  MaxCalls = 3
  Providers = {"b"}
  Operator = op
  MaxJudged = 2
INVARIANTS NoSplitBrain HandlerSeesItsCaller CallerWasIssued
SYMMETRY Sym
CHECK_DEADLOCK FALSE
