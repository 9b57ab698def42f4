\* Two tokens of one user share a cache entry: the scopes.
SPECIFICATION Spec
CONSTANTS
  Tokens <- OneUserTokens
  Targets <- OneTarget
  Keytab <- ServerKeytab
  ScopeGroups <- ScopeMap
  ResolverRealm = "R"
  MinterRealm = "R"
  KeytabRealm = "R"
  KDCPrincipal = "krbtgt/R"
  WithPAC = TRUE
  WithFilter = TRUE
  MaxLifetime = 2
  Requests = {r1, r2}
  NoCred = NoCred
  NoReq = NoReq
  WithCache = TRUE
  ChecksExpiry = TRUE
  ClockSkew = 0
  MaxTime = 5
SYMMETRY RequestSymmetry
INVARIANT NarrowedToScope
