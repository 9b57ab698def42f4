\* A client names the KDC principal as its target.
SPECIFICATION Spec
CONSTANTS
  Tokens <- OneUserTokens
  Targets <- KdcTargets
  Keytab <- ServerKeytab
  ScopeGroups <- ScopeMap
  ResolverRealm = "R"
  MinterRealm = "R"
  KeytabRealm = "R"
  KDCPrincipal = "krbtgt/R"
  WithPAC = TRUE
  WithFilter = FALSE
  MaxLifetime = 2
  Requests = {r1, r2}
  NoCred = NoCred
  NoReq = NoReq
  WithCache = TRUE
  ChecksExpiry = TRUE
  ClockSkew = 0
  MaxTime = 5
SYMMETRY RequestSymmetry
INVARIANT KDCKeyOnlySigns
