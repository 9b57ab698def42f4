\* Two clients of the endpoint, of this library and of other kinds.
SPECIFICATION HSpec
CONSTANTS
  Calls <- ClientCalls
  Forms <- OtherForms
  NoToken = NoToken
  NoName = NoName
  Malformed = Malformed
  None = None
  Second = 2
  Tokens <- HttpTokens
  Targets <- HttpTargets
  Keytab <- HttpKeytab
  ScopeGroups = ScopeGroups
  ResolverRealm = "R"
  MinterRealm = "R"
  KeytabRealm = "R"
  KDCPrincipal = "krbtgt/R"
  WithPAC = TRUE
  WithFilter = FALSE
  MaxLifetime = 3
  Requests = {r1, r2}
  NoCred = NoCred
  NoReq = NoReq
  WithCache = TRUE
  ChecksExpiry = TRUE
  ClockSkew = 0
  MaxTime = 5
SYMMETRY RequestSymmetry
INVARIANTS
  ClientGetsWhatItAsked
  SuccessIsReported
  ExpiryOffByTransit
  InvalidTargetMeansUnnamed
PROPERTY DrivesExchange
