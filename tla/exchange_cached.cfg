\* JWKS validator with a skew, PAC without scope filter, cache, a cap; resolver,
\* minter and key source have a default realm of their own each.
SPECIFICATION Spec
CONSTANTS
  Tokens <- ServerTokens
  Targets <- ServerTargets
  Keytab <- EmbeddedKeytab
  ScopeGroups <- ScopeMap
  ResolverRealm = "R"
  MinterRealm = "M"
  KeytabRealm = "K"
  KDCPrincipal = "krbtgt/K"
  WithPAC = TRUE
  WithFilter = FALSE
  MaxLifetime = 2
  Requests = {r1, r2}
  NoCred = NoCred
  NoReq = NoReq
  WithCache = TRUE
  ChecksExpiry = TRUE
  ClockSkew = 1
  MaxTime = 5
SYMMETRY RequestSymmetry
INVARIANTS
  TypeOK
  AnswersTheQuestion
  LifetimeCapped
  LiveOnArrival
  RefusedGetsNothing
  EntriesWereAsked
  SharedForSameQuestion
  OpensAtTarget
PROPERTIES
  LiveEntryKept
  ImplementsIssuer
