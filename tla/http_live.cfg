\* The endpoint of an embedding program without a cache and a cap; the resolver has
\* no realm, the minter and the key source have one of their own each.
SPECIFICATION HFairSpec
CONSTANTS
  Calls <- OwnCalls
  Forms <- OwnForms
  NoToken = NoToken
  NoName = NoName
  Malformed = Malformed
  None = None
  Second = 2
  Tokens <- OwnTokens
  Targets <- OwnTargets
  Keytab <- OwnKeytab
  ScopeGroups = ScopeGroups
  ResolverRealm = ""
  MinterRealm = "M"
  KeytabRealm = "K"
  KDCPrincipal = "krbtgt/K"
  WithPAC = TRUE
  WithFilter = FALSE
  MaxLifetime = 0
  Requests = {r1, r2}
  NoCred = NoCred
  NoReq = NoReq
  WithCache = FALSE
  ChecksExpiry = TRUE
  ClockSkew = 0
  MaxTime = 3
INVARIANTS
  NeverOutlivesToken
  LifetimeCapped
  OpensAtTarget
PROPERTIES
  CallsReturn
  EveryCallReturns
