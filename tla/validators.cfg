\* A validation while the provider retires a key and revokes tokens; the endpoint
\* may stay silent and the caller's context may never end.
SPECIFICATION FairSpec
CONSTANTS
  Calls = {r1}
  Tokens <- MixedTokens
  KeySets <- Retirement
  ClockSkew = 1
  MaxTime = 4
  NoToken = NoToken
  NoSet = NoSet
  NoAnswer = NoAnswer
INVARIANTS
  TypeOK
  AcceptedIsVerified
  RejectedForCause
  GuardedWhileCached
PROPERTY BlocksOnlyOnEndpoint
