\* The whole server, from its flags to its answers, while keys are rotated.
SPECIFICATION KSpec
CONSTANTS
  Calls = {r1, r2}
  Tokens <- MCTokens
  KeySets <- Rotation
  ClockSkew = 0
  MaxTime = 3
  NoToken = NoToken
  NoSet = NoSet
  NoAnswer = NoAnswer
  Configs <- MCConfigs
  Claims <- MCClaims
  Questions <- MCQuestions
  Realm = "R"
  Keytab <- MCKeytab
  KDCPrincipal = "krbtgt/R"
  MaxLifetime = 2
  NoCred = NoCred
  NoReq = NoReq
INVARIANTS
  VerifiedBeforeAnswered
  MintedOnVerification
  StartedWhole
PROPERTIES
  ImplementsExchange
  ServedUnlessExited
