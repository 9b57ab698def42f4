\* The key set is refreshed between the guard and the parse.
SPECIFICATION Spec
CONSTANTS
  Calls = {r1}
  Tokens <- OtherTokens
  KeySets <- Rotation
  ClockSkew = 1
  MaxTime = 3
  NoToken = NoToken
  NoSet = NoSet
  NoAnswer = NoAnswer
INVARIANT GuardHolds
