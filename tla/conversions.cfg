SPECIFICATION Spec
CONSTANTS
  Principals <- MCNames
  Subjects <- MCSubjects
  Outputs <- MCOutputs
  Claims <- MCClaims
  SIDs <- MCSIDs
  Lengths <- MCLengths
INVARIANTS
  NameSurvivesWire
  HitIsOwn
  ShapesAgree
  SIDFaithful
  TokenFramed
