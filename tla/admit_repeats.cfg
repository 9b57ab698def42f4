\* Admit on claims that repeat a group.
SPECIFICATION Spec
CONSTANTS
  MaxGroups = 4
  MaxScopes = 2
  GroupLists <- GroupSeqs
  ScopeLists <- ScopeSeqs
  WithFilter = TRUE
  ScopeGroups <- ScopeMap
  FNV32a <- Hashes
  GroupOverrides <- Overrides
  PrimaryRID = 513
INVARIANT AdmittedOnce
