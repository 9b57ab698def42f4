\* A PAC builder with a scope filter.
SPECIFICATION Spec
CONSTANTS
  MaxGroups = 4
  MaxScopes = 2
  GroupLists <- GroupSeqs
  ScopeLists <- ScopeSeqs
  WithFilter = TRUE
  ScopeGroups <- ScopeMap
  FNV32a <- Hashes
  GroupOverrides <- Overrides
  PrimaryRID = 513
INVARIANTS
  TypeOK
  ListsExactlyAdmitted
  RidsListedOnce
  OrderPreserved
