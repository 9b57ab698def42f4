---------------------------- MODULE MCPacGroups ----------------------------
(***************************************************************************)
(* Instances of PacGroups: every list of up to MaxGroups of four groups,   *)
(* and of up to MaxScopes of three scopes.                                 *)
(***************************************************************************)
EXTENDS PacGroups, SequencesExt

CONSTANTS MaxGroups, MaxScopes

\* eng and adm hash to the same RID; ops is overridden to the primary RID.
Names  == {"eng", "adm", "ops", "web"}
Hashes == [eng |-> 7, adm |-> 7 + ridSynthSpace, ops |-> 9, web |-> 2000000000]
Overrides == [ops |-> 513]

GroupSeqs == BoundedSeq(Names, MaxGroups)
ScopeSeqs == BoundedSeq({"read", "admin", "unknown"}, MaxScopes)

ScopeMap == [read |-> {"eng", "web"}, admin |-> {"eng", "adm", "ops", "hidden"}]
=============================================================================
