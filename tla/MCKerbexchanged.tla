-------------------------- MODULE MCKerbexchanged --------------------------
(***************************************************************************)
(* An instance of Kerbexchanged: one user with a token of the old and one  *)
(* of the new key, a provider that rotates its key back and forth, and     *)
(* command lines that fail at every stage.                                 *)
(***************************************************************************)
EXTENDS Kerbexchanged

Old == [kid |-> "old", alg |-> "RS256"]
New == [kid |-> "new", alg |-> "ES256"]
Rotation == {{Old}, {New}}

TokenOf(k, expiry) ==
  [subject |-> "alice", kid |-> k.kid, alg |-> k.alg, expiry |-> expiry,
   notBefore |-> 0, accepted |-> TRUE]
MCTokens == {TokenOf(Old, 3), TokenOf(New, 2)}
MCClaims == [t \in MCTokens |-> [readable |-> TRUE, groups |-> {"eng"}]]

Spn(name, realm) == [name |-> name, realm |-> realm]
MCQuestions == {[target |-> Spn("http/web", ""), output |-> "apreq"]}
MCKeytab == {Spn("http/web", "R"), Spn("krbtgt/R", "R")}

Good == [flags |-> RequiredFlags, keytabLoads |-> TRUE,
         sid |-> <<LetterS, 1, 5, 21, 1, 2, 3>>]
MCConfigs ==
  {Good, [Good EXCEPT !.keytabLoads = FALSE], [Good EXCEPT !.sid = <<LetterS, 1, 5>>]}
    \cup {[Good EXCEPT !.flags = RequiredFlags \ {f}] : f \in RequiredFlags}
=============================================================================
