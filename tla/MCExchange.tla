---------------------------- MODULE MCExchange ----------------------------
(***************************************************************************)
(* Instances of ExchangeService for TLC: the tokens, targets, keytabs and  *)
(* scope maps that the configurations choose from.                         *)
(***************************************************************************)
EXTENDS ExchangeService, TLC

Token(subject, expiry, readable, groups, scopes) ==
  [subject |-> subject, expiry |-> expiry, readable |-> readable,
   groups |-> groups, scopes |-> scopes]

Spn(name, realm) == [name |-> name, realm |-> realm]

\* Three tokens of one user, which differ in expiry and scope, and others.
Long   == Token("alice", 5, TRUE, {"eng", "adm"}, {"all"})
Short  == Token("alice", 3, TRUE, {"eng", "adm"}, {"read"})
NoExp  == Token("alice", ZeroTime, TRUE, {"eng"}, {"all"})
Other  == Token("bob", 4, TRUE, {"eng"}, {"read", "unknown"})
Broken == Token("bob", 4, FALSE, {}, {})

Web       == Spn("http/web", NoRealm)
WebInR    == Spn("http/web", "R")
WebInK    == Spn("http/web", "K")
FileInR   == Spn("cifs/file", "R")
KdcInR    == Spn("krbtgt/R", NoRealm)

\* The service as kerbexchanged builds it, and clients of every kind.
ServerTokens  == {Long, Short, NoExp, Other, Broken}
ServerTargets == {Web, WebInR, FileInR}
ServerKeytab  == {WebInR, Spn("krbtgt/R", "R")}

\* Several tokens of one user for one service: everything meets in the cache.
OneUserTokens  == {Long, Short}
OneTarget      == {Web}
KdcTargets     == {Web, KdcInR}

\* A program that embeds the library and gives every part its own realm.
EmbeddedKeytab == {WebInR, WebInK, Spn("krbtgt/K", "K")}

ScopeMap == [all |-> {"eng", "adm"}, read |-> {"eng"}]

RequestSymmetry == Permutations(Requests)
=============================================================================
