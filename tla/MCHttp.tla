------------------------------- MODULE MCHttp -------------------------------
(***************************************************************************)
(* Instances of HttpExchange: two users, one service, two ticks a second.  *)
(***************************************************************************)
EXTENDS HttpExchange, TLC

Token(subject, expiry) ==
  [subject |-> subject, expiry |-> expiry, readable |-> TRUE, groups |-> {}, scopes |-> {}]

Alice == Token("alice", 4)
Bob   == Token("bob", 7)
Web   == [name |-> "http/web", realm |-> ""]

HttpTokens  == {Alice, Bob}
HttpTargets == {Web}
HttpKeytab  == {[name |-> "http/web", realm |-> "R"], [name |-> "krbtgt/R", realm |-> "R"]}

Args(token, target, output) == [token |-> token, target |-> target, output |-> output]

ClientCalls ==
  { Args(Alice, Web, "ccache"), Args(Alice, Web, "apreq"), Args(Bob, Web, "ccache"),
    Args(Alice, Web, "other"),  \* an OutputType outside the two constants
    Args(Alice, Malformed, "ccache"), Args(NoToken, Web, "apreq") }

FormOf(grant, token, rtype, resource, audience) ==
  [parses |-> TRUE, grant |-> grant, token |-> token, rtype |-> rtype,
   resource |-> resource, audience |-> audience]

OtherForms ==
  { FormOf(TRUE, Alice, "", <<NoName, Web>>, <<>>),
    FormOf(TRUE, Bob, "apreq", <<>>, <<Web>>),
    FormOf(TRUE, Bob, "apreq", <<NoName>>, <<>>),
    FormOf(TRUE, Bob, "unknown", <<>>, <<>>),
    FormOf(FALSE, Bob, "ccache", <<Web>>, <<>>),
    [FormOf(TRUE, Bob, "ccache", <<>>, <<>>) EXCEPT !.parses = FALSE] }

\* For the endpoint of a program that gives every part its own realm, or none:
\* tokens that end soon or never, a target with and one without its realm, and
\* a request that is rejected.
Soon        == Token("alice", 2)
Endless     == Token("bob", ZeroTime)
WebInR      == [name |-> "http/web", realm |-> "R"]
OwnTokens   == {Soon, Endless}
OwnTargets  == {Web, WebInR}
OwnKeytab   == {WebInR, [name |-> "http/web", realm |-> "K"], [name |-> "krbtgt/K", realm |-> "K"]}
OwnForms    == {FormOf(TRUE, Endless, "", <<>>, <<Web>>)}
OwnCalls    ==
  {Args(Soon, Web, "apreq"), Args(Soon, Malformed, "ccache"), Args(Soon, WebInR, "apreq")}

RequestSymmetry == Permutations(Requests)
=============================================================================
