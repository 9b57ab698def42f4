---------------------------- MODULE MCValidators ----------------------------
(***************************************************************************)
(* Instances of TokenValidators: a provider that rotates its key, adds an  *)
(* unapproved one beside it or publishes nothing else.                     *)
(***************************************************************************)
EXTENDS TokenValidators

KeyOf(kid, alg) == [kid |-> kid, alg |-> alg]
Old   == KeyOf("old", "RS256")
New   == KeyOf("new", "ES256")
Other == KeyOf("other", "EdDSA")

TokenOf(k, expiry, notBefore, accepted) ==
  [subject |-> "alice", kid |-> k.kid, alg |-> k.alg, expiry |-> expiry,
   notBefore |-> notBefore, accepted |-> accepted]

\* A key gives way to another, which may be one that nothing approves.
Rotation == {{Old}, {New, Other}, {Other}}
Retirement == {{New}, {Other}}

\* One that is good for a while only, one for another audience, one that an
\* unapproved key signed.
MixedTokens ==
  {TokenOf(New, 3, 3, TRUE), TokenOf(New, ZeroTime, 0, FALSE), TokenOf(Other, 3, 0, TRUE)}

OtherTokens == {TokenOf(Other, 3, 0, TRUE), TokenOf(Old, 3, 0, TRUE)}
=============================================================================
