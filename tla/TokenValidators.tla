--------------------------- MODULE TokenValidators --------------------------
(***************************************************************************)
(* JWKSValidator and IntrospectionValidator against one identity provider, *)
(* which publishes key sets and revokes tokens while validations run.  A   *)
(* JWKS validation reads the cached key set twice, in the guard and in     *)
(* jwt.Parse, and the background refresh can replace it in between; an     *)
(* introspection is a request and an answer with time in between.          *)
(*                                                                         *)
(* A key is its id and its alg field; a token names the key and algorithm  *)
(* that signed it.  accepted says whether issuer and audience are the ones *)
(* configured; notBefore stands for the later of nbf and iat, which        *)
(* jwt.Parse compares with the clock in the same way.  Every key has an    *)
(* alg field.                                                              *)
(***************************************************************************)
EXTENDS Integers

CONSTANTS
  Calls,      \* identities of the calls of Validate
  Tokens,     \* access tokens, members of Token
  KeySets,    \* key sets that the provider may publish
  ClockSkew,  \* WithClockSkew
  MaxTime,    \* bound on the clock
  NoToken,    \* a call that has not begun
  NoSet,      \* no key set fetched or used
  NoAnswer    \* no Identity, no response

VARIABLES
  now,        \* time.Now()
  published,  \* the provider's current key set
  active,     \* tokens that the provider has not revoked
  ended,      \* calls whose context has ended
  cached,     \* the set that jwk.Cache holds, NoSet before the first fetch
  jwks,       \* the JWKSValidator: "new", "ready", "failed"
  pc,         \* where each call is
  via,        \* the validator each call runs on
  tok,        \* its token
  resp,       \* the introspection endpoint's answer to it
  identity,   \* the Identity it returned
  by,         \* history: the key set that verified its token
  saw,        \* history: every key set cached while it ran
  since       \* history: when it began, and which tokens were active

world == <<now, published, active, ended>>
vars == <<world, cached, jwks, pc, via, tok, resp, identity, by, saw, since>>

Key == [kid : STRING, alg : STRING]
Token == [subject : STRING, kid : STRING, alg : STRING, expiry : Nat,
          notBefore : Nat, accepted : BOOLEAN]
Identity == [subject : STRING, expiry : Nat]
Response == [ok : BOOLEAN, active : BOOLEAN, expiry : Nat]

Running == {"guard", "parse", "asking", "answered"}
Returned == {"valid", "invalid", "error"}
ZeroTime == 0

ASSUME ValidatorsAssumption ==
  /\ Tokens \subseteq Token
  /\ \A S \in KeySets : S \subseteq Key
  /\ ClockSkew \in Nat
  /\ MaxTime \in Nat \ {0}
  /\ NoSet \notin KeySets
  /\ NoToken \notin Tokens

Init ==
  /\ now = 1
  /\ published \in KeySets
  /\ active = Tokens
  /\ ended = {}
  /\ cached = NoSet /\ jwks = "new"
  /\ pc = [r \in Calls |-> "idle"]
  /\ via = [r \in Calls |-> "none"]
  /\ tok = [r \in Calls |-> NoToken]
  /\ resp = [r \in Calls |-> NoAnswer]
  /\ identity = [r \in Calls |-> NoAnswer]
  /\ by = [r \in Calls |-> NoSet]
  /\ saw = [r \in Calls |-> {}]
  /\ since = [r \in Calls |-> [at |-> 0, active |-> {}]]

---------------------------------------------------------------------------
(***************************************************************************)
(* The identity provider, the clock and the callers.  A token that its     *)
(* provider no longer stands behind, for whatever reason, is revoked.      *)
(***************************************************************************)
Publish(S) ==
  /\ published' = S
  /\ UNCHANGED <<now, active, ended, cached, jwks, pc, via, tok, resp, identity, by, saw, since>>

Revoke(t) ==
  /\ active' = active \ {t}
  /\ UNCHANGED <<now, published, ended, cached, jwks, pc, via, tok, resp, identity, by, saw, since>>

Tick ==
  /\ now < MaxTime
  /\ now' = now + 1
  /\ UNCHANGED <<published, active, ended, cached, jwks, pc, via, tok, resp, identity, by, saw, since>>

\* A caller goes away, or its deadline passes.  jwt.Parse is not given the
\* context, so it matters in the guard and while the endpoint is asked.
ContextEnds(r) ==
  /\ pc[r] \in {"guard", "asking"}
  /\ ended' = ended \cup {r}
  /\ UNCHANGED <<now, published, active, cached, jwks, pc, via, tok, resp, identity, by, saw, since>>

\* Fault: a failed first fetch is not reported.
NewJWKSValidator_Lazy ==
  /\ jwks = "new"
  /\ jwks' = "ready"
  /\ cached' = published \/ UNCHANGED cached
  /\ UNCHANGED <<world, pc, via, tok, resp, identity, by, saw, since>>

(***************************************************************************)
(* NewJWKSValidator fetches the set once and fails if it cannot; jwk.Cache *)
(* then refreshes it in the background.  A fetch that fails later leaves   *)
(* the cached set alone, which is no step.                                 *)
(***************************************************************************)
NewJWKSValidator ==
  /\ jwks = "new"
  /\ \/ jwks' = "ready" /\ cached' = published
     \/ jwks' = "failed" /\ UNCHANGED cached
  /\ UNCHANGED <<world, pc, via, tok, resp, identity, by, saw, since>>

Refresh ==
  /\ jwks = "ready" /\ cached # published
  /\ cached' = published
  /\ saw' = [r \in Calls |-> IF pc[r] \in Running THEN saw[r] \cup {published} ELSE saw[r]]
  /\ UNCHANGED <<world, jwks, pc, via, tok, resp, identity, by, since>>

---------------------------------------------------------------------------
Go(r, from, to) == pc[r] = from /\ pc' = [pc EXCEPT ![r] = to]

\* A call of Validate begins, on one of the two validators.
Begin(r, t, v) ==
  /\ v = "jwks" => jwks = "ready"
  /\ Go(r, "idle", IF v = "jwks" THEN "guard" ELSE "asking")
  /\ via' = [via EXCEPT ![r] = v]
  /\ tok' = [tok EXCEPT ![r] = t]
  /\ saw' = [saw EXCEPT ![r] = {cached}]
  /\ since' = [since EXCEPT ![r] = [at |-> now, active |-> active]]
  /\ UNCHANGED <<world, cached, jwks, resp, identity, by>>

allowedAlgorithms == {"RS256", "ES256"}

HasAllowedKey(S) == \E k \in S : k.alg \in allowedAlgorithms

\* Fault: the guard looks at nothing.
requireAllowedKeyAlg_Open(r) ==
  /\ Go(r, "guard", "parse")
  /\ UNCHANGED <<world, cached, jwks, via, tok, resp, identity, by, saw, since>>

\* JWKSValidator.Validate, the guard.  The iteration over the keys stops when
\* the context has ended, and then no key was found.
requireAllowedKeyAlg(r) ==
  /\ \/ Go(r, "guard", IF HasAllowedKey(cached) THEN "parse" ELSE "invalid")
     \/ r \in ended /\ Go(r, "guard", "invalid")
  /\ UNCHANGED <<world, cached, jwks, via, tok, resp, identity, by, saw, since>>

(***************************************************************************)
(* jwt.Parse: the key the token names verifies it with the key's own alg;  *)
(* exp, nbf and iat are checked with the skew.                             *)
(***************************************************************************)
Verifies(S, t) == \E k \in S : k.kid = t.kid /\ k.alg = t.alg

InTime(t) ==
  /\ t.expiry = ZeroTime \/ now < t.expiry + ClockSkew
  /\ t.notBefore <= now + ClockSkew

\* Fault: without jwt.WithValidate.
Parses_NoValidate(t) == Verifies(cached, t) /\ t.accepted

Parses(t) == Verifies(cached, t) /\ InTime(t) /\ t.accepted

\* JWKSValidator.Validate, the rest.  Marshalling the claims again, which were
\* decoded a moment ago, would fail like an invalid token; it does not.
Parse(r) ==
  LET t == tok[r] IN
  /\ \/ /\ Go(r, "parse", "valid")
        /\ Parses(t)
        /\ identity' = [identity EXCEPT ![r] = [subject |-> t.subject, expiry |-> t.expiry]]
        /\ by' = [by EXCEPT ![r] = cached]
     \/ /\ Go(r, "parse", "invalid")
        /\ ~Parses(t)
        /\ UNCHANGED <<identity, by>>
  /\ UNCHANGED <<world, cached, jwks, via, tok, resp, saw, since>>

---------------------------------------------------------------------------
(***************************************************************************)
(* The endpoint answers with what it knows of the token at that moment;    *)
(* exp may be missing.  A status other than 200 and an undecodable body    *)
(* are the same: not ok.                                                   *)
(***************************************************************************)
Respond(r) ==
  /\ Go(r, "asking", "answered")
  /\ \E ok \in BOOLEAN, exp \in {tok[r].expiry, ZeroTime} :
       resp' = [resp EXCEPT ![r] = [ok |-> ok, active |-> tok[r] \in active, expiry |-> exp]]
  /\ UNCHANGED <<world, cached, jwks, via, tok, identity, by, saw, since>>

\* The transport fails: a plain error.
RequestFails(r) ==
  /\ Go(r, "asking", "error")
  /\ UNCHANGED <<world, cached, jwks, via, tok, resp, identity, by, saw, since>>

\* Fault: the request is built without the context.
ContextAborts_NoContext(r) == FALSE /\ RequestFails(r)

\* The request carries the caller's context: when that ends, so does the request.
ContextAborts(r) == r \in ended /\ RequestFails(r)

\* Fault: active is not looked at.
Outcome_Ignored(a) == IF a.ok THEN "valid" ELSE "error"

\* Fault: a failing endpoint counts as a verdict.
Outcome_Verdict(a) == IF a.ok /\ a.active THEN "valid" ELSE "invalid"

Outcome(a) == IF a.ok THEN (IF a.active THEN "valid" ELSE "invalid") ELSE "error"

\* IntrospectionValidator.Validate on an answer.
Conclude(r) ==
  LET a == resp[r] IN
  /\ Go(r, "answered", Outcome(a))
  /\ identity' = IF Outcome(a) = "valid"
       THEN [identity EXCEPT ![r] = [subject |-> tok[r].subject, expiry |-> a.expiry]]
       ELSE identity
  /\ UNCHANGED <<world, cached, jwks, via, tok, resp, by, saw, since>>

\* What a call does by itself, and what the endpoint and the network do to it.
OwnStep(r) == requireAllowedKeyAlg(r) \/ Parse(r) \/ Conclude(r) \/ ContextAborts(r)

Step(r) == OwnStep(r) \/ Respond(r) \/ RequestFails(r)

Next ==
  \/ \E S \in KeySets : Publish(S)
  \/ \E t \in Tokens : Revoke(t)
  \/ Tick \/ NewJWKSValidator \/ Refresh
  \/ \E r \in Calls, t \in Tokens, v \in {"jwks", "introspection"} : Begin(r, t, v)
  \/ \E r \in Calls : Step(r) \/ ContextEnds(r)

Spec == Init /\ [][Next]_vars

(***************************************************************************)
(* A call keeps running where it only needs the processor, and net/http    *)
(* gives up a request whose context has ended.  Nothing is assumed of the  *)
(* endpoint, which may stay silent for ever (http.DefaultClient has no     *)
(* timeout), of the network, of the caller's context, which may never end, *)
(* or of the provider, the refresh and the clock.                          *)
(***************************************************************************)
FairSpec == Spec /\ \A r \in Calls : WF_vars(OwnStep(r))

---------------------------------------------------------------------------
(***************************************************************************)
(* What is checked.                                                        *)
(***************************************************************************)

\* Types; a validator that was constructed has a key set (jwksvalidator.go).
TypeOK ==
  /\ now \in 1 .. MaxTime
  /\ published \in KeySets
  /\ active \subseteq Tokens /\ ended \subseteq Calls
  /\ cached \in KeySets \cup {NoSet} /\ (jwks = "ready" <=> cached # NoSet)
  /\ jwks \in {"new", "ready", "failed"}
  /\ pc \in [Calls -> {"idle"} \cup Running \cup Returned]
  /\ via \in [Calls -> {"none", "jwks", "introspection"}]
  /\ tok \in [Calls -> Tokens \cup {NoToken}]
  /\ resp \in [Calls -> Response \cup {NoAnswer}]
  /\ identity \in [Calls -> Identity \cup {NoAnswer}]
  /\ by \in [Calls -> KeySets \cup {NoSet}]
  /\ saw \in [Calls -> SUBSET (KeySets \cup {NoSet})]
  /\ since \in [Calls -> [at : 0 .. MaxTime, active : SUBSET Tokens]]

(***************************************************************************)
(* An accepted token was good while it was being validated: with a JWKS,   *)
(* some set that was cached during the call verifies it, it had not        *)
(* expired (with the skew) when the call began and its issuer and audience *)
(* are right; by introspection, it was active when the call began.  The    *)
(* Identity is the token's, and its expiry is never later than the token's *)
(* (jwksvalidator.go, introspection.go).                                   *)
(***************************************************************************)
AcceptedIsVerified ==
  \A r \in Calls : pc[r] = "valid" =>
    /\ via[r] = "jwks" =>
         /\ \E S \in saw[r] : Verifies(S, tok[r])
         /\ tok[r].expiry # ZeroTime => since[r].at < tok[r].expiry + ClockSkew
         /\ tok[r].accepted
    /\ via[r] = "introspection" => tok[r] \in since[r].active
    /\ identity[r].subject = tok[r].subject
    /\ identity[r].expiry \in {tok[r].expiry, ZeroTime}

(***************************************************************************)
(* ErrTokenInvalid is returned for a cause: with a JWKS, issuer, audience  *)
(* or time are wrong, or a set cached during the call has no allowed key   *)
(* or does not verify the token, or the caller went away during the guard; *)
(* by introspection, the provider has revoked the token - an endpoint that *)
(* fails is no such cause, "those conditions indicate a server or network  *)
(* failure" (introspection.go).                                            *)
(***************************************************************************)
RejectedForCause ==
  \A r \in Calls : pc[r] = "invalid" =>
    /\ via[r] = "jwks" =>
         \/ ~tok[r].accepted \/ r \in ended
         \/ tok[r].expiry # ZeroTime /\ now >= tok[r].expiry + ClockSkew
         \/ tok[r].notBefore > since[r].at + ClockSkew
         \/ \E S \in saw[r] : ~HasAllowedKey(S) \/ ~Verifies(S, tok[r])
    /\ via[r] = "introspection" => tok[r] \notin active

(***************************************************************************)
(* How far the guard reaches.  A refresh can replace the set it looked at  *)
(* before jwt.Parse reads it (see GuardHolds), and that is all: the set    *)
(* that verified an accepted token was cached during the call, and so was  *)
(* one with an allowed key.  Without a refresh the two are the same set    *)
(* (jwksvalidator.go, Validate).                                           *)
(***************************************************************************)
GuardedWhileCached ==
  \A r \in Calls : pc[r] = "valid" /\ via[r] = "jwks" =>
    /\ by[r] \in saw[r] /\ Verifies(by[r], tok[r])
    /\ \E S \in saw[r] : HasAllowedKey(S)

(***************************************************************************)
(* A call of Validate returns, or it is stuck for ever in one place: its   *)
(* introspection request is unanswered and its context has not ended.  In  *)
(* particular a JWKS validation always returns, and so does an             *)
(* introspection whose caller sets a deadline, however silent the endpoint *)
(* (jwksvalidator.go, introspection.go).                                   *)
(***************************************************************************)
BlocksOnlyOnEndpoint ==
  \A r \in Calls : pc[r] \in Running ~>
    \/ pc[r] \in Returned
    \/ [](pc[r] = "asking" /\ r \notin ended)

(***************************************************************************)
(* jwksvalidator.go, on the guard: "It runs before jwt.Parse so that a     *)
(* misconfigured key set never leads to a successful verification via an   *)
(* unapproved algorithm."  A set without an allowed key verifies nothing.  *)
(***************************************************************************)
GuardHolds ==
  \A r \in Calls : pc[r] = "valid" /\ via[r] = "jwks" => HasAllowedKey(by[r])
=============================================================================
