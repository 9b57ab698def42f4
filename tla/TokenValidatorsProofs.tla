----------------------- MODULE TokenValidatorsProofs -----------------------
(***************************************************************************)
(* Proofs about TokenValidators, for any tokens, key sets, skew and number *)
(* of concurrent validations, however often the provider publishes, the    *)
(* cache is refreshed and tokens are revoked.                              *)
(***************************************************************************)
EXTENDS TokenValidators, TLAPS

OnJwks == {"guard", "parse"}
OnEndpoint == {"asking", "answered", "error"}

(***************************************************************************)
(* The inductive invariant.  Began: what a call knows from its start, and  *)
(* that the set it will read next is among those it saw.  Heard: an answer *)
(* was true when it was given, and revocation is for ever.                 *)
(***************************************************************************)
Began(r) ==
  pc[r] # "idle" =>
    /\ tok[r] \in Tokens /\ via[r] \in {"jwks", "introspection"}
    /\ since[r].at <= now /\ active \subseteq since[r].active
    /\ pc[r] \in OnJwks => via[r] = "jwks" /\ jwks = "ready" /\ cached \in saw[r]
    /\ pc[r] \in OnEndpoint => via[r] = "introspection"

Guarded(r) ==
  /\ pc[r] = "parse" => \E S \in saw[r] : HasAllowedKey(S)
  /\ pc[r] = "valid" /\ via[r] = "jwks" =>
       /\ by[r] \in saw[r] /\ Verifies(by[r], tok[r])
       /\ \E S \in saw[r] : HasAllowedKey(S)

Heard(r) ==
  pc[r] = "answered" =>
    /\ resp[r] \in Response
    /\ resp[r].active => tok[r] \in since[r].active
    /\ ~resp[r].active => tok[r] \notin active
    /\ resp[r].expiry \in {tok[r].expiry, ZeroTime}

Accepted(r) ==
  pc[r] = "valid" =>
    /\ via[r] = "jwks" =>
         /\ \E S \in saw[r] : Verifies(S, tok[r])
         /\ tok[r].expiry # ZeroTime => since[r].at < tok[r].expiry + ClockSkew
         /\ tok[r].accepted
    /\ via[r] = "introspection" => tok[r] \in since[r].active
    /\ identity[r].subject = tok[r].subject
    /\ identity[r].expiry \in {tok[r].expiry, ZeroTime}

Rejected(r) ==
  pc[r] = "invalid" =>
    /\ via[r] = "jwks" =>
         \/ ~tok[r].accepted \/ r \in ended
         \/ tok[r].expiry # ZeroTime /\ now >= tok[r].expiry + ClockSkew
         \/ tok[r].notBefore > since[r].at + ClockSkew
         \/ \E S \in saw[r] : ~HasAllowedKey(S) \/ ~Verifies(S, tok[r])
    /\ via[r] = "introspection" => tok[r] \notin active

CallInv(r) == Began(r) /\ Guarded(r) /\ Heard(r) /\ Accepted(r) /\ Rejected(r)

VInv == TypeOK /\ \A r \in Calls : CallInv(r)

---------------------------------------------------------------------------
\* The fields of a token and of a call's history have their types.
LEMMA Fields ==
  ASSUME TypeOK, NEW r \in Calls
  PROVE  /\ since[r].at \in Nat /\ since[r].active \subseteq Tokens
         /\ now \in Nat /\ ClockSkew \in Nat
         /\ \A t \in Tokens : /\ t.expiry \in Nat /\ t.notBefore \in Nat
                              /\ t.subject \in STRING
  BY ValidatorsAssumption DEF TypeOK, Token

LEMMA InitVInv == Init => VInv
  <1> SUFFICES ASSUME Init PROVE VInv
    OBVIOUS
  <1>1. TypeOK
    BY ValidatorsAssumption DEF Init, TypeOK, Running, Returned
  <1>2. \A r \in Calls : CallInv(r)
    BY DEF Init, CallInv, Began, Guarded, Heard, Accepted, Rejected
  <1> QED BY <1>1, <1>2 DEF VInv

\* The types are kept.
LEMMA NextTypeOK == VInv /\ [Next]_vars => TypeOK'
  <1> SUFFICES ASSUME VInv, [Next]_vars PROVE TypeOK'
    OBVIOUS
  <1> USE DEF VInv
  <1>1. ASSUME NEW S \in KeySets, Publish(S) PROVE TypeOK'
    BY <1>1 DEF Publish, TypeOK
  <1>2. ASSUME NEW t \in Tokens, Revoke(t) PROVE TypeOK'
    BY <1>2 DEF Revoke, TypeOK
  <1>3. ASSUME Tick PROVE TypeOK'
    BY <1>3, ValidatorsAssumption DEF Tick, TypeOK
  <1>4. ASSUME NewJWKSValidator PROVE TypeOK'
    BY <1>4, ValidatorsAssumption DEF NewJWKSValidator, TypeOK, world
  <1>5. ASSUME Refresh PROVE TypeOK'
    <2>1. saw' \in [Calls -> SUBSET (KeySets \cup {NoSet})]
      BY <1>5 DEF Refresh, TypeOK
    <2> QED BY <1>5, <2>1, ValidatorsAssumption DEF Refresh, TypeOK, world
  <1>6. ASSUME NEW r \in Calls, NEW t \in Tokens, NEW v \in {"jwks", "introspection"},
               Begin(r, t, v)
        PROVE  TypeOK'
    <2>1. now \in 0 .. MaxTime
      BY ValidatorsAssumption DEF TypeOK
    <2>2. [at |-> now, active |-> active] \in [at : 0 .. MaxTime, active : SUBSET Tokens]
      BY <2>1 DEF TypeOK
    <2>3. since' \in [Calls -> [at : 0 .. MaxTime, active : SUBSET Tokens]]
      BY <1>6, <2>2 DEF Begin, TypeOK
    <2>4. pc' \in [Calls -> {"idle"} \cup Running \cup Returned]
      BY <1>6 DEF Begin, Go, TypeOK, Running
    <2> QED BY <1>6, <2>3, <2>4 DEF Begin, TypeOK, world
  <1>7. ASSUME NEW r \in Calls, Step(r) PROVE TypeOK'
    <2>1. CASE requireAllowedKeyAlg(r) \/ RequestFails(r)
      BY <2>1 DEF requireAllowedKeyAlg, RequestFails, Go, TypeOK, Running, Returned, world
    <2>2. CASE Parse(r)
      <3>1. tok[r] \in Tokens /\ cached \in KeySets \cup {NoSet}
        BY <2>2 DEF Parse, Go, CallInv, Began, TypeOK
      <3>2. [subject |-> tok[r].subject, expiry |-> tok[r].expiry] \in Identity
        BY <3>1, Fields DEF Identity
      <3>3. identity' \in [Calls -> Identity \cup {NoAnswer}]
        BY <2>2, <3>2 DEF Parse, TypeOK
      <3>4. by' \in [Calls -> KeySets \cup {NoSet}]
        BY <2>2, <3>1 DEF Parse, TypeOK
      <3>5. pc' \in [Calls -> {"idle"} \cup Running \cup Returned]
        BY <2>2 DEF Parse, Go, TypeOK, Returned
      <3> QED BY <2>2, <3>3, <3>4, <3>5 DEF Parse, TypeOK, world
    <2>3. CASE Respond(r)
      <3>1. tok[r] \in Tokens
        BY <2>3 DEF Respond, Go, CallInv, Began
      <3>2. \A ok \in BOOLEAN, exp \in {tok[r].expiry, ZeroTime} :
              [ok |-> ok, active |-> tok[r] \in active, expiry |-> exp] \in Response
        <4>1. tok[r].expiry \in Nat /\ ZeroTime \in Nat
          BY <3>1, Fields DEF ZeroTime
        <4>2. \A ok, b \in BOOLEAN, exp \in Nat : [ok |-> ok, active |-> b, expiry |-> exp] \in Response
          BY DEF Response
        <4>3. (tok[r] \in active) \in BOOLEAN
          OBVIOUS
        <4> QED BY <4>1, <4>2, <4>3, Zenon
      <3>3. resp' \in [Calls -> Response \cup {NoAnswer}]
        <4>1. PICK a \in Response : resp' = [resp EXCEPT ![r] = a]
          BY <2>3, <3>2, Zenon DEF Respond
        <4> QED BY <4>1 DEF TypeOK
      <3> QED BY <2>3, <3>3 DEF Respond, Go, TypeOK, Running, world
    <2>4. CASE Conclude(r)
      <3>1. tok[r] \in Tokens /\ resp[r] \in Response
        BY <2>4 DEF Conclude, Go, CallInv, Began, Heard
      <3>2. [subject |-> tok[r].subject, expiry |-> resp[r].expiry] \in Identity
        BY <3>1, Fields DEF Identity, Response
      <3>3. identity' \in [Calls -> Identity \cup {NoAnswer}]
        BY <2>4, <3>2 DEF Conclude, TypeOK
      <3> QED BY <2>4, <3>3 DEF Conclude, Outcome, Go, TypeOK, Returned, world
    <2> QED BY <1>7, <2>1, <2>2, <2>3, <2>4 DEF Step, OwnStep, ContextAborts
  <1>8. ASSUME NEW r \in Calls, ContextEnds(r) PROVE TypeOK'
    BY <1>8 DEF ContextEnds, TypeOK
  <1>9. ASSUME UNCHANGED vars PROVE TypeOK'
    BY <1>9 DEF TypeOK, vars, world
  <1> QED BY <1>1, <1>2, <1>3, <1>4, <1>5, <1>6, <1>7, <1>8, <1>9 DEF Next

---------------------------------------------------------------------------
(***************************************************************************)
(* The world moves on: a call that takes no step keeps its invariant when  *)
(* time passes, tokens are revoked and the cached set is replaced by one   *)
(* that the call is told of.                                               *)
(***************************************************************************)
LEMMA WorldMoves ==
  ASSUME NEW r \in Calls, TypeOK, TypeOK', CallInv(r),
         /\ pc'[r] = pc[r] /\ via'[r] = via[r] /\ tok'[r] = tok[r] /\ resp'[r] = resp[r]
         /\ identity'[r] = identity[r] /\ since'[r] = since[r] /\ by'[r] = by[r],
         now' >= now, active' \subseteq active, ended \subseteq ended', saw[r] \subseteq saw'[r],
         pc[r] \in OnJwks /\ jwks = "ready" =>
           jwks' = "ready" /\ (cached' = cached \/ cached' \in saw'[r])
  PROVE  CallInv(r)'
  <1>1. now \in Nat /\ now' \in Nat /\ since[r].at \in Nat /\ ClockSkew \in Nat
    BY Fields, ValidatorsAssumption DEF TypeOK
  <1>2. \A t \in Tokens : t.expiry \in Nat
    BY Fields
  <1>3. Began(r)'
    BY <1>1 DEF CallInv, Began
  <1>4. Heard(r)'
    BY DEF CallInv, Heard
  <1>5. Accepted(r)'
    BY DEF CallInv, Accepted
  <1>6. Rejected(r)'
    <2> SUFFICES ASSUME pc[r] = "invalid" PROVE Rejected(r)'
      BY DEF Rejected
    <2>1. tok[r] \in Tokens
      BY DEF CallInv, Began
    <2>2. now >= tok[r].expiry + ClockSkew => now' >= tok[r].expiry + ClockSkew
      BY <1>1, <1>2, <2>1
    <2> QED BY <2>2 DEF CallInv, Rejected
  <1>7. Guarded(r)'
    BY DEF CallInv, Guarded
  <1> QED BY <1>3, <1>4, <1>5, <1>6, <1>7 DEF CallInv

\* The step of the guard: a set without an allowed key is a cause.
LEMMA GuardKeeps ==
  ASSUME NEW r \in Calls, VInv, requireAllowedKeyAlg(r) PROVE CallInv(r)'
  <1>1. /\ pc[r] = "guard"
        /\ \/ pc'[r] = IF HasAllowedKey(cached) THEN "parse" ELSE "invalid"
           \/ r \in ended /\ pc'[r] = "invalid"
        /\ ended' = ended
        /\ UNCHANGED <<now, active, cached, jwks, via, tok, saw, since>>
    BY DEF requireAllowedKeyAlg, Go, VInv, TypeOK, world
  <1>2. Began(r)
    BY DEF VInv, CallInv
  <1> QED
    BY <1>1, <1>2 DEF CallInv, Began, Guarded, Heard, Accepted, Rejected, OnJwks, OnEndpoint

\* The parse: what it accepts verifies, and what it rejects has a cause.
LEMMA ParseKeeps ==
  ASSUME NEW r \in Calls, VInv, Parse(r) PROVE CallInv(r)'
  <1>1. /\ pc[r] = "parse" /\ UNCHANGED <<now, active, cached, jwks, via, tok, saw, since>>
        /\ \/ /\ pc'[r] = "valid" /\ Parses(tok[r])
              /\ identity'[r] = [subject |-> tok[r].subject, expiry |-> tok[r].expiry]
              /\ by'[r] = cached
           \/ pc'[r] = "invalid" /\ ~Parses(tok[r])
    BY DEF Parse, Go, VInv, TypeOK, world
  <1>2. /\ tok[r] \in Tokens /\ via[r] = "jwks" /\ cached \in saw[r]
        /\ since[r].at <= now /\ active \subseteq since[r].active
        /\ \E S \in saw[r] : HasAllowedKey(S)
    BY <1>1 DEF VInv, CallInv, Began, Guarded, OnJwks
  <1>3. /\ now \in Nat /\ since[r].at \in Nat /\ ClockSkew \in Nat
        /\ tok[r].expiry \in Nat /\ tok[r].notBefore \in Nat
    BY <1>2, Fields DEF VInv
  <1>4. Began(r)' /\ Heard(r)'
    BY <1>1, <1>2 DEF Began, Heard, OnJwks, OnEndpoint
  <1>5. CASE pc'[r] = "valid"
    <2>1. /\ Verifies(cached, tok[r]) /\ tok[r].accepted
          /\ tok[r].expiry # ZeroTime => now < tok[r].expiry + ClockSkew
      BY <1>1, <1>5 DEF Parses, InTime
    <2>2. tok[r].expiry # ZeroTime => since[r].at < tok[r].expiry + ClockSkew
      BY <1>2, <1>3, <2>1
    <2> QED BY <1>1, <1>2, <1>4, <1>5, <2>1, <2>2 DEF CallInv, Guarded, Accepted, Rejected
  <1>6. CASE pc'[r] = "invalid"
    <2>1. \/ ~Verifies(cached, tok[r]) \/ ~tok[r].accepted
          \/ tok[r].expiry # ZeroTime /\ ~(now < tok[r].expiry + ClockSkew)
          \/ ~(tok[r].notBefore <= now + ClockSkew)
      BY <1>1, <1>6 DEF Parses, InTime
    <2>2. \/ ~Verifies(cached, tok[r]) \/ ~tok[r].accepted
          \/ tok[r].expiry # ZeroTime /\ now >= tok[r].expiry + ClockSkew
          \/ tok[r].notBefore > since[r].at + ClockSkew
      BY <1>2, <1>3, <2>1
    <2> QED BY <1>1, <1>2, <1>4, <1>6, <2>2 DEF CallInv, Guarded, Accepted, Rejected
  <1> QED BY <1>1, <1>5, <1>6

\* The endpoint speaks the truth of the moment.
LEMMA RespondKeeps ==
  ASSUME NEW r \in Calls, VInv, Respond(r) PROVE CallInv(r)'
  <1>1. /\ pc[r] = "asking" /\ pc'[r] = "answered"
        /\ UNCHANGED <<now, active, cached, jwks, via, tok, saw, since>>
    BY DEF Respond, Go, VInv, TypeOK, world
  <1>2. PICK ok \in BOOLEAN, exp \in {tok[r].expiry, ZeroTime} :
          resp'[r] = [ok |-> ok, active |-> tok[r] \in active, expiry |-> exp]
    <2>1. ASSUME NEW a, resp' = [resp EXCEPT ![r] = a] PROVE resp'[r] = a
      BY <2>1 DEF VInv, TypeOK
    <2> QED BY <2>1, Zenon DEF Respond
  <1>3. Began(r) /\ Began(r)'
    BY <1>1 DEF VInv, CallInv, Began, OnJwks, OnEndpoint
  <1>4. (resp'[r].active <=> tok[r] \in active) /\ resp'[r].expiry \in {tok[r].expiry, ZeroTime}
    <2>1. PICK b \in BOOLEAN : b = (tok[r] \in active)
      <3>1. (tok[r] \in active) \in BOOLEAN
        OBVIOUS
      <3> QED BY <3>1, Zenon
    <2>2. resp'[r] = [ok |-> ok, active |-> b, expiry |-> exp]
      BY <1>2, <2>1, Zenon
    <2>3. resp'[r].active = b /\ resp'[r].expiry = exp
      BY <2>2
    <2>4. resp'[r].active <=> tok[r] \in active
      BY <2>1, <2>3, Zenon
    <2> QED BY <2>3, <2>4, Zenon
  <1>5. active \subseteq since[r].active
    BY <1>1, <1>3 DEF Began
  <1>6. resp'[r] \in Response
    <2>1. tok[r].expiry \in Nat /\ ZeroTime \in Nat
      BY <1>1, <1>3, Fields DEF Began, VInv, ZeroTime
    <2>2. \A o, b \in BOOLEAN, e \in Nat : [ok |-> o, active |-> b, expiry |-> e] \in Response
      BY DEF Response
    <2>3. (tok[r] \in active) \in BOOLEAN
      OBVIOUS
    <2> QED BY <1>2, <2>1, <2>2, <2>3, Zenon
  <1>7. Heard(r)'
    BY <1>1, <1>4, <1>5, <1>6 DEF Heard
  <1> QED BY <1>1, <1>3, <1>7 DEF CallInv, Guarded, Accepted, Rejected

\* The answer is taken as it was given.
LEMMA ConcludeKeeps ==
  ASSUME NEW r \in Calls, VInv, Conclude(r) PROVE CallInv(r)'
  <1>1. /\ pc[r] = "answered" /\ pc'[r] = Outcome(resp[r])
        /\ UNCHANGED <<now, active, cached, jwks, via, tok, saw, since>>
        /\ Outcome(resp[r]) = "valid" =>
             identity'[r] = [subject |-> tok[r].subject, expiry |-> resp[r].expiry]
    BY DEF Conclude, Go, VInv, TypeOK, world
  <1>2. Began(r) /\ Heard(r)
    BY DEF VInv, CallInv
  <1>3. /\ Outcome(resp[r]) \in Returned
        /\ Outcome(resp[r]) = "valid" => resp[r].active
        /\ Outcome(resp[r]) = "invalid" => ~resp[r].active
    BY DEF Outcome, Returned
  <1> QED
    BY <1>1, <1>2, <1>3
    DEF CallInv, Began, Guarded, Heard, Accepted, Rejected, OnJwks, OnEndpoint, Returned

\* A call that fails in transport has no verdict.
LEMMA FailKeeps ==
  ASSUME NEW r \in Calls, VInv, RequestFails(r) PROVE CallInv(r)'
  <1>1. /\ pc[r] = "asking" /\ pc'[r] = "error"
        /\ UNCHANGED <<now, active, cached, jwks, via, tok, saw, since>>
    BY DEF RequestFails, Go, VInv, TypeOK, world
  <1> QED
    BY <1>1 DEF VInv, CallInv, Began, Guarded, Heard, Accepted, Rejected, OnJwks, OnEndpoint

\* The beginning of a call sets up what it will be judged by.
LEMMA BeginKeeps ==
  ASSUME NEW r \in Calls, NEW t \in Tokens, NEW v \in {"jwks", "introspection"}, VInv,
         Begin(r, t, v)
  PROVE  CallInv(r)'
  <1>1. /\ pc'[r] = IF v = "jwks" THEN "guard" ELSE "asking"
        /\ via'[r] = v /\ tok'[r] = t /\ saw'[r] = {cached} /\ (v = "jwks" => jwks = "ready")
        /\ UNCHANGED <<now, active, cached, jwks>>
    BY DEF Begin, Go, VInv, TypeOK, world
  <1>2. since'[r] = [at |-> now, active |-> active]
    BY DEF Begin, VInv, TypeOK
  <1>3. now \in Nat
    BY Fields DEF VInv
  <1> QED
    BY <1>1, <1>2, <1>3
    DEF CallInv, Began, Guarded, Heard, Accepted, Rejected, OnJwks, OnEndpoint

\* A step of one call does not touch another.
LEMMA OtherCalls ==
  ASSUME NEW s \in Calls, NEW r \in Calls, r # s, VInv, TypeOK',
         \/ Step(s)
         \/ \E t \in Tokens, v \in {"jwks", "introspection"} : Begin(s, t, v)
  PROVE  CallInv(r)'
  <1> DEFINE Untouched ==
        /\ pc'[r] = pc[r] /\ via'[r] = via[r] /\ tok'[r] = tok[r] /\ resp'[r] = resp[r]
        /\ identity'[r] = identity[r] /\ since'[r] = since[r] /\ saw'[r] = saw[r] /\ by'[r] = by[r]
        /\ UNCHANGED <<now, active, ended, cached, jwks>>
  <1>1. Untouched
    <2> USE DEF VInv, TypeOK, Go, world
    <2>1. CASE requireAllowedKeyAlg(s) \/ RequestFails(s)
      BY <2>1 DEF requireAllowedKeyAlg, RequestFails
    <2>2. CASE Parse(s)
      BY <2>2 DEF Parse
    <2>3. CASE Respond(s)
      BY <2>3 DEF Respond
    <2>4. CASE Conclude(s)
      BY <2>4 DEF Conclude
    <2>5. ASSUME NEW t \in Tokens, NEW v \in {"jwks", "introspection"}, Begin(s, t, v)
          PROVE  Untouched
      BY <2>5 DEF Begin
    <2> QED BY <2>1, <2>2, <2>3, <2>4, <2>5 DEF Step, OwnStep, ContextAborts
  <1>2. now' >= now
    BY <1>1, Fields DEF VInv
  <1> QED BY <1>1, <1>2, WorldMoves DEF VInv

LEMMA NextVInv == VInv /\ [Next]_vars => VInv'
  <1> SUFFICES ASSUME VInv, [Next]_vars, NEW r \in Calls PROVE CallInv(r)'
    BY NextTypeOK DEF VInv
  <1>t. TypeOK /\ TypeOK' /\ CallInv(r)
    BY NextTypeOK DEF VInv
  <1>n. now \in Nat
    BY <1>t, Fields
  <1>1. CASE (\E S \in KeySets : Publish(S)) \/ (\E t \in Tokens : Revoke(t)) \/ Tick
              \/ NewJWKSValidator \/ (\E s \in Calls : ContextEnds(s)) \/ UNCHANGED vars
    <2>1. /\ UNCHANGED <<pc, via, tok, resp, identity, by, since, saw>>
          /\ now' >= now /\ active' \subseteq active /\ ended \subseteq ended'
      BY <1>1, <1>n DEF Publish, Revoke, Tick, ContextEnds, NewJWKSValidator, vars, world
    <2>2. jwks = "ready" => jwks' = "ready" /\ cached' = cached
      BY <1>1 DEF Publish, Revoke, Tick, ContextEnds, NewJWKSValidator, vars
    <2> QED BY <1>t, <2>1, <2>2, WorldMoves
  <1>2. CASE Refresh
    <2>1. /\ UNCHANGED <<now, active, ended, jwks, pc, via, tok, resp, identity, by, since>>
          /\ cached' = published
      BY <1>2 DEF Refresh, world
    <2>2. saw[r] \subseteq saw'[r] /\ (pc[r] \in OnJwks => published \in saw'[r])
      BY <1>2 DEF Refresh, OnJwks, Running
    <2> QED BY <1>t, <1>n, <2>1, <2>2, WorldMoves
  <1>3. ASSUME NEW s \in Calls, NEW t \in Tokens, NEW v \in {"jwks", "introspection"},
               Begin(s, t, v)
        PROVE  CallInv(r)'
    BY <1>t, <1>3, BeginKeeps, OtherCalls, Zenon
  <1>4. ASSUME NEW s \in Calls, Step(s) PROVE CallInv(r)'
    <2>1. CASE s = r
      BY <1>4, <2>1, GuardKeeps, ParseKeeps, RespondKeeps, FailKeeps, ConcludeKeeps, Zenon
      DEF Step, OwnStep, ContextAborts
    <2>2. CASE s # r
      BY <1>t, <1>4, <2>2, OtherCalls, Zenon
    <2> QED BY <2>1, <2>2
  <1> QED BY <1>1, <1>2, <1>3, <1>4, Zenon DEF Next

---------------------------------------------------------------------------
(***************************************************************************)
(* VInv holds in every state, so whatever a running call reads next is one *)
(* of the key sets it has seen, and whatever the endpoint told it was true *)
(* then (jwksvalidator.go, introspection.go).                              *)
(***************************************************************************)
THEOREM VInvariance == Spec => []VInv
  BY InitVInv, NextVInv, PTL DEF Spec

\* The variables keep their types, and a JWKSValidator that was constructed
\* has a key set (NewJWKSValidator).
THEOREM TypeCorrect == Spec => []TypeOK
  <1>1. VInv => TypeOK
    BY DEF VInv
  <1> QED BY <1>1, VInvariance, PTL

\* A token is accepted only if a key set cached during the call verifies it,
\* or if it was active when the call began (the Validate methods).
THEOREM Accepting == Spec => []AcceptedIsVerified
  <1>1. VInv => AcceptedIsVerified
    BY DEF VInv, CallInv, Accepted, AcceptedIsVerified
  <1> QED BY <1>1, VInvariance, PTL

\* A token is rejected as invalid only for a cause in the token, in a key set
\* cached during the call or in a revocation (the Validate methods).
THEOREM Rejecting == Spec => []RejectedForCause
  <1>1. VInv => RejectedForCause
    BY DEF VInv, CallInv, Rejected, RejectedForCause
  <1> QED BY <1>1, VInvariance, PTL

(***************************************************************************)
(* However often the key set is refreshed, an accepted token was verified  *)
(* by a set cached during the call, and so was one that passes the guard   *)
(* (JWKSValidator.Validate).                                               *)
(***************************************************************************)
THEOREM Guarding == Spec => []GuardedWhileCached
  <1>1. VInv => GuardedWhileCached
    BY DEF VInv, CallInv, Guarded, GuardedWhileCached
  <1> QED BY <1>1, VInvariance, PTL

(***************************************************************************)
(* The promise of the guard's comment, where it is kept: a call during     *)
(* which the cached set did not change accepts nothing that was verified   *)
(* by a set without an allowed key (JWKSValidator.Validate).               *)
(***************************************************************************)
THEOREM GuardingUnrefreshed ==
  Spec => [](\A r \in Calls : pc[r] = "valid" /\ via[r] = "jwks" /\ saw[r] = {by[r]}
                               => HasAllowedKey(by[r]))
  <1>1. GuardedWhileCached =>
          \A r \in Calls : pc[r] = "valid" /\ via[r] = "jwks" /\ saw[r] = {by[r]}
                            => HasAllowedKey(by[r])
    BY DEF GuardedWhileCached
  <1> QED BY <1>1, Guarding, PTL
=============================================================================
