----------------------- MODULE ExchangeServiceProofs -----------------------
(***************************************************************************)
(* Proofs about ExchangeService, for every set of requests, tokens and     *)
(* targets, every keytab, cap and skew.  One inductive invariant, IInv,    *)
(* carries all the safety properties and the step simulation of module     *)
(* CredentialIssuer.                                                       *)
(***************************************************************************)
EXTENDS ExchangeService, TLAPS

Holding == {"put", "done"}
Accepted == {"lookup", "mint"} \cup Holding

\* c answers q: for its subject, its service, in its form, openable there.
Answers(c, q) ==
  /\ c.subject = q.token.subject
  /\ c.target.name = q.target.name
  /\ q.target.realm # NoRealm => c.target.realm = q.target.realm
  /\ RealmSettled(q.target) => c.sealedWith = c.target
  /\ c.output = q.output

\* What a credential owes to the call q that minted it.
Bounded(c, q) ==
  /\ c.expiry > c.authTime
  /\ q.token.expiry # ZeroTime => c.expiry <= q.token.expiry
  /\ MaxLifetime > 0 => c.expiry <= c.authTime + MaxLifetime
  /\ c.groups \subseteq AdmittedGroups(q.token)
  /\ c.sealedWith \in Keytab /\ c.sealedWith.name = c.target.name
  /\ RealmSettled(q.target) <=> c.sealedWith = c.target

CallsOK ==
  \A r \in Requests :
    /\ pc[r] # "idle" => req[r] \in ExchangeRequest
    /\ pc[r] = "idle" => req[r] = NoReq
    /\ since[r] <= now
    /\ pc[r] \notin Holding => cred[r] = NoCred
    /\ pc[r] \in Holding =>
         cred[r] \in minted /\ Answers(cred[r], req[r]) /\ cred[r].expiry >= since[r]
    /\ pc[r] \in Accepted /\ ChecksExpiry /\ req[r].token.expiry # ZeroTime
         => since[r] < req[r].token.expiry + ClockSkew

StoreOK ==
  \A q \in ExchangeRequest : store[KeyOf(q)] # NoCred =>
    store[KeyOf(q)] \in minted /\ Answers(store[KeyOf(q)], q)

MintedOK ==
  \A c \in minted :
    pc[c.sessionKey] \in Holding /\ Bounded(c, req[c.sessionKey])

IInv == TypeOK /\ CallsOK /\ StoreOK /\ MintedOK

---------------------------------------------------------------------------
(***************************************************************************)
(* Minting: what comes out of Mint when CanMint holds.                     *)
(***************************************************************************)

\* The end time is the token's expiry or the cap, whichever comes first.
LEMMA EndTimeBounds ==
  ASSUME NEW id \in Identity, NEW at \in Nat
  PROVE  /\ EndTime(id, at) \in Nat
         /\ id.expiry # ZeroTime => EndTime(id, at) <= id.expiry
         /\ MaxLifetime > 0 => EndTime(id, at) <= at + MaxLifetime
  <1>1. id.expiry \in Nat /\ MaxLifetime \in Nat
    BY InputsAssumption DEF Identity
  <1> QED
    BY <1>1 DEF EndTime, ZeroTime

\* The minter and the key source fill in the same realm, or it is not settled.
LEMMA ResolvedTarget ==
  ASSUME NEW id \in Identity, NEW spn \in ServicePrincipal
  PROVE  LET t == Resolve(id, spn).target IN
         /\ t \in ServicePrincipal
         /\ ServiceKey(t) \in ServicePrincipal
         /\ InRealm(t, MinterRealm) \in ServicePrincipal
         /\ RealmSettled(spn) <=> InRealm(t, MinterRealm) = ServiceKey(t)
         /\ ServiceKey(t).name = spn.name
         /\ InRealm(t, MinterRealm).name = spn.name
         /\ spn.realm # NoRealm => InRealm(t, MinterRealm).realm = spn.realm
  BY InputsAssumption
  DEF RealmSettled, Resolve, ServiceKey, InRealm, OrDefault, ServicePrincipal, NoRealm

\* A minted credential has its type, answers its call and is bounded by it.
LEMMA MintResult ==
  ASSUME NEW q \in ExchangeRequest, NEW at \in Nat, NEW r \in Requests,
         CanMint(q.token, q.target, q.output, at)
  PROVE  LET c == Mint(q.token, q.target, q.output, at, r) IN
         /\ c \in Cred
         /\ Answers(c, q)
         /\ Bounded(c, q)
         /\ c.sessionKey = r
         /\ c.authTime = at
         /\ c.expiry > at
  <1> DEFINE id == q.token
             t  == Resolve(id, q.target).target
             c  == Mint(q.token, q.target, q.output, at, r)
  <1>1. id \in Identity /\ q.target \in ServicePrincipal /\ q.output \in OutputTypes
    BY InputsAssumption DEF ExchangeRequest
  <1>2. /\ EndTime(id, at) \in Nat
        /\ id.expiry # ZeroTime => EndTime(id, at) <= id.expiry
        /\ MaxLifetime > 0 => EndTime(id, at) <= at + MaxLifetime
    BY <1>1, EndTimeBounds
  <1> DEFINE named == InRealm(t, MinterRealm)
  <1>3. /\ ServiceKey(t) \in ServicePrincipal /\ named \in ServicePrincipal
        /\ RealmSettled(q.target) <=> named = ServiceKey(t)
        /\ ServiceKey(t).name = q.target.name
        /\ named.name = q.target.name
        /\ q.target.realm # NoRealm => named.realm = q.target.realm
    BY <1>1, ResolvedTarget
  <1>4. EndTime(id, at) > at /\ ServiceKey(t) \in Keytab
    BY DEF CanMint
  <1> DEFINE G == IF WithPAC THEN AdmittedGroups(id) ELSE {}
             R == OrDefault(ResolverRealm, MinterRealm)
  <1>5. G \subseteq AdmittedGroups(id) /\ G \in SUBSET STRING
    BY <1>1 DEF AdmittedGroups, Identity
  <1>6. R \in STRING
    BY InputsAssumption DEF OrDefault
  <1>7. c = [subject |-> id.subject, crealm |-> R, target |-> named,
             sealedWith |-> ServiceKey(t), sessionKey |-> r, groups |-> G,
             authTime |-> at, expiry |-> EndTime(id, at), output |-> q.output]
    BY DEF Mint, Ticket, Resolve
  <1>8. id.subject \in STRING
    BY <1>1 DEF Identity
  <1> HIDE DEF id, t, c, G, R, named
  <1>9. c \in Cred
    BY <1>1, <1>2, <1>3, <1>5, <1>6, <1>7, <1>8 DEF Cred, Credential
  <1>10. Answers(c, q)
    BY <1>3, <1>7 DEF Answers, id
  <1>11. Bounded(c, q)
    BY <1>2, <1>3, <1>4, <1>5, <1>7 DEF Bounded, id
  <1> QED
    BY <1>4, <1>7, <1>9, <1>10, <1>11 DEF c, id

---------------------------------------------------------------------------
(***************************************************************************)
(* The cache key: a credential that answers one question with a key        *)
(* answers every question with that key.                                   *)
(***************************************************************************)
LEMMA KeyDetermines ==
  ASSUME NEW p \in ExchangeRequest, NEW q \in ExchangeRequest,
         KeyOf(p) = KeyOf(q)
  PROVE  /\ KeyOf(q) \in Keys
         /\ \A c : Answers(c, p) => Answers(c, q)
  <1>1. /\ q.token \in Tokens /\ q.target \in Targets /\ q.output \in OutputTypes
    BY DEF ExchangeRequest
  <1>2. KeyOf(q) \in Keys
    BY <1>1 DEF Keys, KeyOf
  <1>3. p.token.subject = q.token.subject /\ p.target = q.target /\ p.output = q.output
    BY DEF KeyOf, CacheKey
  <1> QED
    BY <1>2, <1>3 DEF Answers

\* The invariant holds at start-up.
LEMMA InitIInv == Init => IInv
  <1> SUFFICES ASSUME Init PROVE IInv
    OBVIOUS
  <1> USE ServiceAssumption DEF Init
  <1>1. TypeOK
    BY DEF TypeOK, Answered
  <1>2. CallsOK
    BY DEF CallsOK, Holding, Accepted
  <1>3. StoreOK
    <2> SUFFICES ASSUME NEW q \in ExchangeRequest
                 PROVE  store[KeyOf(q)] = NoCred
      BY DEF StoreOK
    <2> QED BY KeyDetermines
  <1>4. MintedOK
    BY DEF MintedOK
  <1> QED BY <1>1, <1>2, <1>3, <1>4 DEF IInv

(***************************************************************************)
(* Every step preserves the invariant.  StoreOK and MintedOK speak of one  *)
(* call's pc and req at a time, so an action of r disturbs them only       *)
(* through r itself, through the store, or through minted.                 *)
(***************************************************************************)
LEMMA NextIInv == IInv /\ [Next]_vars => IInv'
  <1> SUFFICES ASSUME IInv, [Next]_vars PROVE IInv'
    OBVIOUS
  <1> USE ServiceAssumption
  <1>t. TypeOK /\ CallsOK /\ StoreOK /\ MintedOK
    BY DEF IInv
  <1>s. \A c \in minted : c \in Cred /\ c.sessionKey \in Requests
    BY <1>t DEF TypeOK, Cred, Credential
  <1>k. \A q \in ExchangeRequest : KeyOf(q) \in Keys
    BY KeyDetermines
  <1>1. ASSUME NEW r \in Requests, NEW q \in ExchangeRequest, Arrive(r, q)
        PROVE  IInv'
    <2>1. TypeOK'
      BY <1>1, <1>t DEF Arrive, Go, TypeOK, Answered
    <2>2. CallsOK'
      BY <1>1, <1>t DEF Arrive, Go, TypeOK, CallsOK, Holding, Accepted
    <2>3. StoreOK'
      BY <1>1, <1>t DEF Arrive, StoreOK
    <2>4. MintedOK'
      BY <1>1, <1>t, <1>s DEF Arrive, Go, TypeOK, MintedOK, Holding
    <2> QED BY <2>1, <2>2, <2>3, <2>4 DEF IInv
  <1>2. ASSUME NEW r \in Requests, Validate(r)
        PROVE  IInv'
    <2>1. TypeOK'
      BY <1>2, <1>t DEF Validate, Go, TypeOK, Answered
    <2>2. CallsOK'
      <3>1. req[r] \in ExchangeRequest /\ pc[r] = "validate"
        BY <1>2, <1>t DEF Validate, Go, CallsOK
      <3>2. req[r].token.expiry \in Nat
        BY <3>1, InputsAssumption DEF ExchangeRequest, Identity
      <3> QED
        BY <1>2, <1>t, <3>1, <3>2
        DEF Validate, MayAccept, Go, TypeOK, CallsOK, Holding, Accepted
    <2>3. StoreOK'
      BY <1>2, <1>t DEF Validate, StoreOK
    <2>4. MintedOK'
      BY <1>2, <1>t, <1>s DEF Validate, Go, TypeOK, MintedOK, Holding
    <2> QED BY <2>1, <2>2, <2>3, <2>4 DEF IInv
  <1>3. ASSUME NEW r \in Requests, CacheMiss(r) \/ MintFails(r)
        PROVE  IInv'
    <2>1. /\ pc[r] \in {"lookup", "mint"}
          /\ \E to \in {"mint", "failed"} : pc' = [pc EXCEPT ![r] = to]
          /\ UNCHANGED <<now, req, since, cred, store, minted>>
      BY <1>3 DEF CacheMiss, MintFails, Go
    <2>2. TypeOK'
      BY <2>1, <1>t DEF TypeOK, Answered
    <2>3. CallsOK'
      BY <2>1, <1>t DEF TypeOK, CallsOK, Holding, Accepted
    <2>4. StoreOK'
      BY <2>1, <1>t DEF StoreOK
    <2>5. MintedOK'
      BY <2>1, <1>t, <1>s DEF TypeOK, MintedOK, Holding
    <2> QED BY <2>2, <2>3, <2>4, <2>5 DEF IInv
  <1>4. ASSUME NEW r \in Requests, CacheHit(r)
        PROVE  IInv'
    <2> DEFINE c == store[KeyOf(req[r])]
    <2>1. /\ pc[r] = "lookup" /\ pc' = [pc EXCEPT ![r] = "done"]
          /\ c # NoCred /\ c.expiry >= now
          /\ cred' = [cred EXCEPT ![r] = c]
          /\ UNCHANGED <<now, req, since, store, minted>>
      <3>1. req[r] \in ExchangeRequest
        BY <1>4, <1>t DEF CacheHit, Go, CallsOK
      <3>2. c \in Cred \cup {NoCred}
        BY <1>t, <1>k, <3>1 DEF TypeOK
      <3> QED
        BY <1>4, <1>t, <3>2 DEF CacheHit, Go, Return, Expired, TypeOK, Cred, Credential
    <2>2. req[r] \in ExchangeRequest
      BY <2>1, <1>t DEF CallsOK
    <2>3. c \in minted /\ Answers(c, req[r]) /\ c \in Cred
      BY <2>1, <2>2, <1>t, <1>s DEF StoreOK
    <2> HIDE DEF c
    <2>4. TypeOK'
      BY <2>1, <2>3, <1>t DEF TypeOK, Answered
    <2>5. CallsOK'
      <3>1. c.expiry >= since[r]
        BY <2>1, <2>3, <1>t DEF CallsOK, TypeOK, Cred, Credential
      <3> QED
        BY <2>1, <2>3, <3>1, <1>t DEF TypeOK, CallsOK, Holding, Accepted
    <2>6. StoreOK'
      BY <2>1, <1>t DEF StoreOK
    <2>7. MintedOK'
      BY <2>1, <1>t, <1>s DEF TypeOK, MintedOK, Holding
    <2> QED BY <2>4, <2>5, <2>6, <2>7 DEF IInv
  <1>5. ASSUME NEW r \in Requests, CacheEvict(r)
        PROVE  IInv'
    <2>1. /\ pc[r] = "lookup" /\ pc' = [pc EXCEPT ![r] = "mint"]
          /\ store' = [store EXCEPT ![KeyOf(req[r])] = NoCred]
          /\ UNCHANGED <<now, req, since, cred, minted>>
      BY <1>5 DEF CacheEvict, Go
    <2>2. TypeOK'
      BY <2>1, <1>t DEF TypeOK, Answered
    <2>3. CallsOK'
      BY <2>1, <1>t DEF TypeOK, CallsOK, Holding, Accepted
    <2>4. StoreOK'
      BY <2>1, <1>t, <1>k DEF StoreOK, TypeOK
    <2>5. MintedOK'
      BY <2>1, <1>t, <1>s DEF TypeOK, MintedOK, Holding
    <2> QED BY <2>2, <2>3, <2>4, <2>5 DEF IInv
  <1>6. ASSUME NEW r \in Requests, MintTicket(r)
        PROVE  IInv'
    <2> DEFINE q == req[r]
               c == Mint(q.token, q.target, q.output, now, r)
    <2>1. /\ pc[r] = "mint"
          /\ \E to \in Holding : pc' = [pc EXCEPT ![r] = to]
          /\ CanMint(q.token, q.target, q.output, now)
          /\ cred' = [cred EXCEPT ![r] = c]
          /\ minted' = minted \cup {c}
          /\ UNCHANGED <<now, req, since, store>>
      BY <1>6 DEF MintTicket, Go, Return, Holding
    <2>2. q \in ExchangeRequest /\ now \in Nat
      BY <2>1, <1>t DEF CallsOK, TypeOK
    <2>3. /\ c \in Cred /\ Answers(c, q) /\ Bounded(c, q)
          /\ c.sessionKey = r /\ c.expiry > now
      BY <2>1, <2>2, MintResult
    <2> HIDE DEF c
    <2>4. TypeOK'
      BY <2>1, <2>3, <1>t DEF TypeOK, Answered, Holding
    <2>5. CallsOK'
      <3>1. c.expiry >= since[r]
        BY <2>2, <2>3, <1>t DEF CallsOK, TypeOK, Cred, Credential
      <3> QED
        BY <2>1, <2>3, <3>1, <1>t DEF TypeOK, CallsOK, Holding, Accepted
    <2>6. StoreOK'
      BY <2>1, <1>t DEF StoreOK
    <2>7. MintedOK'
      BY <2>1, <2>3, <1>t, <1>s DEF TypeOK, MintedOK, Holding
    <2> QED BY <2>4, <2>5, <2>6, <2>7 DEF IInv
  <1>7. ASSUME NEW r \in Requests, CachePut(r)
        PROVE  IInv'
    <2>1. /\ pc[r] = "put" /\ pc' = [pc EXCEPT ![r] = "done"]
          /\ store' = [store EXCEPT ![KeyOf(req[r])] = cred[r]]
          /\ UNCHANGED <<now, req, since, cred, minted>>
      BY <1>7 DEF CachePut, Go
    <2>2. req[r] \in ExchangeRequest /\ cred[r] \in minted /\ Answers(cred[r], req[r])
      BY <2>1, <1>t DEF CallsOK, Holding
    <2>3. TypeOK'
      BY <2>1, <1>t DEF TypeOK, Answered
    <2>4. CallsOK'
      BY <2>1, <1>t DEF TypeOK, CallsOK, Holding, Accepted
    <2>5. StoreOK'
      <3> SUFFICES ASSUME NEW q \in ExchangeRequest, store'[KeyOf(q)] # NoCred
                   PROVE  store'[KeyOf(q)] \in minted /\ Answers(store'[KeyOf(q)], q)
        BY <2>1 DEF StoreOK
      <3>1. CASE KeyOf(q) = KeyOf(req[r])
        <4>1. Answers(cred[r], q)
          BY <3>1, <2>2, KeyDetermines
        <4> QED BY <3>1, <4>1, <2>1, <2>2, <1>t, <1>k DEF TypeOK
      <3>2. CASE KeyOf(q) # KeyOf(req[r])
        BY <3>2, <2>1, <1>t, <1>k DEF TypeOK, StoreOK
      <3> QED BY <3>1, <3>2
    <2>6. MintedOK'
      BY <2>1, <1>t, <1>s DEF TypeOK, MintedOK, Holding
    <2> QED BY <2>3, <2>4, <2>5, <2>6 DEF IInv
  <1>8. ASSUME Tick PROVE IInv'
    <2>1. TypeOK'
      BY <1>8, <1>t DEF Tick, TypeOK
    <2>2. CallsOK'
      BY <1>8, <1>t DEF Tick, TypeOK, CallsOK
    <2>3. StoreOK' /\ MintedOK'
      BY <1>8, <1>t DEF Tick, StoreOK, MintedOK
    <2> QED BY <2>1, <2>2, <2>3 DEF IInv
  <1>9. ASSUME UNCHANGED vars PROVE IInv'
    BY <1>9, <1>t DEF vars, IInv, TypeOK, CallsOK, StoreOK, MintedOK
  <1> QED
    BY <1>1, <1>2, <1>3, <1>4, <1>5, <1>6, <1>7, <1>8, <1>9
    DEF Next, Step, Lookup, Quiescent

\* IInv is an invariant of the exchange service.
THEOREM Invariance == Spec => []IInv
  BY InitIInv, NextIInv, PTL DEF Spec

---------------------------------------------------------------------------
(***************************************************************************)
(* The properties that the runs check.                                     *)
(***************************************************************************)

\* State and history keep their types (service.go, cache.go).
THEOREM TypeCorrect == Spec => []TypeOK
  <1>1. IInv => TypeOK
    BY DEF IInv
  <1> QED BY <1>1, Invariance, PTL

(***************************************************************************)
(* Cached or fresh, the credential a call returns is for its own subject,  *)
(* service and output (service.go, cache.go).                              *)
(***************************************************************************)
THEOREM Answering == Spec => []AnswersTheQuestion
  <1>1. IInv => AnswersTheQuestion
    BY DEF IInv, CallsOK, AnswersTheQuestion, Answers, Holding
  <1> QED BY <1>1, Invariance, PTL

\* Whatever is cached or returned was minted.
LEMMA OutstandingMinted == IInv => Outstanding \subseteq minted
  <1> SUFFICES ASSUME IInv, NEW c \in Outstanding PROVE c \in minted
    OBVIOUS
  <1>1. CASE \E r \in Requests : pc[r] = "done" /\ c = cred[r]
    BY <1>1 DEF IInv, CallsOK, Holding
  <1>2. ASSUME NEW k \in Keys, store[k] # NoCred, c = store[k]
        PROVE  c \in minted
    <2>1. PICK t \in Tokens, s \in Targets, o \in OutputTypes : k = CacheKey(t.subject, s, o)
      BY DEF Keys
    <2> DEFINE q == [token |-> t, target |-> s, output |-> o]
    <2>2. q \in ExchangeRequest /\ KeyOf(q) = k
      BY <2>1 DEF ExchangeRequest, KeyOf
    <2> QED BY <1>2, <2>2 DEF IInv, StoreOK
  <1> QED BY <1>1, <1>2 DEF Outstanding

(***************************************************************************)
(* No cached or returned credential outlasts the token it was minted from  *)
(* or the configured cap (service.go, minter.go).                          *)
(***************************************************************************)
THEOREM Capping == Spec => []LifetimeCapped
  <1>1. IInv => LifetimeCapped
    BY OutstandingMinted DEF IInv, MintedOK, Bounded, LifetimeCapped
  <1> QED BY <1>1, Invariance, PTL

\* No call returns a credential that was expired when it arrived (cache.go).
THEOREM AnsweringAlive == Spec => []LiveOnArrival
  <1>1. IInv => LiveOnArrival
    BY DEF IInv, CallsOK, LiveOnArrival, Holding
  <1> QED BY <1>1, Invariance, PTL

(***************************************************************************)
(* An expired token gets nothing from the cache, and a failed call leaves  *)
(* no credential behind (service.go, jwksvalidator.go).                    *)
(***************************************************************************)
THEOREM Refusing == Spec => []RefusedGetsNothing
  <1>1. IInv => RefusedGetsNothing
    <2> SUFFICES ASSUME IInv, NEW r \in Requests
                 PROVE  /\ pc[r] = "done" /\ ChecksExpiry /\ req[r].token.expiry # ZeroTime
                             => since[r] < req[r].token.expiry + ClockSkew
                        /\ pc[r] = "failed" =>
                             cred[r] = NoCred /\ \A c \in Outstanding : c.sessionKey # r
      BY DEF RefusedGetsNothing
    <2>1. pc[r] = "done" /\ ChecksExpiry /\ req[r].token.expiry # ZeroTime
            => since[r] < req[r].token.expiry + ClockSkew
      BY DEF IInv, CallsOK, Accepted, Holding
    <2>2. pc[r] = "failed" => cred[r] = NoCred
      BY DEF IInv, CallsOK, Holding
    <2>3. pc[r] = "failed" => \A c \in Outstanding : c.sessionKey # r
      BY OutstandingMinted DEF IInv, MintedOK, Holding
    <2> QED BY <2>1, <2>2, <2>3
  <1> QED BY <1>1, Invariance, PTL

(***************************************************************************)
(* Every ticket is sealed with a key of the keytab for the service it      *)
(* names, and with the key of the very principal it names exactly when the *)
(* realm is settled; nothing is assumed of the three default realms        *)
(* (resolver.go, minter.go, keysource.go).                                 *)
(***************************************************************************)
THEOREM Sealing == Spec => []OpensAtTarget
  <1>1. IInv => OpensAtTarget
    BY DEF IInv, MintedOK, Bounded, OpensAtTarget
  <1> QED BY <1>1, Invariance, PTL

\* No step drops a cache entry that has not expired (cache.go, Get).
THEOREM Keeping == Spec => LiveEntryKept
  <1> DEFINE Kept == \A k \in Keys : store[k] # NoCred /\ store[k].expiry >= now
                                      => store'[k] # NoCred
  <1>1. IInv /\ [Next]_vars => [Kept]_vars
    <2> SUFFICES ASSUME IInv, Next, NEW k \in Keys,
                        store[k] # NoCred, store[k].expiry >= now
                 PROVE  store'[k] # NoCred
      BY DEF Kept
    <2>1. ASSUME NEW r \in Requests, CacheEvict(r) PROVE store'[k] # NoCred
      <3>1. store[k] \in Cred /\ now \in Nat
        BY DEF IInv, TypeOK
      <3>2. store[k].expiry \in Nat
        BY <3>1 DEF Cred, Credential
      <3>3. k # KeyOf(req[r])
        BY <2>1, <3>1, <3>2 DEF CacheEvict, Expired
      <3> QED BY <2>1, <3>3 DEF CacheEvict, IInv, TypeOK
    <2>2. ASSUME NEW r \in Requests, CachePut(r) PROVE store'[k] # NoCred
      <3>1. cred[r] # NoCred
        BY <2>2, ServiceAssumption DEF CachePut, Go, IInv, CallsOK, Holding, TypeOK
      <3> QED BY <2>2, <3>1 DEF CachePut, IInv, TypeOK
    <2>3. ASSUME UNCHANGED store PROVE store'[k] # NoCred
      BY <2>3
    <2> QED
      BY <2>1, <2>2, <2>3
      DEF Next, Step, Lookup, Arrive, Validate, CacheMiss, CacheHit, MintTicket,
          MintFails, Tick, Quiescent, vars
  <1> QED BY <1>1, Invariance, PTL DEF Spec, LiveEntryKept, Kept

(***************************************************************************)
(* The cache holds nothing but answers to calls that returned, each under  *)
(* the key that the call asked for (cache.go, Put).                        *)
(***************************************************************************)
THEOREM Storing == Spec => []EntriesWereAsked
  <1>1. Init => EntriesWereAsked
    BY DEF Init, EntriesWereAsked
  <1>2. IInv /\ EntriesWereAsked /\ [Next]_vars => EntriesWereAsked'
    <2> SUFFICES ASSUME IInv, EntriesWereAsked, [Next]_vars,
                        NEW k \in Keys, store'[k] # NoCred
                 PROVE  \E r \in Requests : pc'[r] = "done" /\ k = KeyOf(req'[r])
      BY DEF EntriesWereAsked, KeyOf
    <2>1. ASSUME store[k] # NoCred
          PROVE  \E r \in Requests : pc'[r] = "done" /\ k = KeyOf(req'[r])
      <3>1. PICK r \in Requests : pc[r] = "done" /\ k = KeyOf(req[r])
        BY <2>1 DEF EntriesWereAsked
      <3>2. pc'[r] = "done" /\ req'[r] = req[r]
        BY <3>1 DEF IInv, TypeOK, Next, Step, Lookup, Go, Arrive, Validate, CacheMiss,
            CacheHit, CacheEvict, MintTicket, MintFails, CachePut, Tick, Quiescent, vars
      <3> QED BY <3>1, <3>2
    <2>2. ASSUME NEW r \in Requests, CachePut(r)
          PROVE  store[k] # NoCred \/ (pc'[r] = "done" /\ k = KeyOf(req'[r]))
      BY <2>2 DEF CachePut, Go, IInv, TypeOK, KeyOf
    <2>3. ASSUME NEW r \in Requests, CacheEvict(r) PROVE store[k] # NoCred
      BY <2>3 DEF CacheEvict, IInv, TypeOK
    <2>4. ASSUME UNCHANGED store PROVE store[k] # NoCred
      BY <2>4
    <2> QED
      BY <2>1, <2>2, <2>3, <2>4
      DEF Next, Step, Lookup, Arrive, Validate, CacheMiss, CacheHit, MintTicket,
          MintFails, Tick, Quiescent, vars
  <1> QED BY <1>1, <1>2, Invariance, PTL DEF Spec

---------------------------------------------------------------------------
(***************************************************************************)
(* Whose question a cached credential answers.  AskedAlike carries through *)
(* the store what Answers leaves out: the call that a credential was       *)
(* minted for asked what the entry is filed under.                         *)
(***************************************************************************)
Alike(p, q) ==
  /\ p \in ExchangeRequest
  /\ p.token.subject = q.token.subject
  /\ p.target = q.target /\ p.output = q.output

AskedAlike ==
  /\ \A r \in Requests : pc[r] \in Holding => Alike(req[cred[r].sessionKey], req[r])
  /\ \A q \in ExchangeRequest :
       store[KeyOf(q)] # NoCred => Alike(req[store[KeyOf(q)].sessionKey], q)

\* A call that has minted a credential does not change its question.
LEMMA AskedForGood ==
  ASSUME IInv, [Next]_vars
  PROVE  \A c \in minted : req'[c.sessionKey] = req[c.sessionKey]
  <1> SUFFICES ASSUME NEW c \in minted PROVE req'[c.sessionKey] = req[c.sessionKey]
    OBVIOUS
  <1>1. c.sessionKey \in Requests /\ pc[c.sessionKey] \in Holding
    BY DEF IInv, TypeOK, MintedOK, Cred, Credential
  <1> QED
    BY <1>1 DEF IInv, TypeOK, Holding, Next, Step, Lookup, Go, Arrive, Validate, CacheMiss,
        CacheHit, CacheEvict, MintTicket, MintFails, CachePut, Tick, Quiescent, vars

\* Equal keys are equal questions.
LEMMA KeyAlike ==
  ASSUME NEW p, NEW s \in ExchangeRequest, NEW q \in ExchangeRequest,
         Alike(p, s), KeyOf(s) = KeyOf(q)
  PROVE  Alike(p, q)
  BY DEF Alike, KeyOf, CacheKey

\* The step of a call to Holding: by a hit, or with what it minted itself.
LEMMA NextHeldAlike ==
  ASSUME IInv, AskedAlike, [Next]_vars, NEW r \in Requests, pc'[r] \in Holding
  PROVE  Alike(req'[cred'[r].sessionKey], req'[r])
  <1>t. TypeOK /\ CallsOK /\ StoreOK
    BY DEF IInv
  <1>1. CASE pc[r] \in Holding
    <2>1. cred'[r] = cred[r] /\ req'[r] = req[r]
      BY <1>1, <1>t DEF TypeOK, Holding, Next, Step, Lookup, Go, Return, Arrive, Validate,
          CacheMiss, CacheHit, CacheEvict, MintTicket, MintFails, CachePut, Tick, Quiescent, vars
    <2>2. cred[r] \in minted /\ Alike(req[cred[r].sessionKey], req[r])
      BY <1>1, <1>t DEF CallsOK, AskedAlike
    <2> QED BY <2>1, <2>2, AskedForGood
  <1>2. CASE CacheHit(r)
    <2>1. /\ req[r] \in ExchangeRequest /\ req' = req
          /\ store[KeyOf(req[r])] # NoCred /\ cred'[r] = store[KeyOf(req[r])]
      BY <1>2, <1>t DEF CacheHit, Go, Return, CallsOK, TypeOK
    <2> QED BY <2>1 DEF AskedAlike
  <1>3. CASE MintTicket(r)
    <2>1. req[r] \in ExchangeRequest /\ req' = req /\ cred'[r].sessionKey = r
      BY <1>3, <1>t DEF MintTicket, Go, Return, CallsOK, TypeOK, Mint, Ticket
    <2> QED BY <2>1 DEF Alike
  <1>4. pc[r] \in Holding \/ CacheHit(r) \/ MintTicket(r)
    BY <1>t DEF TypeOK, Holding, Next, Step, Lookup, Go, Arrive, Validate, CacheMiss,
        CacheHit, CacheEvict, MintTicket, MintFails, CachePut, Tick, Quiescent, vars
  <1> QED BY <1>1, <1>2, <1>3, <1>4

\* What is stored stays, or is what the storing call holds.
LEMMA NextStoredAlike ==
  ASSUME IInv, AskedAlike, [Next]_vars, NEW q \in ExchangeRequest, store'[KeyOf(q)] # NoCred
  PROVE  Alike(req'[store'[KeyOf(q)].sessionKey], q)
  <1>t. TypeOK /\ CallsOK /\ StoreOK
    BY DEF IInv
  <1>k. KeyOf(q) \in Keys
    BY KeyDetermines
  <1>1. CASE store'[KeyOf(q)] = store[KeyOf(q)]
    BY <1>1, <1>t, AskedForGood DEF StoreOK, AskedAlike
  <1>2. ASSUME NEW r \in Requests, CachePut(r), KeyOf(q) = KeyOf(req[r])
        PROVE  Alike(req'[store'[KeyOf(q)].sessionKey], q)
    <2>1. /\ req[r] \in ExchangeRequest /\ req' = req /\ store'[KeyOf(q)] = cred[r]
          /\ Alike(req[cred[r].sessionKey], req[r])
      BY <1>2, <1>t, <1>k DEF CachePut, Go, CallsOK, TypeOK, AskedAlike, Holding
    <2> QED BY <1>2, <2>1, KeyAlike
  <1>3. \/ store'[KeyOf(q)] = store[KeyOf(q)]
        \/ \E r \in Requests : CachePut(r) /\ KeyOf(q) = KeyOf(req[r])
    <2>1. ASSUME NEW r \in Requests, CachePut(r), KeyOf(q) # KeyOf(req[r])
          PROVE  store'[KeyOf(q)] = store[KeyOf(q)]
      BY <2>1, <1>t, <1>k DEF CachePut, TypeOK
    <2>2. ASSUME NEW r \in Requests, CacheEvict(r)
          PROVE  store'[KeyOf(q)] = store[KeyOf(q)]
      BY <2>2, <1>t, <1>k DEF CacheEvict, TypeOK
    <2>3. ASSUME UNCHANGED store PROVE store'[KeyOf(q)] = store[KeyOf(q)]
      BY <2>3
    <2> QED
      BY <2>1, <2>2, <2>3
      DEF Next, Step, Lookup, Arrive, Validate, CacheMiss, CacheHit, MintTicket,
          MintFails, Tick, Quiescent, vars
  <1> QED BY <1>1, <1>2, <1>3

(***************************************************************************)
(* The cache shares a credential only among calls that ask the same        *)
(* question, and with no more groups than the call it was minted for is    *)
(* entitled to (service.go, cache.go).                                     *)
(***************************************************************************)
THEOREM Sharing == Spec => []SharedForSameQuestion
  <1>1. Init => AskedAlike
    BY KeyDetermines DEF Init, AskedAlike, Holding
  <1>2. IInv /\ AskedAlike /\ [Next]_vars => AskedAlike'
    <2> SUFFICES ASSUME IInv, AskedAlike, [Next]_vars PROVE AskedAlike'
      OBVIOUS
    <2>1. \A r \in Requests : pc'[r] \in Holding => Alike(req'[cred'[r].sessionKey], req'[r])
      BY NextHeldAlike
    <2>2. \A q \in ExchangeRequest :
            store'[KeyOf(q)] # NoCred => Alike(req'[store'[KeyOf(q)].sessionKey], q)
      BY NextStoredAlike
    <2> QED BY <2>1, <2>2 DEF AskedAlike, Alike, KeyOf
  <1>3. IInv /\ AskedAlike => SharedForSameQuestion
    <2> SUFFICES ASSUME IInv, AskedAlike, NEW r \in Requests, pc[r] = "done"
                 PROVE  /\ Alike(req[cred[r].sessionKey], req[r])
                        /\ cred[r].groups \subseteq AdmittedGroups(req[cred[r].sessionKey].token)
      BY DEF SharedForSameQuestion, Alike
    <2>1. cred[r] \in minted
      BY DEF IInv, CallsOK, Holding
    <2> QED BY <2>1 DEF IInv, MintedOK, Bounded, AskedAlike, Holding
  <1> QED BY <1>1, <1>2, <1>3, Invariance, PTL DEF Spec

---------------------------------------------------------------------------
(***************************************************************************)
(* Without a cache a call never reaches a lookup, so what it holds is what *)
(* it minted itself, from its own token.                                   *)
(***************************************************************************)
OwnMint ==
  \A r \in Requests : pc[r] # "lookup" /\ (pc[r] \in Holding => cred[r].sessionKey = r)

LEMMA UncachedOwnMint == ASSUME ~WithCache PROVE Spec => []OwnMint
  <1>1. Init => OwnMint
    BY DEF Init, OwnMint, Holding
  <1>2. IInv /\ OwnMint /\ [Next]_vars => OwnMint'
    <2> SUFFICES ASSUME IInv, OwnMint, [Next]_vars PROVE OwnMint'
      OBVIOUS
    <2>t. /\ pc \in [Requests -> {"idle", "validate", "lookup", "mint", "put"} \cup Answered]
          /\ cred \in [Requests -> Cred \cup {NoCred}]
      BY DEF IInv, TypeOK
    <2>1. ASSUME NEW r \in Requests, NEW q \in ExchangeRequest, Arrive(r, q) PROVE OwnMint'
      BY <2>t, <2>1 DEF Arrive, Go, OwnMint, Holding
    <2>2. ASSUME NEW r \in Requests, Validate(r) \/ MintFails(r) PROVE OwnMint'
      BY <2>t, <2>2 DEF Validate, MintFails, Go, OwnMint, Holding
    <2>3. ASSUME NEW r \in Requests PROVE ~Lookup(r)
      BY DEF Lookup, CacheMiss, CacheHit, CacheEvict, Go, OwnMint
    <2>4. ASSUME NEW r \in Requests, MintTicket(r) PROVE OwnMint'
      <3>1. cred'[r].sessionKey = r
        BY <2>t, <2>4 DEF MintTicket, Return, Mint, Ticket
      <3>2. \A x \in Requests \ {r} : cred'[x] = cred[x] /\ pc'[x] = pc[x]
        BY <2>t, <2>4 DEF MintTicket, Return, Go
      <3>3. pc'[r] = "done"
        BY <2>t, <2>4 DEF MintTicket, Go
      <3> QED BY <3>1, <3>2, <3>3 DEF OwnMint
    <2>5. ASSUME NEW r \in Requests, CachePut(r) PROVE OwnMint'
      BY <2>t, <2>5 DEF CachePut, Go, OwnMint, Holding
    <2>6. ASSUME Tick \/ UNCHANGED vars PROVE OwnMint'
      BY <2>6 DEF Tick, vars, OwnMint
    <2> QED
      BY <2>1, <2>2, <2>3, <2>4, <2>5, <2>6 DEF Next, Step, Quiescent
  <1> QED BY <1>1, <1>2, Invariance, PTL DEF Spec

\* What a call returns is bounded by its own token.
LEMMA UncachedBounded ==
  ASSUME IInv, OwnMint, NEW r \in Requests, pc[r] = "done"
  PROVE  Bounded(cred[r], req[r])
  <1>1. cred[r] \in minted /\ cred[r].sessionKey = r
    BY DEF IInv, CallsOK, OwnMint, Holding
  <1> QED BY <1>1 DEF IInv, MintedOK

(***************************************************************************)
(* identity.go's promise, kept by a service without a cache: the issued    *)
(* ticket never outlives the token that was presented for it (service.go). *)
(***************************************************************************)
THEOREM UncachedNeverOutlives == ASSUME ~WithCache PROVE Spec => []NeverOutlivesToken
  <1>1. IInv /\ OwnMint => NeverOutlivesToken
    BY UncachedBounded DEF Bounded, NeverOutlivesToken
  <1> QED BY <1>1, Invariance, UncachedOwnMint, PTL

(***************************************************************************)
(* The README's promise, kept by a service without a cache: a narrowly     *)
(* scoped token yields a correspondingly narrowed credential (service.go,  *)
(* scopefilter.go).                                                        *)
(***************************************************************************)
THEOREM UncachedNarrows == ASSUME ~WithCache PROVE Spec => []NarrowedToScope
  <1>1. IInv /\ OwnMint => NarrowedToScope
    BY UncachedBounded DEF Bounded, NarrowedToScope, AdmittedGroups
  <1> QED BY <1>1, Invariance, UncachedOwnMint, PTL

---------------------------------------------------------------------------
(***************************************************************************)
(* Refinement: Exchange with its cache implements CredentialIssuer.        *)
(***************************************************************************)
GrantedBar == [r \in Requests |-> IF pc[r] = "done" THEN cred[r] ELSE NoCred]
RefusedBar == {r \in Requests : pc[r] = "failed"}

\* A call that has been asked and not answered is open for the issuer.
LEMMA OpenCall ==
  ASSUME IInv, NEW r \in Requests, pc[r] \notin {"idle", "done", "failed"}
  PROVE  Issuer!Open(r) /\ req[r] \in ExchangeRequest
  BY ServiceAssumption DEF IInv, CallsOK, Issuer!Open

\* Granting: r moves to done holding a minted credential that answers it.
LEMMA StepGrants ==
  ASSUME IInv, IInv', NEW r \in Requests,
         pc[r] \notin {"idle", "done", "failed"},
         pc' = [pc EXCEPT ![r] = "done"],
         UNCHANGED <<now, req, since>>,
         \A x \in Requests \ {r} : cred'[x] = cred[x],
         UNCHANGED minted \/ Issuer!Enter(r)
  PROVE  Issuer!Grant(r)
  <1>1. Issuer!Open(r)
    BY OpenCall
  <1>2. /\ cred'[r] \in minted' /\ Answers(cred'[r], req[r])
        /\ cred'[r].expiry >= since[r]
    BY DEF IInv, TypeOK, CallsOK, Holding
  <1>3. Issuer!Fits(cred'[r], req[r])
    BY <1>2 DEF Answers, Issuer!Fits, NoRealm, Issuer!NoRealm, RealmSettled, Issuer!RealmSettled
  <1>4. GrantedBar' = [GrantedBar EXCEPT ![r] = cred'[r]]
    BY DEF GrantedBar, IInv, TypeOK
  <1>5. RefusedBar' = RefusedBar
    BY DEF RefusedBar, IInv, TypeOK
  <1> QED
    BY <1>1, <1>2, <1>3, <1>4, <1>5 DEF Issuer!Grant, GrantedBar, RefusedBar

\* Refusing: r moves to failed and nothing else changes.
LEMMA StepRefuses ==
  ASSUME IInv, NEW r \in Requests,
         pc[r] \notin {"idle", "done", "failed"},
         pc' = [pc EXCEPT ![r] = "failed"],
         UNCHANGED <<now, req, since, cred, minted>>
  PROVE  Issuer!Refuse(r)
  <1>1. Issuer!Open(r)
    BY OpenCall
  <1>2. GrantedBar' = GrantedBar /\ RefusedBar' = RefusedBar \cup {r}
    BY DEF GrantedBar, RefusedBar, IInv, TypeOK
  <1> QED
    BY <1>1, <1>2 DEF Issuer!Refuse, GrantedBar, RefusedBar

\* Minting enters a credential that is owed to the minting call.
LEMMA StepEnters ==
  ASSUME IInv, NEW r \in Requests, MintTicket(r)
  PROVE  Issuer!Enter(r)
  <1> DEFINE q == req[r]
             c == Mint(q.token, q.target, q.output, now, r)
  <1>1. pc[r] = "mint" /\ CanMint(q.token, q.target, q.output, now)
        /\ minted' = minted \cup {c}
    BY DEF MintTicket, Go
  <1>2. q \in ExchangeRequest /\ now \in Nat
    BY <1>1 DEF IInv, CallsOK, TypeOK
  <1>3. Answers(c, q) /\ Bounded(c, q) /\ c.sessionKey = r /\ c.authTime = now
    BY <1>1, <1>2, MintResult
  <1> HIDE DEF c
  <1>4. Issuer!Fits(c, q)
    BY <1>3 DEF Answers, Issuer!Fits, NoRealm, Issuer!NoRealm, RealmSettled, Issuer!RealmSettled
  <1>5. Issuer!WithinLifetime(c, q.token)
    BY <1>3 DEF Bounded, Issuer!WithinLifetime, ZeroTime, Issuer!ZeroTime
  <1>6. c.groups \subseteq Issuer!AdmittedGroups(q.token)
    BY <1>3 DEF Bounded, AdmittedGroups, Issuer!AdmittedGroups
  <1>7. Issuer!Owed(c, r)
    BY <1>3, <1>4, <1>5, <1>6 DEF Issuer!Owed
  <1> QED BY <1>1, <1>7 DEF Issuer!Enter

\* The initial states agree.
LEMMA InitRefines == Init => Issuer!Init
  BY DEF Init, Issuer!Init

\* Every step of the service is a step of the issuer or changes nothing there.
LEMMA StepRefines == IInv /\ IInv' /\ [Next]_vars => [Issuer!Next]_(Issuer!ivars)
  <1> SUFFICES ASSUME IInv, IInv', [Next]_vars
               PROVE  Issuer!Next \/ UNCHANGED Issuer!ivars
    OBVIOUS
  <1> DEFINE Silent(r) ==
        /\ pc[r] \notin {"idle", "done", "failed"}
        /\ \E to \in {"lookup", "mint", "put"} : pc' = [pc EXCEPT ![r] = to]
  <1>q. ASSUME NEW r \in Requests, Silent(r),
               \A x \in Requests \ {r} : cred'[x] = cred[x]
        PROVE  GrantedBar' = GrantedBar /\ RefusedBar' = RefusedBar
    BY <1>q DEF GrantedBar, RefusedBar, IInv, TypeOK
  <1>1. ASSUME NEW r \in Requests, NEW q \in ExchangeRequest, Arrive(r, q)
        PROVE  Issuer!Ask(r)
    <2>1. req[r] = NoReq /\ q \in Issuer!ExchangeRequest
      BY <1>1 DEF Arrive, Go, IInv, CallsOK, ExchangeRequest, OutputTypes,
                  Issuer!ExchangeRequest, Issuer!OutputTypes
    <2>2. GrantedBar' = GrantedBar /\ RefusedBar' = RefusedBar
      BY <1>1 DEF Arrive, Go, GrantedBar, RefusedBar, IInv, TypeOK
    <2> QED BY <1>1, <2>1, <2>2 DEF Arrive, Issuer!Ask, GrantedBar, RefusedBar
  <1>2. ASSUME NEW r \in Requests, Validate(r)
        PROVE  Issuer!Refuse(r) \/ UNCHANGED Issuer!ivars
    <2>1. CASE pc' = [pc EXCEPT ![r] = "failed"]
      BY <1>2, <2>1, StepRefuses DEF Validate, Go
    <2>2. CASE pc' # [pc EXCEPT ![r] = "failed"]
      <3>1. Silent(r) /\ UNCHANGED <<now, req, since, cred, minted>>
        BY <1>2, <2>2 DEF Validate, Go
      <3> QED BY <3>1, <1>q DEF Issuer!ivars, GrantedBar, RefusedBar
    <2> QED BY <2>1, <2>2
  <1>3. ASSUME NEW r \in Requests, CacheMiss(r) \/ CacheEvict(r)
        PROVE  UNCHANGED Issuer!ivars
    <2>1. Silent(r) /\ UNCHANGED <<now, req, since, cred, minted>>
      BY <1>3 DEF CacheMiss, CacheEvict, Go
    <2> QED BY <2>1, <1>q DEF Issuer!ivars, GrantedBar, RefusedBar
  <1>4. ASSUME NEW r \in Requests, CacheHit(r) \/ CachePut(r)
        PROVE  Issuer!Grant(r)
    <2>1. /\ pc[r] \notin {"idle", "done", "failed"}
          /\ pc' = [pc EXCEPT ![r] = "done"]
          /\ UNCHANGED <<now, req, since, minted>>
          /\ \A x \in Requests \ {r} : cred'[x] = cred[x]
      BY <1>4 DEF CacheHit, CachePut, Go, Return, IInv, TypeOK
    <2> QED BY <2>1, StepGrants
  <1>5. ASSUME NEW r \in Requests, MintTicket(r)
        PROVE  Issuer!Grant(r) \/ Issuer!Issue(r)
    <2>1. /\ pc[r] = "mint"
          /\ UNCHANGED <<now, req, since>>
          /\ \A x \in Requests \ {r} : cred'[x] = cred[x]
      BY <1>5 DEF MintTicket, Go, Return, IInv, TypeOK
    <2>2. Issuer!Enter(r)
      BY <1>5, StepEnters
    <2>3. CASE pc' = [pc EXCEPT ![r] = "done"]
      BY <2>1, <2>2, <2>3, StepGrants
    <2>4. CASE pc' = [pc EXCEPT ![r] = "put"]
      <3>1. GrantedBar' = GrantedBar /\ RefusedBar' = RefusedBar
        BY <2>1, <2>4, <1>q
      <3>2. Issuer!Open(r)
        BY <2>1, OpenCall
      <3> QED BY <2>1, <2>2, <3>1, <3>2 DEF Issuer!Issue, GrantedBar, RefusedBar
    <2> QED BY <1>5, <2>3, <2>4 DEF MintTicket, Go
  <1>6. ASSUME NEW r \in Requests, MintFails(r)
        PROVE  Issuer!Refuse(r)
    BY <1>6, StepRefuses DEF MintFails, Go
  <1>7. ASSUME Tick PROVE Issuer!Tick
    BY <1>7 DEF Tick, Issuer!Tick
  <1>8. ASSUME UNCHANGED vars PROVE UNCHANGED Issuer!ivars
    BY <1>8 DEF vars, Issuer!ivars
  <1> QED
    BY <1>1, <1>2, <1>3, <1>4, <1>5, <1>6, <1>7, <1>8
    DEF Next, Step, Lookup, Quiescent, Issuer!Next

(***************************************************************************)
(* The exchange service implements the credential issuer: whatever the     *)
(* interleaving over the cache, each call is answered at most once, from   *)
(* a ledger of credentials owed to the calls that minted them.             *)
(***************************************************************************)
THEOREM Refinement == Spec => ImplementsIssuer
  <1>1. Issuer!Init /\ [][Issuer!Next]_(Issuer!ivars) => ImplementsIssuer
    BY DEF ImplementsIssuer, Issuer!Spec
  <1> QED BY <1>1, InitRefines, StepRefines, Invariance, PTL DEF Spec

---------------------------------------------------------------------------
(***************************************************************************)
(* What follows for Exchange from implementing the issuer.                 *)
(***************************************************************************)
Promised == INSTANCE CredentialIssuerProofs WITH
  clock   <- now,
  asked   <- req,
  askedAt <- since,
  granted <- [r \in Requests |-> IF pc[r] = "done" THEN cred[r] ELSE NoCred],
  refused <- {r \in Requests : pc[r] = "failed"},
  ledger  <- minted

\* The issuer that Exchange implements is the one the promise is about.
LEMMA SameIssuer == Issuer!Spec => Promised!Spec
  <1>1. Issuer!Init => Promised!Init
    BY DEF Issuer!Init, Promised!Init
  <1>2. [Issuer!Next]_(Issuer!ivars) => [Promised!Next]_(Promised!ivars)
    <2> USE DEF Issuer!Open, Promised!Open
    <2>1. ASSUME NEW r \in Requests, Issuer!Ask(r) PROVE Promised!Ask(r)
      BY <2>1 DEF Issuer!Ask, Promised!Ask, Issuer!ExchangeRequest, Promised!ExchangeRequest,
          Issuer!OutputTypes, Promised!OutputTypes
    <2>2. ASSUME NEW c, NEW q, Issuer!Fits(c, q) PROVE Promised!Fits(c, q)
      BY <2>2 DEF Issuer!Fits, Promised!Fits, Issuer!NoRealm, Promised!NoRealm,
          Issuer!RealmSettled, Promised!RealmSettled
    <2>3. ASSUME NEW r \in Requests, Issuer!Enter(r) PROVE Promised!Enter(r)
      <3>1. PICK c \in minted' : minted' = minted \cup {c} /\ Issuer!Owed(c, r)
        BY <2>3 DEF Issuer!Enter
      <3>2. Promised!Owed(c, r)
        BY <3>1, <2>2 DEF Issuer!Owed, Promised!Owed, Issuer!WithinLifetime,
            Promised!WithinLifetime, Issuer!ZeroTime, Promised!ZeroTime,
            Issuer!AdmittedGroups, Promised!AdmittedGroups
      <3> QED BY <3>1, <3>2 DEF Promised!Enter
    <2>4. ASSUME NEW r \in Requests, Issuer!Issue(r) PROVE Promised!Issue(r)
      BY <2>4, <2>3 DEF Issuer!Issue, Promised!Issue
    <2>5. ASSUME NEW r \in Requests, Issuer!Grant(r) PROVE Promised!Grant(r)
      BY <2>5, <2>2, <2>3 DEF Issuer!Grant, Promised!Grant
    <2>6. ASSUME NEW r \in Requests, Issuer!Refuse(r) PROVE Promised!Refuse(r)
      BY <2>6 DEF Issuer!Refuse, Promised!Refuse
    <2>7. ASSUME Issuer!Tick PROVE Promised!Tick
      BY <2>7 DEF Issuer!Tick, Promised!Tick
    <2>8. ASSUME UNCHANGED Issuer!ivars PROVE UNCHANGED Promised!ivars
      BY <2>8 DEF Issuer!ivars, Promised!ivars
    <2> QED
      BY <2>1, <2>4, <2>5, <2>6, <2>7, <2>8 DEF Issuer!Next, Promised!Next
  <1> QED BY <1>1, <1>2, PTL DEF Issuer!Spec, Promised!Spec

(***************************************************************************)
(* A call of Exchange is answered once and for all: no later step of this  *)
(* or another call, of the cache or of the clock takes back or replaces    *)
(* what was returned (service.go, cache.go).                               *)
(***************************************************************************)
THEOREM Settling == Spec => [][Promised!Final]_(Promised!ivars)
  <1>1. NoReq \notin Promised!ExchangeRequest
    BY ServiceAssumption DEF ExchangeRequest, OutputTypes, Promised!ExchangeRequest,
        Promised!OutputTypes
  <1>2. Promised!Spec => [][Promised!Final]_(Promised!ivars)
    BY <1>1, InputsAssumption, Promised!Finality
    DEF Identity, ServicePrincipal, Promised!Identity, Promised!ServicePrincipal
  <1> QED BY <1>2, SameIssuer, Refinement, PTL DEF ImplementsIssuer
=============================================================================
