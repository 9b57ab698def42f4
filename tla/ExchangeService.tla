-------------------------- MODULE ExchangeService --------------------------
(***************************************************************************)
(* Service.Exchange run by concurrent requests over one MemoryCache:       *)
(* validate, look up, mint, store, return.  Each request is a goroutine of *)
(* the HTTP server; it can be overtaken, and the clock can move, between   *)
(* any two of the steps below.  MemoryCache.Get and Put hold the mutex for *)
(* their whole body, so each is one step.                                  *)
(***************************************************************************)
EXTENDS Minting

CONSTANTS
  Requests,      \* identities of the calls of Exchange
  NoCred,        \* the nil *Credential
  NoReq,         \* a request that has not arrived
  WithCache,     \* TRUE iff Service.Cache is set
  ChecksExpiry,  \* TRUE iff the validator rejects expired tokens (JWKS)
  ClockSkew,     \* WithClockSkew of such a validator
  MaxTime        \* bound on the clock

VARIABLES
  now,     \* the wall clock, time.Now()
  pc,      \* where each request is
  req,     \* the ExchangeRequest of each request
  since,   \* history: when each request arrived
  cred,    \* the credential each request holds or returned
  store,   \* MemoryCache.store, NoCred for an absent key
  minted   \* history: every credential ever minted

vars == <<now, pc, req, since, cred, store, minted>>

Cred == Credential(Requests)
Keys == {CacheKey(t.subject, s, o) : t \in Tokens, s \in Targets, o \in OutputTypes}
Answered == {"done", "failed"}

ASSUME ServiceAssumption ==
  /\ NoCred \notin Cred
  /\ NoReq \notin ExchangeRequest
  /\ WithCache \in BOOLEAN
  /\ ChecksExpiry \in BOOLEAN
  /\ ClockSkew \in Nat
  /\ MaxTime \in Nat \ {0}

TypeOK ==
  /\ now \in 1 .. MaxTime
  /\ pc \in [Requests -> {"idle", "validate", "lookup", "mint", "put"} \cup Answered]
  /\ req \in [Requests -> ExchangeRequest \cup {NoReq}]
  /\ since \in [Requests -> 0 .. MaxTime]
  /\ cred \in [Requests -> Cred \cup {NoCred}]
  /\ store \in [Keys -> Cred \cup {NoCred}]
  /\ minted \in SUBSET Cred

Init ==
  /\ now = 1
  /\ pc = [r \in Requests |-> "idle"]
  /\ req = [r \in Requests |-> NoReq]
  /\ since = [r \in Requests |-> 0]
  /\ cred = [r \in Requests |-> NoCred]
  /\ store = [k \in Keys |-> NoCred]
  /\ minted = {}

---------------------------------------------------------------------------
Go(r, from, to) == pc[r] = from /\ pc' = [pc EXCEPT ![r] = to]

Return(r, c) == cred' = [cred EXCEPT ![r] = c]

KeyOf(q) == CacheKey(q.token.subject, q.target, q.output)

\* A call of Exchange begins.
Arrive(r, q) ==
  /\ Go(r, "idle", "validate")
  /\ req' = [req EXCEPT ![r] = q]
  /\ since' = [since EXCEPT ![r] = now]
  /\ UNCHANGED <<now, cred, store, minted>>

\* Fault: an expired token passes.
MayAccept_Expired(id) == TRUE

(***************************************************************************)
(* TokenValidator.Validate.  A JWKS validator accepts a token only while   *)
(* it is within its expiry plus the skew; the introspection and delegated  *)
(* ones do not look at the expiry.  Any of them may reject any token (bad  *)
(* signature, inactive, endpoint unreachable).                             *)
(***************************************************************************)
MayAccept(id) ==
  ChecksExpiry => id.expiry = ZeroTime \/ now < id.expiry + ClockSkew

Validate(r) ==
  /\ \/ /\ Go(r, "validate", "failed")
     \/ /\ Go(r, "validate", IF WithCache THEN "lookup" ELSE "mint")
        /\ MayAccept(req[r].token)
  /\ UNCHANGED <<now, req, since, cred, store, minted>>

\* Fault: the expiry is not looked at.
Expired_Never(c) == FALSE

(***************************************************************************)
(* MemoryCache.Get: a miss, a hit, or an expired entry that is deleted     *)
(* before a miss is reported.  An entry that expires at this very instant  *)
(* is still a hit (Expiry().Before(now) is strict).                        *)
(***************************************************************************)
Expired(c) == c.expiry < now

CacheMiss(r) ==
  /\ Go(r, "lookup", "mint")
  /\ store[KeyOf(req[r])] = NoCred
  /\ UNCHANGED <<now, req, since, cred, store, minted>>

CacheHit(r) ==
  LET c == store[KeyOf(req[r])] IN
  /\ Go(r, "lookup", "done")
  /\ c # NoCred /\ ~Expired(c)
  /\ Return(r, c)
  /\ UNCHANGED <<now, req, since, store, minted>>

\* Fault: Get deletes the entry whatever its expiry.
CacheEvict_Live(r) ==
  LET k == KeyOf(req[r]) IN
  /\ Go(r, "lookup", "mint")
  /\ store[k] # NoCred
  /\ store' = [store EXCEPT ![k] = NoCred]
  /\ UNCHANGED <<now, req, since, cred, minted>>

CacheEvict(r) ==
  LET k == KeyOf(req[r]) IN
  /\ Go(r, "lookup", "mint")
  /\ store[k] # NoCred /\ Expired(store[k])
  /\ store' = [store EXCEPT ![k] = NoCred]
  /\ UNCHANGED <<now, req, since, cred, minted>>

(***************************************************************************)
(* Resolve, cap the lifetime, mint and select the output; time.Now() is    *)
(* read once.  Without a cache the credential is returned here.            *)
(***************************************************************************)
MintTicket(r) ==
  LET q == req[r]
      c == Mint(q.token, q.target, q.output, now, r) IN
  /\ Go(r, "mint", IF WithCache THEN "put" ELSE "done")
  /\ CanMint(q.token, q.target, q.output, now)
  /\ Return(r, c)
  /\ minted' = minted \cup {c}
  /\ UNCHANGED <<now, req, since, store>>

\* Fault: a failed mint is retried from the start instead of reported.
MintFails_Retries(r) ==
  /\ Go(r, "mint", "validate")
  /\ UNCHANGED <<now, req, since, cred, store, minted>>

\* A check of CanMint fails, or a call into the krb5 library does.
MintFails(r) ==
  /\ Go(r, "mint", "failed")
  /\ UNCHANGED <<now, req, since, cred, store, minted>>

\* Fault: the key is made from the resolved target.
CachePut_Resolved(r) ==
  LET q == req[r]
      t == Resolve(q.token, q.target).target IN
  /\ Go(r, "put", "done")
  /\ store' = [store EXCEPT ![CacheKey(q.token.subject, t, q.output)] = cred[r]]
  /\ UNCHANGED <<now, req, since, cred, minted>>

\* MemoryCache.Put, replacing whatever another request stored meanwhile.
CachePut(r) ==
  /\ Go(r, "put", "done")
  /\ store' = [store EXCEPT ![KeyOf(req[r])] = cred[r]]
  /\ UNCHANGED <<now, req, since, cred, minted>>

Tick ==
  /\ now < MaxTime
  /\ now' = now + 1
  /\ UNCHANGED <<pc, req, since, cred, store, minted>>

\* Every call has returned and the clock is at its bound: the instance ends.
Quiescent ==
  /\ \A r \in Requests : pc[r] \in Answered
  /\ now = MaxTime
  /\ UNCHANGED vars

Lookup(r) == CacheMiss(r) \/ CacheHit(r) \/ CacheEvict(r)

Step(r) == Validate(r) \/ Lookup(r) \/ MintTicket(r) \/ MintFails(r) \/ CachePut(r)

Next ==
  \/ \E r \in Requests, q \in ExchangeRequest : Arrive(r, q)
  \/ \E r \in Requests : Step(r)
  \/ Tick
  \/ Quiescent

Spec == Init /\ [][Next]_vars

---------------------------------------------------------------------------
(***************************************************************************)
(* What is checked.                                                        *)
(***************************************************************************)

(***************************************************************************)
(* The cached and the freshly minted path both answer a call with a        *)
(* credential for the subject of the call's own token, for the service it  *)
(* names in its realm, in the representation it asked for - the handler's  *)
(* APReq()/CCache() then cannot fail (service.go, cache.go, issue.go).     *)
(***************************************************************************)
AnswersTheQuestion ==
  \A r \in Requests : pc[r] = "done" =>
    /\ cred[r].subject = req[r].token.subject
    /\ cred[r].target.name = req[r].target.name
    /\ req[r].target.realm # NoRealm => cred[r].target.realm = req[r].target.realm
    /\ cred[r].output = req[r].output

(***************************************************************************)
(* Every credential that is cached or returned was minted for some call    *)
(* and never lasts longer than that call's token or than MaxLifetime; it   *)
(* is never already expired when minted, so a token without an expiry and  *)
(* without a cap yields nothing (service.go, minter.go).                   *)
(***************************************************************************)
Outstanding ==
  {cred[r] : r \in {s \in Requests : pc[s] = "done"}}
    \cup {store[k] : k \in {l \in Keys : store[l] # NoCred}}

LifetimeCapped ==
  \A c \in Outstanding :
    LET id == req[c.sessionKey].token IN
    /\ c.expiry > c.authTime
    /\ id.expiry # ZeroTime => c.expiry <= id.expiry
    /\ MaxLifetime > 0 => c.expiry <= c.authTime + MaxLifetime

(***************************************************************************)
(* A returned credential was still live when its call arrived: a cached    *)
(* one is not returned after its end, however long the call was overtaken  *)
(* (cache.go, Get).                                                        *)
(***************************************************************************)
LiveOnArrival ==
  \A r \in Requests : pc[r] = "done" => cred[r].expiry >= since[r]

(***************************************************************************)
(* With a validator that checks expiry, a call that arrives with an        *)
(* expired token gets nothing, not even what the cache holds for its       *)
(* subject; and a failed call leaves no credential behind (service.go).    *)
(***************************************************************************)
RefusedGetsNothing ==
  \A r \in Requests :
    /\ pc[r] = "done" /\ ChecksExpiry /\ req[r].token.expiry # ZeroTime
         => since[r] < req[r].token.expiry + ClockSkew
    /\ pc[r] = "failed" =>
         cred[r] = NoCred /\ \A c \in Outstanding : c.sessionKey # r

(***************************************************************************)
(* Resolver, minter and key source each fill in a missing realm with a     *)
(* default of their own.  A ticket is still sealed with the key of the     *)
(* very principal it names, which can then open it, if the caller named a  *)
(* realm, the resolver has one, or the other two agree, and only if: in    *)
(* the one configuration that is left it is sealed with the key of that    *)
(* service in the key source's realm and names the minter's (resolver.go,  *)
(* minter.go, keysource.go).                                               *)
(***************************************************************************)
OpensAtTarget ==
  \A c \in minted :
    /\ c.sealedWith \in Keytab /\ c.sealedWith.name = c.target.name
    /\ RealmSettled(req[c.sessionKey].target) <=> c.sealedWith = c.target

(***************************************************************************)
(* A live entry leaves the cache only by being replaced: no Get, of this   *)
(* or another request, drops a credential that has not expired (cache.go). *)
(***************************************************************************)
LiveEntryKept ==
  [][\A k \in Keys : store[k] # NoCred /\ store[k].expiry >= now
                     => store'[k] # NoCred]_vars

(***************************************************************************)
(* Nothing but a Get of the same key removes an expired entry, so the map  *)
(* grows.  By no more than what was asked: there is an entry only under    *)
(* the key of a call that returned, one for all its repetitions, and never *)
(* under a key that later calls would not ask for (cache.go, service.go).  *)
(***************************************************************************)
EntriesWereAsked ==
  \A k \in Keys : store[k] # NoCred => \E r \in Requests : pc[r] = "done" /\ k = KeyOf(req[r])

(***************************************************************************)
(* The cache leaves the expiry and the scopes of a token out of its key,   *)
(* so a call can be answered with what another token earned (see           *)
(* NarrowedToScope).  Never with more than that: the call it was minted    *)
(* for asked the same question, for the same subject, service and output,  *)
(* and its own token admits every group listed (service.go, cache.go).     *)
(***************************************************************************)
SharedForSameQuestion ==
  \A r \in Requests : pc[r] = "done" =>
    LET q == req[cred[r].sessionKey] IN
    /\ q \in ExchangeRequest
    /\ q.token.subject = req[r].token.subject
    /\ q.target = req[r].target /\ q.output = req[r].output
    /\ cred[r].groups \subseteq AdmittedGroups(q.token)

(***************************************************************************)
(* Every call of Exchange returns, with a credential or an error: no step  *)
(* waits for another call (service.go).  Module HttpExchange states the    *)
(* fairness.                                                               *)
(***************************************************************************)
EveryCallReturns ==
  \A r \in Requests : pc[r] = "validate" ~> pc[r] \in Answered

(***************************************************************************)
(* The promise of module CredentialIssuer: the set of minted credentials   *)
(* is its ledger.                                                          *)
(***************************************************************************)
Issuer == INSTANCE CredentialIssuer WITH
  clock   <- now,
  asked   <- req,
  askedAt <- since,
  granted <- [r \in Requests |-> IF pc[r] = "done" THEN cred[r] ELSE NoCred],
  refused <- {r \in Requests : pc[r] = "failed"},
  ledger  <- minted

\* Exchange with its cache implements the issuer (service.go, cache.go).
ImplementsIssuer == Issuer!Spec

---------------------------------------------------------------------------
(***************************************************************************)
(* Statements of the repository's documentation, taken literally.          *)
(***************************************************************************)

(***************************************************************************)
(* identity.go, on Identity.Expiry: "the issued ticket never outlives it". *)
(* The credential a call returns ends no later than the token it presented.*)
(***************************************************************************)
NeverOutlivesToken ==
  \A r \in Requests : pc[r] = "done" /\ req[r].token.expiry # ZeroTime =>
    cred[r].expiry <= req[r].token.expiry

(***************************************************************************)
(* README: "exchanging a narrowly-scoped token yields a correspondingly    *)
(* narrowed Kerberos credential".  A returned credential lists no group    *)
(* that the scopes of the presented token do not admit.                    *)
(***************************************************************************)
NarrowedToScope ==
  \A r \in Requests : pc[r] = "done" /\ WithFilter =>
    \A g \in cred[r].groups :
      \E s \in req[r].token.scopes \cap DOMAIN ScopeGroups : g \in ScopeGroups[s]

(***************************************************************************)
(* keysource.go, on KDCSigningKey: the key "is used ONLY for the PAC       *)
(* KDC/ticket checksums".  No ticket is sealed with it.                    *)
(***************************************************************************)
KDCKeyOnlySigns == \A c \in minted : c.sealedWith # KDCSigningKey

(***************************************************************************)
(* keysource.go, on KeySource: it "provides the long-term key for a        *)
(* service principal, used to encrypt the minted service ticket";          *)
(* minter.go, on Target: "the service principal for which the ticket was   *)
(* issued, with the resolved realm populated".  Every ticket is encrypted  *)
(* with the key of the principal it was issued for.                        *)
(***************************************************************************)
SealedForTarget == \A c \in minted : c.sealedWith = c.target
=============================================================================
