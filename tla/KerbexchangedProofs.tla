------------------------ MODULE KerbexchangedProofs ------------------------
(***************************************************************************)
(* Proofs about the server, for any number of requests, any tokens, key    *)
(* sets, questions, keytabs and command lines.  The server takes steps of  *)
(* TokenValidators and steps of ExchangeService, so the invariants proved  *)
(* there hold here; what is added is how the two are tied together, and    *)
(* what main has established by the time it serves.                        *)
(***************************************************************************)
EXTENDS Kerbexchanged, TokenValidatorsProofs

\* The theorems about ExchangeService, for the Service that main builds.
Exchange == INSTANCE ExchangeServiceProofs WITH
  Tokens <- {IdentityOf(t) : t \in Tokens}, Targets <- {q.target : q \in Questions},
  ResolverRealm <- Realm, MinterRealm <- Realm, KeytabRealm <- Realm,
  WithPAC <- TRUE, WithFilter <- FALSE, ScopeGroups <- <<>>,
  Requests <- Calls, WithCache <- TRUE, ChecksExpiry <- TRUE,
  pc <- xpc, since <- [r \in Calls |-> since[r].at]

(***************************************************************************)
(* Tied: where the Exchange of a call is and where its Validate is.  A     *)
(* call that fails may have a valid token, so the last line has no         *)
(* converse.                                                               *)
(***************************************************************************)
Passed == {"lookup", "mint", "put", "done"}

Tied(r) ==
  /\ xpc[r] = "idle" <=> pc[r] = "idle"
  /\ xpc[r] = "validate" <=> pc[r] \in OnJwks
  /\ xpc[r] # "idle" => via[r] = "jwks" /\ req[r].token = IdentityOf(tok[r])
  /\ xpc[r] \in Passed => pc[r] = "valid"

\* What main has found in order when it reaches a stage, and for good.
Checked(s) ==
  /\ s \in {"keytab", "pac", "jwks", "serving"} => config.flags = RequiredFlags
  /\ s \in {"pac", "jwks", "serving"} => config.keytabLoads
  /\ s \in {"jwks", "serving"} => parseDomainSID(config.sid).ok
  /\ s = "serving" => jwks = "ready"

Started(r) == xpc[r] # "idle" => Checked("serving") /\ NoSet \notin saw[r]

KInv ==
  /\ VInv /\ Exchange!IInv
  /\ config \in Config /\ Checked(stage)
  /\ \A r \in Calls : Tied(r) /\ Started(r)

---------------------------------------------------------------------------
(***************************************************************************)
(* The two components inside the server.                                   *)
(***************************************************************************)

\* What ExchangeService assumes of its constants holds for the server's.
LEMMA ServiceInputs ==
  /\ {IdentityOf(t) : t \in Tokens} \subseteq Exchange!Identity
  /\ {q.target : q \in Questions} \subseteq Exchange!ServicePrincipal
  /\ Keytab \subseteq Exchange!ServicePrincipal
  /\ KDCPrincipal \in STRING /\ Realm \in STRING
  /\ TRUE \in BOOLEAN /\ FALSE \in BOOLEAN
  /\ MaxLifetime \in Nat
  /\ NoCred \notin Exchange!Cred
  /\ NoReq \notin Exchange!ExchangeRequest
  /\ ClockSkew \in Nat /\ MaxTime \in Nat \ {0}
  <1>1. ASSUME NEW t \in Tokens PROVE IdentityOf(t) \in Exchange!Identity
    <2>1. t.subject \in STRING /\ t.expiry \in Nat
      BY ValidatorsAssumption DEF Token
    <2>2. Claims[t].readable \in BOOLEAN /\ Claims[t].groups \in SUBSET STRING
      BY ServerAssumption
    <2> QED BY <2>1, <2>2 DEF IdentityOf, Exchange!Identity
  <1>2. /\ {q.target : q \in Questions} \subseteq Exchange!ServicePrincipal
        /\ Keytab \subseteq Exchange!ServicePrincipal
    BY ServerAssumption DEF Exchange!ServicePrincipal
  <1>3. NoCred \notin Exchange!Cred /\ NoReq \notin Exchange!ExchangeRequest
    BY NilAssumption
    DEF Service!Cred, Exchange!Cred, Service!ExchangeRequest, Exchange!ExchangeRequest,
        Service!Credential, Exchange!Credential, Service!ServicePrincipal,
        Exchange!ServicePrincipal, Service!OutputTypes, Exchange!OutputTypes
  <1> QED BY <1>1, <1>2, <1>3, ValidatorsAssumption, ServerAssumption

\* Service and Exchange are instances of one specification: its operators.
LEMMA SameMinting ==
  ASSUME NEW id, NEW spn, NEW output, NEW at, NEW r
  PROVE  /\ Service!Mint(id, spn, output, at, r) = Exchange!Mint(id, spn, output, at, r)
         /\ Service!CanMint(id, spn, output, at) <=> Exchange!CanMint(id, spn, output, at)
  <1> USE DEF Service!ZeroTime, Exchange!ZeroTime, Service!EndTime, Exchange!EndTime,
              Service!Resolve, Exchange!Resolve, Service!InRealm, Exchange!InRealm,
              Service!OrDefault, Exchange!OrDefault, Service!NoRealm, Exchange!NoRealm,
              Service!ServiceKey, Exchange!ServiceKey
  <1>1. Service!AdmittedGroups(id) = Exchange!AdmittedGroups(id)
    BY DEF Service!AdmittedGroups, Exchange!AdmittedGroups
  <1>2. Service!Mint(id, spn, output, at, r) = Exchange!Mint(id, spn, output, at, r)
    BY <1>1 DEF Service!Mint, Exchange!Mint, Service!Ticket, Exchange!Ticket
  <1>3. Service!CanMint(id, spn, output, at) <=> Exchange!CanMint(id, spn, output, at)
    BY DEF Service!CanMint, Exchange!CanMint, Service!CanBuildPAC, Exchange!CanBuildPAC,
           Service!KDCSigningKey, Exchange!KDCSigningKey, Service!Supported, Exchange!Supported
  <1> QED BY <1>2, <1>3

\* Its steps.
LEMMA SameService ==
  /\ Service!Init => Exchange!Init
  /\ [Service!Next]_(Service!vars) => [Exchange!Next]_(Exchange!vars)
  <1>1. Service!Init => Exchange!Init
    BY DEF Service!Init, Exchange!Init, Service!Keys, Exchange!Keys, Service!CacheKey,
           Exchange!CacheKey, Service!OutputTypes, Exchange!OutputTypes
  <1>3. UNCHANGED Service!vars => UNCHANGED Exchange!vars
    BY DEF Service!vars, Exchange!vars
  <1>4. ASSUME NEW r \in Calls, NEW q \in Service!ExchangeRequest, Service!Arrive(r, q)
        PROVE  q \in Exchange!ExchangeRequest /\ Exchange!Arrive(r, q)
    BY <1>4 DEF Service!ExchangeRequest, Exchange!ExchangeRequest, Service!OutputTypes,
                Exchange!OutputTypes, Service!Arrive, Exchange!Arrive, Service!Go, Exchange!Go
  <1>5. ASSUME NEW r \in Calls, Service!Step(r) PROVE Exchange!Step(r)
    <2> USE DEF Service!Go, Exchange!Go, Service!Return, Exchange!Return,
                Service!KeyOf, Exchange!KeyOf, Service!CacheKey, Exchange!CacheKey,
                Service!Expired, Exchange!Expired
    <2>1. CASE Service!Validate(r)
      BY <2>1 DEF Service!Validate, Exchange!Validate, Service!MayAccept, Exchange!MayAccept,
                  Service!ZeroTime, Exchange!ZeroTime, Exchange!Step
    <2>2. CASE Service!Lookup(r)
      BY <2>2 DEF Service!Lookup, Exchange!Lookup, Service!CacheMiss, Exchange!CacheMiss,
                  Service!CacheHit, Exchange!CacheHit, Service!CacheEvict,
                  Exchange!CacheEvict, Exchange!Step
    <2>3. CASE Service!MintTicket(r)
      <3> DEFINE q == req[r]
      <3>1. /\ Service!Mint(q.token, q.target, q.output, now, r)
                 = Exchange!Mint(q.token, q.target, q.output, now, r)
            /\ Service!CanMint(q.token, q.target, q.output, now)
                 => Exchange!CanMint(q.token, q.target, q.output, now)
        BY SameMinting
      <3> QED BY <2>3, <3>1 DEF Service!MintTicket, Exchange!MintTicket, Exchange!Step
    <2>4. CASE Service!MintFails(r)
      BY <2>4 DEF Service!MintFails, Exchange!MintFails, Exchange!Step
    <2>5. CASE Service!CachePut(r)
      BY <2>5 DEF Service!CachePut, Exchange!CachePut, Exchange!Step
    <2> QED BY <1>5, <2>1, <2>2, <2>3, <2>4, <2>5 DEF Service!Step
  <1>6. Service!Tick => Exchange!Tick
    BY DEF Service!Tick, Exchange!Tick
  <1>7. Service!Quiescent => UNCHANGED Service!vars
    BY DEF Service!Quiescent
  <1> QED BY <1>1, <1>3, <1>4, <1>5, <1>6, <1>7 DEF Service!Next, Exchange!Next

\* Every step of the server is a step of TokenValidators or none of its steps.
LEMMA ValidatorStep == [KNext]_kvars => [Next]_vars
  <1>1. ASSUME NEW r \in Calls, NEW t \in Tokens, NEW q \in Questions, Call(r, t, q)
        PROVE  Next
    BY <1>1 DEF Call, Next
  <1>2. ASSUME NEW r \in Calls, Validate(r) PROVE Next
    BY <1>2 DEF Validate, Step, OwnStep, Next
  <1>3. ASSUME CreateValidator PROVE Next
    BY <1>3 DEF CreateValidator, Next
  <1>4. ASSUME Around PROVE Next
    BY <1>4 DEF Around, Next
  <1> QED
    BY <1>1, <1>2, <1>3, <1>4
    DEF KNext, ParseFlags, LoadKeytabSource, NewSyntheticPACBuilder, ListenAndServeFails,
        Issue, Exited, kvars

(***************************************************************************)
(* Every step of the server is a step of the exchange service, or changes  *)
(* nothing there.  The step of Validate that concludes is the service's    *)
(* one step of validation, and it accepts no expired token because the     *)
(* parse looked at the very clock of that step.                            *)
(***************************************************************************)
LEMMA ExchangeStep == KInv /\ [KNext]_kvars => [Service!Next]_(Service!vars)
  <1> SUFFICES ASSUME KInv, [KNext]_kvars PROVE Service!Next \/ UNCHANGED Service!vars
    OBVIOUS
  <1>1. ASSUME NEW r \in Calls, NEW t \in Tokens, NEW q \in Questions, Call(r, t, q)
        PROVE  Service!Next
    <2> DEFINE e == [token |-> IdentityOf(t), target |-> q.target, output |-> q.output]
    <2>1. e \in Service!ExchangeRequest
      BY ServerAssumption DEF Service!ExchangeRequest, Service!OutputTypes
    <2> QED BY <1>1, <2>1 DEF Call, Service!Next
  <1>2. ASSUME NEW r \in Calls, Validate(r)
        PROVE  Service!Next \/ UNCHANGED Service!vars
    <2>1. /\ UNCHANGED <<now, req, since, cred, store, minted>>
          /\ xpc' = IF pc'[r] \in Returned THEN [xpc EXCEPT ![r] = Validated(pc'[r])] ELSE xpc
      BY <1>2 DEF Validate, requireAllowedKeyAlg, Parse, world
    <2>2. xpc[r] = "validate"
      BY <1>2 DEF Validate, requireAllowedKeyAlg, Parse, Go, KInv, Tied, OnJwks
    <2>3. CASE pc'[r] \notin Returned
      BY <2>1, <2>3 DEF Service!vars
    <2>4. CASE pc'[r] \in Returned /\ pc'[r] # "valid"
      BY <2>1, <2>2, <2>4
      DEF Validated, Service!Next, Service!Step, Service!Validate, Service!Go
    <2>5. CASE pc'[r] = "valid"
      <3>1. Parse(r) /\ Parses(tok[r])
        <4>1. pc'[r] # "valid" \/ ~requireAllowedKeyAlg(r)
          BY DEF requireAllowedKeyAlg, Go, KInv, VInv, TypeOK
        <4> QED BY <1>2, <2>5, <4>1 DEF Validate, Parse, Go, KInv, VInv, TypeOK
      <3>2. req[r].token = IdentityOf(tok[r])
        BY <2>2 DEF KInv, Tied
      <3>3. Service!MayAccept(req[r].token)
        BY <3>1, <3>2
        DEF Parses, InTime, IdentityOf, ZeroTime, Service!MayAccept, Service!ZeroTime
      <3> QED
        BY <2>1, <2>2, <2>5, <3>3
        DEF Validated, Returned, Service!Next, Service!Step, Service!Validate, Service!Go
    <2> QED BY <2>3, <2>4, <2>5
  <1>3. ASSUME NEW r \in Calls, Issue(r) PROVE Service!Next
    BY <1>3 DEF Issue, Service!Next, Service!Step
  <1>4. ASSUME Around PROVE Service!Next \/ UNCHANGED Service!vars
    <2>1. CASE Tick
      BY <1>4, <2>1 DEF Around, Tick, exchange, Service!Next, Service!Tick
    <2>2. CASE ~Tick
      BY <1>4, <2>2 DEF Around, Publish, Refresh, ContextEnds, world, exchange, Service!vars
    <2> QED BY <2>1, <2>2
  <1>5. ASSUME ParseFlags \/ LoadKeytabSource \/ NewSyntheticPACBuilder \/ ListenAndServeFails
               \/ CreateValidator
        PROVE  UNCHANGED Service!vars
    BY <1>5 DEF ParseFlags, LoadKeytabSource, NewSyntheticPACBuilder, ListenAndServeFails,
                CreateValidator, NewJWKSValidator, Main, vars, world, exchange, Service!vars
  <1>6. ASSUME UNCHANGED kvars PROVE UNCHANGED Service!vars
    BY <1>6 DEF kvars, vars, world, exchange, Service!vars
  <1> QED BY <1>1, <1>2, <1>3, <1>4, <1>5, <1>6 DEF KNext, Exited

---------------------------------------------------------------------------
(***************************************************************************)
(* The invariant.                                                          *)
(***************************************************************************)
LEMMA InitKInv == KInit => KInv
  <1> SUFFICES ASSUME KInit PROVE KInv
    OBVIOUS
  <1>1. VInv
    BY InitVInv DEF KInit
  <1>2. Exchange!IInv
    <2>1. Exchange!Init
      BY SameService DEF KInit
    <2> QED BY <2>1, ServiceInputs, Exchange!InitIInv
  <1>3. config \in Config /\ Checked(stage)
    BY ServerAssumption DEF KInit, Checked
  <1>4. ASSUME NEW r \in Calls PROVE Tied(r) /\ Started(r)
    <2>1. pc[r] = "idle" /\ xpc[r] = "idle"
      BY DEF KInit, Init, Service!Init
    <2> QED BY <2>1 DEF Tied, Started, OnJwks, Passed
  <1> QED BY <1>1, <1>2, <1>3, <1>4 DEF KInv

\* main goes on only past what it has found in order.
LEMMA NextChecked ==
  ASSUME KInv, [KNext]_kvars
  PROVE  /\ config \in Config /\ UNCHANGED config
         /\ Checked(stage)' /\ (Checked("serving") => Checked("serving")')
  <1>0. config \in Config /\ Checked(stage)
    BY DEF KInv
  <1>f. RequiredFlags \subseteq config.flags => config.flags = RequiredFlags
    BY <1>0 DEF Config
  <1>j. jwks = "ready" => jwks' = "ready"
    <2>1. [Next]_vars
      BY ValidatorStep
    <2> QED
      BY <2>1 DEF Next, Publish, Revoke, Tick, NewJWKSValidator, Refresh, Begin, Step, OwnStep, ContextAborts,
          requireAllowedKeyAlg, Parse, Respond, RequestFails, Conclude, ContextEnds, vars
  <1>1. CASE ParseFlags
    BY <1>0, <1>f, <1>1 DEF ParseFlags, Main, Checked, vars
  <1>2. CASE LoadKeytabSource
    BY <1>0, <1>2 DEF LoadKeytabSource, Main, Checked, vars
  <1>3. CASE NewSyntheticPACBuilder
    BY <1>0, <1>3 DEF NewSyntheticPACBuilder, Main, Checked, vars
  <1>4. CASE CreateValidator
    BY <1>0, <1>j, <1>4 DEF CreateValidator, Main, Checked
  <1>5. CASE ListenAndServeFails
    BY <1>0, <1>5 DEF ListenAndServeFails, Main, Checked, vars
  <1>6. CASE UNCHANGED <<stage, config>>
    BY <1>0, <1>j, <1>6 DEF Checked
  <1> QED
    BY <1>1, <1>2, <1>3, <1>4, <1>5, <1>6 DEF KNext, Call, Validate, Issue, Around, Exited, kvars

\* The two program counters of a call stay tied.
LEMMA NextTied ==
  ASSUME KInv, [KNext]_kvars, NEW r \in Calls PROVE Tied(r)'
  <1>t. /\ Tied(r) /\ DOMAIN xpc = Calls /\ DOMAIN req = Calls
        /\ pc \in [Calls -> {"idle"} \cup Running \cup Returned]
        /\ via \in [Calls -> {"none", "jwks", "introspection"}]
        /\ tok \in [Calls -> Tokens \cup {NoToken}]
    BY DEF KInv, VInv, TypeOK, Exchange!IInv, Exchange!TypeOK
  <1>1. ASSUME NEW s \in Calls, NEW t \in Tokens, NEW q \in Questions, Call(s, t, q)
        PROVE  Tied(r)'
    BY <1>t, <1>1 DEF Call, Begin, Go, Service!Arrive, Service!Go, Tied, OnJwks, Passed, IdentityOf
  <1>2. ASSUME NEW s \in Calls, Validate(s) PROVE Tied(r)'
    <2>1. /\ UNCHANGED <<req, via, tok>>
          /\ xpc' = IF pc'[s] \in Returned THEN [xpc EXCEPT ![s] = Validated(pc'[s])] ELSE xpc
          /\ pc[s] \in OnJwks
          /\ \E to \in {"parse", "valid", "invalid"} : pc' = [pc EXCEPT ![s] = to]
      BY <1>2 DEF Validate, requireAllowedKeyAlg, Parse, Go, OnJwks
    <2> QED BY <1>t, <2>1 DEF Tied, Validated, Returned, OnJwks, Passed, IdentityOf
  <1>3. ASSUME NEW s \in Calls, Issue(s) PROVE Tied(r)'
    <2>1. /\ UNCHANGED <<req, via, tok, pc>>
          /\ xpc[s] \in {"lookup", "mint", "put"}
          /\ \E to \in {"mint", "put", "done", "failed"} : xpc' = [xpc EXCEPT ![s] = to]
      BY <1>3 DEF Issue, vars, Service!Lookup, Service!CacheMiss, Service!CacheHit,
          Service!CacheEvict, Service!CachePut, Service!MintTicket, Service!MintFails, Service!Go
    <2> QED BY <1>t, <2>1 DEF Tied, OnJwks, Passed, IdentityOf
  <1>4. ASSUME UNCHANGED <<pc, via, tok, xpc, req>> PROVE Tied(r)'
    BY <1>t, <1>4 DEF Tied, IdentityOf
  <1> QED
    BY <1>1, <1>2, <1>3, <1>4
    DEF KNext, ParseFlags, LoadKeytabSource, NewSyntheticPACBuilder, CreateValidator,
        NewJWKSValidator, ListenAndServeFails, Main, Around, Publish, Refresh, ContextEnds,
        Tick, Exited, kvars, vars, exchange

\* No call sees an empty cache.
LEMMA NextStarted ==
  ASSUME KInv, [KNext]_kvars, NEW r \in Calls PROVE Started(r)'
  <1>t. /\ Started(r) /\ Checked(stage) /\ TypeOK
        /\ DOMAIN xpc = Calls
        /\ Checked("serving") => Checked("serving")'
    BY NextChecked DEF KInv, VInv, Exchange!IInv, Exchange!TypeOK
  <1>1. ASSUME NEW s \in Calls, NEW t \in Tokens, NEW q \in Questions, Call(s, t, q)
        PROVE  Started(r)'
    <2>1. CASE s = r
      <3>1. saw'[r] = {cached} /\ Checked("serving") /\ cached # NoSet
        BY <1>t, <1>1, <2>1 DEF Call, Begin, Checked, TypeOK
      <3> QED BY <1>t, <3>1 DEF Started
    <2>2. CASE s # r
      <3>1. saw'[r] = saw[r] /\ xpc'[r] = xpc[r]
        BY <1>t, <1>1, <2>2 DEF Call, Begin, TypeOK, Service!Arrive, Service!Go
      <3> QED BY <1>t, <3>1 DEF Started
    <2> QED BY <2>1, <2>2
  <1>2. ASSUME NEW s \in Calls, Validate(s) \/ Issue(s) PROVE Started(r)'
    <2>1. saw' = saw
      BY <1>2 DEF Validate, requireAllowedKeyAlg, Parse, Issue, vars
    <2>2. xpc[r] = "idle" => xpc'[r] = "idle"
      <3>1. xpc[s] # "idle"
        BY <1>2 DEF Validate, requireAllowedKeyAlg, Parse, Go, KInv, Tied, Issue,
            Service!Lookup, Service!CacheMiss, Service!CacheHit, Service!CacheEvict,
            Service!CachePut, Service!MintTicket, Service!MintFails, Service!Go
      <3>2. xpc' = xpc \/ \E to : xpc' = [xpc EXCEPT ![s] = to]
        BY <1>2 DEF Validate, Issue,
            Service!Lookup, Service!CacheMiss, Service!CacheHit, Service!CacheEvict,
            Service!CachePut, Service!MintTicket, Service!MintFails, Service!Go
      <3> QED BY <1>t, <3>1, <3>2
    <2> QED BY <1>t, <2>1, <2>2 DEF Started
  <1>3. ASSUME UNCHANGED xpc, UNCHANGED saw \/ Refresh PROVE Started(r)'
    <2>1. NoSet \notin saw[r] => NoSet \notin saw'[r]
      BY <1>t, <1>3, ValidatorsAssumption DEF Refresh, TypeOK
    <2> QED BY <1>t, <1>3, <2>1 DEF Started
  <1> QED
    BY <1>1, <1>2, <1>3
    DEF KNext, ParseFlags, LoadKeytabSource, NewSyntheticPACBuilder, CreateValidator,
        NewJWKSValidator, ListenAndServeFails, Main, Around, Publish, ContextEnds,
        Tick, Exited, kvars, vars, exchange

LEMMA NextKInv == KInv /\ [KNext]_kvars => KInv'
  <1> SUFFICES ASSUME KInv, [KNext]_kvars PROVE KInv'
    OBVIOUS
  <1>1. VInv'
    BY ValidatorStep, NextVInv DEF KInv
  <1>2. Exchange!IInv'
    <2>1. [Exchange!Next]_(Exchange!vars)
      BY ExchangeStep, SameService
    <2>2. Exchange!IInv
      BY DEF KInv
    <2> QED BY <2>1, <2>2, ServiceInputs, Exchange!NextIInv
  <1>3. (config \in Config)' /\ Checked(stage)'
    BY NextChecked
  <1>4. \A r \in Calls : Tied(r)' /\ Started(r)'
    BY NextTied, NextStarted
  <1> QED BY <1>1, <1>2, <1>3, <1>4 DEF KInv

---------------------------------------------------------------------------
(***************************************************************************)
(* What is shown of the server.                                            *)
(***************************************************************************)

(***************************************************************************)
(* KInv holds in every state: the invariants of the validator and of the   *)
(* exchange hold of their parts of the server, the two program counters of *)
(* a request agree, and main is no further than what it has checked        *)
(* (main.go, service.go).                                                  *)
(***************************************************************************)
THEOREM KInvariance == KSpec => []KInv
  BY InitKInv, NextKInv, PTL DEF KSpec

(***************************************************************************)
(* A request is served only after all of main's checks, and never sees an  *)
(* empty key set cache (main.go).                                          *)
(***************************************************************************)
THEOREM Starting == KSpec => []StartedWhole
  <1>1. KInv => StartedWhole
    BY DEF KInv, Started, Checked, StartedWhole
  <1> QED BY <1>1, KInvariance, PTL

(***************************************************************************)
(* No request is answered, from the cache or by minting, unless a key set  *)
(* cached while it was validated verifies its own token and the token had  *)
(* not expired (service.go, jwksvalidator.go, cache.go).                   *)
(***************************************************************************)
THEOREM Verifying == KSpec => []VerifiedBeforeAnswered
  <1>1. KInv => VerifiedBeforeAnswered
    <2> SUFFICES ASSUME KInv, NEW r \in Calls, xpc[r] \in Passed
                 PROVE  /\ \E S \in saw[r] : Verifies(S, tok[r])
                        /\ tok[r].expiry # ZeroTime => since[r].at < tok[r].expiry
                        /\ req[r].token = IdentityOf(tok[r])
                        /\ xpc[r] = "done" => cred[r].subject = tok[r].subject
      BY DEF VerifiedBeforeAnswered, Passed
    <2>1. pc[r] = "valid" /\ via[r] = "jwks" /\ req[r].token = IdentityOf(tok[r])
      BY DEF KInv, Tied, Passed
    <2>2. /\ \E S \in saw[r] : Verifies(S, tok[r])
          /\ tok[r].expiry # ZeroTime => since[r].at < tok[r].expiry + ClockSkew
          /\ tok[r] \in Tokens
      BY <2>1 DEF KInv, VInv, CallInv, Accepted, Began
    <2>3. tok[r].expiry + ClockSkew = tok[r].expiry
      <3>1. tok[r].expiry \in Nat
        BY <2>2, ValidatorsAssumption DEF Token
      <3>2. ClockSkew = 0
        BY ServerAssumption
      <3> QED BY <3>1, <3>2
    <2>4. xpc[r] = "done" => cred[r].subject = tok[r].subject
      <3>1. xpc[r] = "done" => cred[r].subject = req[r].token.subject
        BY DEF KInv, Exchange!IInv, Exchange!CallsOK, Exchange!Answers, Exchange!Holding
      <3> QED BY <2>1, <3>1 DEF IdentityOf
    <2> QED BY <2>1, <2>2, <2>3, <2>4
  <1> QED BY <1>1, KInvariance, PTL

(***************************************************************************)
(* The assembled server implements the exchange service with its one-step  *)
(* validator, step by step (main.go, service.go).                          *)
(***************************************************************************)
THEOREM Assembling == KSpec => ImplementsExchange
  <1>1. KInit => Service!Init
    BY DEF KInit
  <1>2. Service!Init /\ [][Service!Next]_(Service!vars) => ImplementsExchange
    BY DEF ImplementsExchange, Service!Spec
  <1> QED BY <1>1, <1>2, ExchangeStep, KInvariance, PTL DEF KSpec

(***************************************************************************)
(* So it implements the credential issuer too: with keys rotated, requests *)
(* overtaking each other and a cache between them, every request is        *)
(* answered at most once, from a ledger of credentials owed to the         *)
(* requests that minted them (main.go, service.go, cache.go).              *)
(***************************************************************************)
THEOREM Issuing == KSpec => Exchange!ImplementsIssuer
  <1>1. KInit => Exchange!Init
    BY SameService DEF KInit
  <1>2. KInv /\ [KNext]_kvars => [Exchange!Next]_(Exchange!vars)
    BY ExchangeStep, SameService
  <1>3. Exchange!Init /\ [][Exchange!Next]_(Exchange!vars) => Exchange!Spec
    BY DEF Exchange!Spec
  <1>4. Exchange!Spec => Exchange!ImplementsIssuer
    BY ServiceInputs, Exchange!Refinement
  <1> QED BY <1>1, <1>2, <1>3, <1>4, KInvariance, PTL DEF KSpec

(***************************************************************************)
(* What the server returns answers the request, is bounded by the token    *)
(* and the cap of the call that minted it, was not expired when the call   *)
(* came, opens at the principal it names (main.go gives all three parts    *)
(* one realm) and is shared only with requests that ask the same; the      *)
(* cache holds answers only, and a request that fails leaves nothing       *)
(* behind (main.go, service.go, minter.go, cache.go).                      *)
(***************************************************************************)
THEOREM Serving ==
  KSpec => [](/\ Exchange!AnswersTheQuestion /\ Exchange!LifetimeCapped
              /\ Exchange!LiveOnArrival /\ Exchange!RefusedGetsNothing
              /\ Exchange!SealedForTarget /\ Exchange!EntriesWereAsked
              /\ Exchange!SharedForSameQuestion)
  <1>1. KInit => Exchange!Init
    BY SameService DEF KInit
  <1>2. KInv /\ [KNext]_kvars => [Exchange!Next]_(Exchange!vars)
    BY ExchangeStep, SameService
  <1>3. Exchange!Init /\ [][Exchange!Next]_(Exchange!vars) => Exchange!Spec
    BY DEF Exchange!Spec
  <1>4. Exchange!Spec => [](/\ Exchange!AnswersTheQuestion /\ Exchange!LifetimeCapped
                            /\ Exchange!LiveOnArrival /\ Exchange!RefusedGetsNothing
                            /\ Exchange!SealedForTarget /\ Exchange!EntriesWereAsked
                            /\ Exchange!SharedForSameQuestion)
    <2>1. Exchange!Spec => []Exchange!AnswersTheQuestion
      BY ServiceInputs, Exchange!Answering
    <2>2. Exchange!Spec => []Exchange!LifetimeCapped
      BY ServiceInputs, Exchange!Capping
    <2>3. Exchange!Spec => []Exchange!LiveOnArrival
      BY ServiceInputs, Exchange!AnsweringAlive
    <2>4. Exchange!Spec => []Exchange!RefusedGetsNothing
      BY ServiceInputs, Exchange!Refusing
    <2>5. Exchange!Spec => []Exchange!SealedForTarget
      <3>1. Exchange!Spec => []Exchange!OpensAtTarget
        BY ServiceInputs, Exchange!Sealing
      <3>2. Exchange!OpensAtTarget => Exchange!SealedForTarget
        BY DEF Exchange!OpensAtTarget, Exchange!SealedForTarget, Exchange!RealmSettled
      <3> QED BY <3>1, <3>2, PTL
    <2>6. Exchange!Spec => []Exchange!EntriesWereAsked
      BY ServiceInputs, Exchange!Storing
    <2>7. Exchange!Spec => []Exchange!SharedForSameQuestion
      BY ServiceInputs, Exchange!Sharing
    <2> QED BY <2>1, <2>2, <2>3, <2>4, <2>5, <2>6, <2>7, PTL
  <1> QED BY <1>1, <1>2, <1>3, <1>4, KInvariance, PTL DEF KSpec

(***************************************************************************)
(* Every credential that is handed out traces back to a verified token of  *)
(* its subject that outlasts it, through the cache and whatever happened   *)
(* to the key set in the meantime (service.go, jwksvalidator.go, cache.go).*)
(***************************************************************************)
THEOREM Tracing == KSpec => []MintedOnVerification
  <1>1. KInv /\ VerifiedBeforeAnswered /\ Exchange!SharedForSameQuestion
          => MintedOnVerification
    <2> SUFFICES ASSUME KInv, VerifiedBeforeAnswered, Exchange!SharedForSameQuestion,
                        NEW r \in Calls, xpc[r] = "done"
                 PROVE  LET m == cred[r].sessionKey IN
                        /\ \E S \in saw[m] : Verifies(S, tok[m])
                        /\ tok[m].subject = tok[r].subject
                        /\ tok[m].expiry # ZeroTime => cred[r].expiry <= tok[m].expiry
      BY DEF MintedOnVerification
    <2> DEFINE m == cred[r].sessionKey
    <2>1. cred[r] \in minted
      BY DEF KInv, Exchange!IInv, Exchange!CallsOK, Exchange!Holding
    <2>2. m \in Calls
      BY <2>1 DEF KInv, Exchange!IInv, Exchange!TypeOK, Exchange!Cred, Exchange!Credential
    <2>3. xpc[m] \in Exchange!Holding /\ Exchange!Bounded(cred[r], req[m])
      BY <2>1 DEF KInv, Exchange!IInv, Exchange!MintedOK
    <2>4. (\E S \in saw[m] : Verifies(S, tok[m])) /\ req[m].token = IdentityOf(tok[m])
      BY <2>2, <2>3 DEF VerifiedBeforeAnswered, Exchange!Holding
    <2>5. req[r].token = IdentityOf(tok[r])
      BY DEF VerifiedBeforeAnswered
    <2>6. req[m].token.subject = req[r].token.subject
      BY DEF Exchange!SharedForSameQuestion
    <2>7. tok[m].subject = tok[r].subject
      BY <2>4, <2>5, <2>6 DEF IdentityOf
    <2>8. tok[m].expiry # ZeroTime => cred[r].expiry <= tok[m].expiry
      BY <2>3, <2>4 DEF Exchange!Bounded, IdentityOf, ZeroTime, Exchange!ZeroTime
    <2> QED BY <2>4, <2>7, <2>8
  <1> QED BY <1>1, KInvariance, Verifying, Serving, PTL

(***************************************************************************)
(* The server's validator is the one of module TokenValidators: what it    *)
(* accepts is verified and has passed the guard, and what it rejects has a *)
(* cause, whatever else the server is doing (jwksvalidator.go).            *)
(***************************************************************************)
THEOREM Validating == KSpec => [](AcceptedIsVerified /\ RejectedForCause /\ GuardedWhileCached)
  <1>1. KInit => Init
    BY DEF KInit
  <1>2. Init /\ [][Next]_vars => Spec
    BY DEF Spec
  <1> QED BY <1>1, <1>2, ValidatorStep, Accepting, Rejecting, Guarding, PTL DEF KSpec
=============================================================================
