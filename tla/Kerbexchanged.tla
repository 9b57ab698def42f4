--------------------------- MODULE Kerbexchanged ---------------------------
(***************************************************************************)
(* The server cmd/kerbexchanged: it starts up, or exits on the way, and    *)
(* then serves concurrent requests with a Service whose validator is the   *)
(* JWKSValidator of module TokenValidators and whose cache, resolver and   *)
(* minter are those of module ExchangeService.  The Exchange of a request  *)
(* runs the validator's steps, with key rotations and other requests in    *)
(* between, and asks the cache after they have returned.                   *)
(*                                                                         *)
(* main gives the validator no options: issuer and audience are not        *)
(* checked, so that every token is "accepted", and ClockSkew is 0.  The    *)
(* validator never asks the provider whether a token was revoked.          *)
(***************************************************************************)
EXTENDS TokenValidators, Encodings

CONSTANTS
  Configs,       \* what main can be started with, members of Config
  Claims,        \* token -> what the claims mapper finds in it
  Questions,     \* the targets and outputs that clients ask for
  Realm,         \* -realm
  Keytab,        \* the principals in the file -keytab
  KDCPrincipal,  \* krbtgt/Realm
  MaxLifetime,   \* -max-lifetime
  NoCred, NoReq

VARIABLES
  stage,    \* how far main has come: what it does next, "serving", "exited"
  config,   \* its flags and what they name
  xpc,      \* where the Exchange of each request is
  req,      \* its ExchangeRequest
  cred,     \* the credential it holds or returned
  store,    \* MemoryCache.store
  minted    \* history: every credential ever minted

exchange == <<xpc, req, cred, store, minted>>
kvars == <<vars, exchange, stage, config>>

RequiredFlags == {"keytab", "realm", "jwks-url", "domain-sid"}
Config == [flags : SUBSET RequiredFlags, keytabLoads : BOOLEAN, sid : Seq(Int)]

ASSUME ServerAssumption ==
  /\ Configs \subseteq Config
  /\ Claims \in [Tokens -> [readable : BOOLEAN, groups : SUBSET STRING]]
  /\ Questions \subseteq [target : [name : STRING, realm : STRING],
                           output : {"ccache", "apreq"}]
  /\ Realm \in STRING \ {""}
  /\ Keytab \subseteq [name : STRING, realm : STRING]
  /\ KDCPrincipal \in STRING
  /\ MaxLifetime \in Nat
  /\ ClockSkew = 0

\* The Identity that JWKSValidator returns for t, as the service reads it.
IdentityOf(t) ==
  [subject |-> t.subject, expiry |-> t.expiry, readable |-> Claims[t].readable,
   groups |-> Claims[t].groups, scopes |-> {}]

\* The Service that main builds: one realm for all its parts, no scope filter.
Service == INSTANCE ExchangeService WITH
  Tokens <- {IdentityOf(t) : t \in Tokens}, Targets <- {q.target : q \in Questions},
  ResolverRealm <- Realm, MinterRealm <- Realm, KeytabRealm <- Realm,
  WithPAC <- TRUE, WithFilter <- FALSE, ScopeGroups <- <<>>,
  Requests <- Calls, WithCache <- TRUE, ChecksExpiry <- TRUE,
  pc <- xpc, since <- [r \in Calls |-> since[r].at]

ASSUME NilAssumption == NoCred \notin Service!Cred /\ NoReq \notin Service!ExchangeRequest

KInit ==
  /\ Init
  /\ stage = "flags" /\ config \in Configs
  /\ Service!Init

---------------------------------------------------------------------------
(***************************************************************************)
(* main, up to ListenAndServe.  Every failure is log.Fatal.                *)
(***************************************************************************)
Main(from, ok, to) ==
  /\ stage = from
  /\ stage' = IF ok THEN to ELSE "exited"
  /\ UNCHANGED <<exchange, config>>

\* Fault: a missing realm is not noticed.
ParseFlags_NoRealm ==
  /\ UNCHANGED vars
  /\ Main("flags", RequiredFlags \ {"realm"} \subseteq config.flags, "keytab")

ParseFlags ==
  /\ UNCHANGED vars
  /\ Main("flags", RequiredFlags \subseteq config.flags, "keytab")

LoadKeytabSource ==
  /\ UNCHANGED vars
  /\ Main("keytab", config.keytabLoads, "pac")

NewSyntheticPACBuilder ==
  /\ UNCHANGED vars
  /\ Main("pac", parseDomainSID(config.sid).ok, "jwks")

CreateValidator ==
  /\ NewJWKSValidator
  /\ Main("jwks", jwks' = "ready", "serving")

\* The address is in use, or Accept fails later: the process ends, with its
\* requests under way.
ListenAndServeFails ==
  /\ UNCHANGED vars
  /\ Main("serving", FALSE, "serving")

---------------------------------------------------------------------------
(***************************************************************************)
(* A request, from the handler's call of Service.Exchange to its return.   *)
(***************************************************************************)
Call(r, t, q) ==
  /\ stage = "serving"
  /\ Begin(r, t, "jwks")
  /\ Service!Arrive(r, [token |-> IdentityOf(t), target |-> q.target, output |-> q.output])
  /\ UNCHANGED <<stage, config>>

\* Fault: the error of Validate is not looked at.
Validated_Ignored(outcome) == "lookup"

\* How Exchange goes on when Validate has returned.
Validated(outcome) == IF outcome = "valid" THEN "lookup" ELSE "failed"

Validate(r) ==
  /\ stage = "serving"
  /\ requireAllowedKeyAlg(r) \/ Parse(r)
  /\ xpc' = IF pc'[r] \in Returned THEN [xpc EXCEPT ![r] = Validated(pc'[r])] ELSE xpc
  /\ UNCHANGED <<req, cred, store, minted, stage, config>>

Issue(r) ==
  /\ stage = "serving"
  /\ UNCHANGED <<vars, stage, config>>
  /\ \/ Service!Lookup(r) \/ Service!CachePut(r)
     \/ Service!MintTicket(r) \/ Service!MintFails(r)

\* The provider, the refresh, the callers and the clock, while main runs.
Around ==
  /\ stage # "exited"
  /\ \/ \E S \in KeySets : Publish(S)
     \/ Refresh
     \/ \E r \in Calls : ContextEnds(r)
     \/ Tick
  /\ UNCHANGED <<exchange, stage, config>>

Exited == stage = "exited" /\ UNCHANGED kvars

KNext ==
  \/ ParseFlags \/ LoadKeytabSource \/ NewSyntheticPACBuilder
  \/ CreateValidator \/ ListenAndServeFails
  \/ \E r \in Calls, t \in Tokens, q \in Questions : Call(r, t, q)
  \/ \E r \in Calls : Validate(r) \/ Issue(r)
  \/ Around \/ Exited

(***************************************************************************)
(* A request that is served keeps running.  Nothing is assumed of main:    *)
(* its first fetch of the key set has neither a timeout nor a deadline.    *)
(***************************************************************************)
KSpec == KInit /\ [][KNext]_kvars /\ \A r \in Calls : WF_kvars(Validate(r) \/ Issue(r))

---------------------------------------------------------------------------
(***************************************************************************)
(* What is checked.                                                        *)
(***************************************************************************)

(***************************************************************************)
(* No answer without a verification of the caller's own token.  Whatever   *)
(* the cache holds for the subject, a call is answered only if a key set   *)
(* that was cached during this very call verifies its token and the token  *)
(* had not expired when the call began: after a retired key has left the   *)
(* cached set, tokens signed with it get nothing, not even a credential    *)
(* minted while the key was good (service.go, jwksvalidator.go).           *)
(***************************************************************************)
VerifiedBeforeAnswered ==
  \A r \in Calls : xpc[r] \in {"lookup", "mint", "put", "done"} =>
    /\ \E S \in saw[r] : Verifies(S, tok[r])
    /\ tok[r].expiry # ZeroTime => since[r].at < tok[r].expiry
    /\ req[r].token = IdentityOf(tok[r])
    /\ xpc[r] = "done" => cred[r].subject = tok[r].subject

(***************************************************************************)
(* Nor was the credential itself minted without one.  Traced back through  *)
(* the cache to the request that it was minted for, it stands on a token   *)
(* of the same subject, which a key set cached during that request         *)
(* verifies and which the credential does not outlive (service.go,         *)
(* jwksvalidator.go, cache.go).                                            *)
(***************************************************************************)
MintedOnVerification ==
  \A r \in Calls : xpc[r] = "done" =>
    LET m == cred[r].sessionKey IN
    /\ \E S \in saw[m] : Verifies(S, tok[m])
    /\ tok[m].subject = tok[r].subject
    /\ tok[m].expiry # ZeroTime => cred[r].expiry <= tok[m].expiry

(***************************************************************************)
(* A server that takes a request has come through all of main: every       *)
(* required flag was given, the keytab loaded, the SID parsed, and a key   *)
(* set was fetched, so that no call ever saw an empty cache (main.go).     *)
(***************************************************************************)
StartedWhole ==
  \A r \in Calls : xpc[r] # "idle" =>
    /\ config.flags = RequiredFlags /\ config.keytabLoads
    /\ parseDomainSID(config.sid).ok
    /\ NoSet \notin saw[r]

(***************************************************************************)
(* The assembled server implements module ExchangeService, whose validator *)
(* is one step that may refuse at will but accepts no expired token; what  *)
(* is proved of that module holds for the server (main.go, service.go).    *)
(***************************************************************************)
ImplementsExchange == Service!Spec

(***************************************************************************)
(* Every request is answered unless the process ends, however often keys   *)
(* are rotated meanwhile (main.go, service.go).                            *)
(***************************************************************************)
ServedUnlessExited ==
  \A r \in Calls : xpc[r] = "validate" ~> xpc[r] \in {"done", "failed"} \/ stage = "exited"
=============================================================================
