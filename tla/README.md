# Verification of go-oauth2-kerberos-exchange

The repository is a Go library and a small server that exchange an OAuth access
token for a Kerberos credential: validate the token, look in a cache, resolve
the principals, mint a service ticket with a keytab (no KDC is contacted), store
it and return it as a ccache or an AP-REQ, directly or over an RFC 8693 HTTP
endpoint. This directory holds TLA+ models of it, the TLC configurations that
check them and TLAPS proofs about them. Module and definition names follow the
source; `PROJECT.json` maps each definition to its lines.

## 1. Inventory

| Component (source) | State | Operations | Interacts with | Hard part | Correct when |
|---|---|---|---|---|---|
| Exchange service (`service.go`, `issue.go`, `credential.go`) | none of its own; each call has its locals | `Exchange` | validator, cache, resolver, minter; called by the HTTP handler, one goroutine per request | steps of concurrent calls interleave; time passes between validation, lookup and mint | a call is answered for its own subject, target and output, within its token's life; a failed call leaves nothing |
| Credential cache (`cache.go`) | mutex, map from key to `*Credential` | `Get` (evicts lazily), `Put`, `CacheKey` | shared by all calls | what is found was made for another token; two misses on one key | never an expired, mismatched or dropped live entry |
| Resolver (`resolver.go`) | default realm | `Resolve` | called before minting | three parts default realms on their own | the ticket's principal and its key agree |
| Direct minter (`minter.go`, `authdata.go`) | key source, realm, PAC builder | `Mint` | key source, PAC builder | order of checks, zero times | lifetime bounded, no ticket after a failed check |
| Key source (`keysource.go`) | keytab, read once | `ServiceKey`, `KDCSigningKey` | minter | rotation; signing key against sealing keys | the right key for each use |
| PAC builder, scope filter (`pacbuilder.go`, `scopefilter.go`) | RID overrides, policy map | `Build`, `Admit`, `groupRID`, `parseDomainSID` | claims mapper | duplicate groups, hash collisions, narrow fields | exactly the admitted groups, each RID once; the configured SID |
| Claims mapper (`claimsmap.go`) | none | `Map`, `stringOrList` | PAC builder | two JSON shapes of a claim | the same list from both |
| Validators (`validator.go`, `jwksvalidator.go`, `introspection.go`) | cached JWKS, refreshed in the background | `Validate` | identity provider | key set changes between guard and parse; no timeout | only tokens an allowed key verifies |
| HTTP handler and client (`httpexchange/`, `request.go`, `error_mapping.go`, `tokentype.go`) | none | `NewHandler`'s function, `Client.Exchange` | service; network | lost messages, a client that gives up, expiry counted on two sides | the client gets what it asked for, or an error |
| Principal names (`principal.go`) | none | `Parse`, `String` | request translation, cache key | separators inside parts | round trip |
| Encoders (`ccache_write.go`, `apreq.go`) | none | marshal, DER length | issue | length boundaries | decodable output |
| `kerbexchanged` (`cmd/`) | how far `main` has come | start-up, serving | everything | four flags and three constructors that can fail; key rotation while entries are cached | it serves only when whole, and answers only what it has verified |
| Fixtures (`test/`) | - | write fixtures | - | - | - |

The shared mutable state is the cache (and the JWKS set); the actors are the
request goroutines, the clock, the clients, the network and the refresher.
Nothing is persisted, so there is no crash recovery: a restart is `Init`.

## 2. Modules

| Module | Contents |
|---|---|
| `Minting` | Stateless part of an exchange as operators: `Resolve`, `EndTime`, `ServiceKey`, `KDCSigningKey`, `AdmittedGroups`, `CanMint`, `Mint`, `CacheKey`; the assumptions on the constants |
| `ExchangeService` | `Service.Exchange` by concurrent requests over one `MemoryCache`, and the clock |
| `CredentialIssuer` | Abstract specification: a ledger that only grows; each call is refused or granted one fitting ledger entry |
| `HttpExchange` | Client, network and handler, extending `ExchangeService` |
| `TokenValidators` | `JWKSValidator` and `IntrospectionValidator` against a provider that rotates keys and revokes tokens |
| `PacGroups` | The three loops of `Build` and `Admit`, one action per iteration |
| `Kerbexchanged` | The server: start-up, then `TokenValidators` (extended) and `ExchangeService` (instantiated) composed, request by request |
| `Names` | Conversions of text as operators: `ParseServicePrincipal`, `String`, `CacheKeyText`, `stringOrList`, `MapClaims` |
| `Encodings` | Conversions to fixed widths: `derLength`, `lenDERLen`, `MarshalAPReqToken`, `parseDomainSID` |
| `Conversions` | A machine that makes one conversion after another and keeps what went in and what came out |
| `MCExchange`, `MCHttp`, `MCValidators`, `MCPacGroups`, `MCKerbexchanged`, `MCConversions` | Instances for TLC |
| `CredentialIssuerProofs`, `ExchangeServiceProofs`, `HttpExchangeProofs`, `TokenValidatorsProofs`, `PacGroupsProofs`, `KerbexchangedProofs`, `ConversionsProofs` | Proofs |

Operators whose name has the form `Definition_Variant`, commented "Fault", are
wrong versions of a definition. No specification uses them; they show that each
property is violated when the code is broken in that way.

### State and actions against the code

`ExchangeService`. `pc[r]` is where call `r` is in `Exchange`; `req`, `cred` are
its argument and result; `store` is `MemoryCache.store` (`NoCred` for an absent
key); `now` is `time.Now()`. `since` (arrival time) and `minted` (everything ever
minted) are history. One action per step that another goroutine can see: `Arrive`,
`Validate`, `CacheMiss`/`CacheHit`/`CacheEvict` (the three ways through `Get`,
atomic because of the mutex), `MintTicket`/`MintFails` (resolve, cap, mint and
output selection touch only locals, so they are one step that reads the clock
once, as the code does; `MintFails` may happen although every check passes, since the calls
into the krb5 library can fail), `CachePut`, `Tick`. A validator may reject any token; a
JWKS validator accepts only before expiry plus skew. The session key, random in
the code, is the identity of the call that minted it.

`HttpExchange`. `client[r]` and `wire[r]` say how far a request is; `form`, `reply`,
`got` are what travelled. A wire string is what its reader makes of it: a
principal, `Malformed`, or `NoName` when empty. Forms other than the library
client's are an input set. `GiveUp` and `Lose` can happen at any time; the server
goes on regardless, and the cache keeps what it stores. The clock has `Second`
ticks a second, so that the truncation of `expires_in` is visible.

`TokenValidators`. `published` and `active` belong to the provider (`Publish`,
`Revoke`), `cached` is the set inside `jwk.Cache`, which `Refresh` replaces at any
time; `pc`, `tok`, `resp`, `identity` belong to the calls of `Validate`. A JWKS
validation is two steps, because the code reads the set twice: the guard
`requireAllowedKeyAlg` and the `Parse`. An introspection is a request that fails
(`RequestFails`) or is answered (`Respond`) and a conclusion drawn from the answer
(`Conclude`), with any steps of the provider in between. `ContextEnds` puts a call whose
caller went away into `ended`: the guard takes that for an empty key set, and `net/http`
gives up an unanswered request (`ContextAborts`). `OwnStep` is what a call does by itself,
`Step` adds what the endpoint does. A token's `notBefore` is the later of its nbf and iat,
which `jwt.Parse` checks alike. `by`, `saw` and
`since` are history. `DelegatedValidator` only forwards. `ExchangeService` uses the
weaker `MayAccept`, which covers all validators.

`PacGroups`. `names`, `granted`, `i`, `admitted`, `out`, `seen`, `groupIDs` are the
variables of the code. FNV-32a is an arbitrary function, so a collision is an
ordinary input.

`Kerbexchanged`. `stage` is the next thing `main` does; `config` says which flags were
given, whether the keytab loads and which SID is configured. `ParseFlags`,
`LoadKeytabSource`, `NewSyntheticPACBuilder` and `CreateValidator` follow `main` in its
order, each going on or to `exited` (`log.Fatal`); `ListenAndServeFails` ends the process
at any later time with requests under way. A request is `Call` (a call of `Exchange`, and
of `Validate` inside it), `Validate` (the two steps of `TokenValidators`; when the second
returns, `Exchange` goes on to the cache or fails) and `Issue` (the steps of
`ExchangeService` after validation). Clock and key sets are shared; the arrival time of
`ExchangeService` is the one that `TokenValidators` records. The validator is the one `main`
constructs: no issuer, no audience, no skew. `HttpExchange` is the same service behind the
handler, with validation as one step; the refinement `ImplementsExchange` is what lets the
two be read together.

`Names`, `Encodings`, `Conversions`. A text is a sequence of symbols: the separators
that the code looks for, and letters. A SID text is cut at its dashes into numbers, `S`
and what `ParseUint` refuses; an AP-REQ is its length. `SendName` renders a principal as
the client does and parses it as the handler does. `Put` and `Get` are the cache with one
entry and its textual key.

### Abstractions

Ticket bytes, ASN.1, encryption and PAC encoding are left out; a credential keeps
who it is for, which key sealed it, its session key, groups and times. A
service/host pair is one name. The cache key is the tuple it renders, which has
the same equality unless a subject and a principal both hold NUL (`HitIsOwn` is the check of
that, theorem `Keying` its proof).
A token is what the validator makes of it. Errors are told apart only where the wire does.

## 3. Runs

| Run | Instance | What it shows |
|---|---|---|
| `exchange_cached` | 2 calls, 5 tokens (long, short, no expiry, another user, unreadable claims), 3 targets (one service with and without its realm, one without key), every output, a default realm of its own in resolver, minter and key source, skew 1, cap 2, clock to 5 | `AnswersTheQuestion`, `LifetimeCapped`, `LiveOnArrival`, `RefusedGetsNothing`, `EntriesWereAsked`, `SharedForSameQuestion`, `OpensAtTarget`, `LiveEntryKept`, types; `ImplementsIssuer`, the refinement of `CredentialIssuer` |
| `pac_filtered` | all lists of up to 4 of 4 groups and 2 of 3 scopes, repeats included; two names collide, one is overridden to the primary RID | `ListsExactlyAdmitted`, `RidsListedOnce`, `OrderPreserved`, types |
| `http_exchange` | 2 requests: library clients (6 kinds of call, one for an output that is not defined) and other clients (6 forms), 2 users | `ClientGetsWhatItAsked`, `SuccessIsReported`, `ExpiryOffByTransit`, `InvalidTargetMeansUnnamed`, `DrivesExchange` |
| `http_live` | 2 requests, losses, fairness; no cache and no cap, a token that ends soon and one without expiry, no realm in the resolver and different ones in minter and key source, keys in both | `CallsReturn`, `EveryCallReturns`, `NeverOutlivesToken`, `LifetimeCapped` (nothing from a token without expiry), `OpensAtTarget` |
| `validators` | 1 validation, 3 tokens (good for two of four moments only, for another audience, signed with an unapproved key), 2 key sets (an approved key, an unapproved one), skew 1, an endpoint that may stay silent, a context that may never end, fairness of the call's own steps | `AcceptedIsVerified`, `RejectedForCause`, `GuardedWhileCached`, `BlocksOnlyOnEndpoint`, types |
| `conversions` | names whose parts hold up to 2 symbols (realm 1) of a letter, `/` and `@`; subjects up to 2; subjects and principals with NUL; lists of up to 3 words, lists with entries that no delimited text can carry (a tab, a word with a blank in it), and texts of up to 3 symbols, tab included, in each claim; SIDs of up to 4 sub-authorities with bad parts everywhere, and of every length to 263, past the wrap of the count; AP-REQs of 0-600 bytes and around 2^16 and 2^24 | `NameSurvivesWire`, `HitIsOwn`, `ShapesAgree`, `SIDFaithful`, `TokenFramed` |
| `kerbexchanged` | 7 command lines (one good), 2 requests, a token of the old and one of the new key, 2 key sets, cap 2, clock to 3, fairness | `VerifiedBeforeAnswered`, `MintedOnVerification`, `StartedWhole`, `ImplementsExchange` (refinement of `ExchangeService`), `ServedUnlessExited` |
| `cached_outlives_token`, `cached_ignores_scope`, `kdc_key_seals`, `jwks_guard_races`, `admit_repeats` | violated | what the documentation says and the code does not do, see section 6 |

Bounds. Two calls suffice for one call to fill, replace or evict an entry that the
other looks up or has just missed; the theorem `Refinement` covers any number. One
validation is enough in `validators`, since validations write
nothing that another reads; the proofs cover any number. The clock runs past every token expiry and every cap, so an entry
can expire before, at and after every step. Four groups give a duplicate, a
collision and an overridden group in one list. `MaxTime` is the only bound
in a guard; `MaxGroups` and `MaxScopes` bound the input lists. Request identities are symmetric
in the safety runs (nothing orders them); the liveness runs use no symmetry.
In `conversions` a key is compared with every other key of the instance, and names and
claims are complete up to their length; the lengths of a frame surround each value at
which its form changes. In `kerbexchanged` one token expires before the clock ends and
one with it, so that a ticket is refused, an entry expires and a retired key meets an
entry that its token filled. `Quiescent`, `HQuiescent`, `Ended` and `Exited` are the finished states, so deadlock
checking stays on everywhere.

Fairness. `HFairSpec` is weak fairness of the handler and of each call's own steps:
the Go scheduler runs every goroutine again and no step waits for another call.
Validation is one step there, which suits a handler with a JWKS validator: it works on the
cached set and waits for nobody. It includes delivery of an answer on an open connection; a
broken one is `Lose`, which `net/http` reports to the client. Nothing
is assumed of `GiveUp`, `Lose`, `Send` or the clock. `FairSpec` of `TokenValidators`
is weak fairness of each validation's own steps: computing, and giving up a request
whose context has ended, which `net/http` does. Nothing is assumed of the endpoint
(`http.DefaultClient` has no timeout), of the context (it may never end), of the provider or
of the refresher, so an introspection can wait for ever, and `BlocksOnlyOnEndpoint` says that
this is the only way a validation does not return. `KSpec` is weak fairness of each request's own steps while the server
serves. It assumes nothing of `main`: the first fetch of the key set has no timeout and
no deadline, so a server may neither come up nor exit.

## 4. Proofs

Everything below is proved for every set of requests, tokens, targets and forms,
every keytab, cap and skew, every hash and policy, from the named assumptions:
`InputsAssumption` (types only: resolver, minter and key source may have any realms),
`ServiceAssumption`, `HttpAssumption`,
`ValidatorsAssumption`, `ListsAssumption`, `RidsAssumption`; for the server
`ServerAssumption` (among them `ClockSkew = 0`: `main` gives the validator no options)
and `NilAssumption` (the two nil values are no credential and no request); for the
conversions `TextsAssumption` (texts are sequences of symbols, NUL among them),
`ClaimsAssumption` (a claim is absent, a list, a text or neither),
`SIDsAssumption` (the parts are numbers, however many) and
`LengthsAssumption` (a token shorter than 2^31 bytes). TLC evaluates them on each instance.

`ExchangeServiceProofs`. `AnswersTheQuestion` is not inductive: a hit copies from
the store, so one must know that what is stored under a key answers every
question with that key (`StoreOK`, with lemma `KeyDetermines` on `CacheKey`).
Lifetimes are bounded by the token of the call that minted, so `MintedOK` ties
each minted credential to that call, which must not change afterwards (`CallsOK`).
`IInv == TypeOK /\ CallsOK /\ StoreOK /\ MintedOK` is inductive (`InitIInv`,
`NextIInv`), and gives `TypeCorrect`, `Answering`, `Capping`, `AnsweringAlive`,
`Refusing`, `Sealing`, and the action property `Keeping`; `Storing`
(`EntriesWereAsked`) is inductive beside it. `Sealing` (`OpensAtTarget`) follows the realm
through resolver, minter and key source (`ResolvedTarget`): a ticket always has a key of the
keytab, and the key of the very principal it names exactly if the realm was settled before the
minter and the key source would each fill in their own. `Sharing` (`SharedForSameQuestion`) is how
far the cache may mix tokens up: `AskedAlike` carries through the store that the call a
credential was minted for asked what the entry is filed under, and `AskedForGood` that it
goes on having asked it. Without a cache a call only ever holds what
it minted itself (`OwnMint`), and then `LifetimeCapped` and the filter speak of the call's
own token: `UncachedNeverOutlives` and `UncachedNarrows`, the two properties that the runs
of section 6 refute with a cache. `Refinement` shows that
`Spec` implements `CredentialIssuer`: `MintTicket` with a cache is `Issue`, without
one `Grant`; `CacheHit` and `CachePut` are `Grant`; failures are `Refuse`.
`Settling` takes `Finality` over through that refinement.

`CredentialIssuerProofs`. What the abstract issuer promises to whoever relies on it, and so
what every implementation keeps: `Promising` (what is granted is in the ledger, fits and was
live when asked; what is in the ledger is owed to one call, within its token's life and
groups) and `Finality` (no answer is replaced, withdrawn or reversed). `Open` speaks of
unanswered calls, so the invariant `Promise` adds that unasked calls have no answer. The
one hypothesis is that `NoReq` is no request; `ServiceAssumption` has it.

`HttpExchangeProofs`. `HInv` ties client, wire, form and call together: a request
enters `Exchange` once, with the translation of the form that was sent, and an
answer carries what `Exchange` returned. `HInv` needs `IInv` (a returned credential
has the asked-for representation) and `IInv` needs `HInv` (the handler calls
`Exchange` only as `Next` allows), so they are proved together (`HInvariance`).
`Driving` is the composition theorem `HSpec => DrivesExchange`; `Delivering`
(`ClientGetsWhatItAsked`) and
`Reporting` (`SuccessIsReported`) follow. `Blaming` (`InvalidTargetMeansUnnamed`) needs
what `Target` picks from lists of every length: if it picks nothing, a least given
position would be one it had to pick (lemma `Least`). `Dating` (`ExpiryOffByTransit`)
needs the time at which `expires_in` was counted, so `Replied` and `Received` keep it
(`Counted`), and that truncation loses less than a second (`Truncates`). `Serving` puts
`Driving` to use: what is proved of `Exchange` holds behind the endpoint. `Handing` follows
a credential to the end: what a client holds is one that those statements are about.

`TokenValidatorsProofs`. `AcceptedIsVerified` and `RejectedForCause` speak of finished
calls; the invariant `VInv` says what a running one has: the set it will read next is
among the sets it saw (`Began`), and the answer it holds was true when given, while
revocation is final (`Heard`). Lemma `WorldMoves` shows once that time, revocation and
refresh keep this, one lemma per step that the call's own steps do, and `OtherCalls`
that another call's do. `TypeCorrect`, `Accepting` and `Rejecting` follow. `Guarded` keeps
that a call past the guard has seen a set with an allowed key: `Guarding`
(`GuardedWhileCached`), and `GuardingUnrefreshed`, what the comment on the guard promises,
for calls during which the cached set does not change. `jwks_guard_races` is the rest.

`PacGroupsProofs`. One loop invariant per loop; together they give `TypeCorrect`,
`ListingOnce` and `ListingExactly` for lists of every length, with or without a
filter. `Ordering` (`OrderPreserved`) says that `out` runs through the admitted positions
of the claim by an increasing map onto them; `OrderLoop` has that map for the positions
before `i`, and keeping a candidate extends it by one pair (`InOrderKeeps`). `AdmittingOnce`
reads that map backwards: if no claim repeats a group, `Admit` repeats none either.

`KerbexchangedProofs`. The server is made of two machines with proofs of their own, so
`KInv` is their two invariants and what ties them: `Tied` (where a request is in
`Exchange` and where in `Validate`), `Checked` (what `main` has found in order at each
stage) and `Started` (no request before all of it, none over an empty key cache). Every
server step is a step or a stutter of the validator (`ValidatorStep`) and, given `Tied`,
of the exchange (`ExchangeStep`): the validator's last step is `Exchange`'s one-step
`Validate`, which may accept because `Accepted` implies that the token is not expired.
The proofs of `ExchangeService` are taken over by instantiating its proof module; lemma
`ServiceInputs` proves that module's assumptions for the server's constants. So
`Assembling` gives the refinement `ImplementsExchange`, `Issuing` the abstract issuer,
`Serving` and `Validating` the invariants of the two parts (in `Serving` every ticket is
sealed for the principal it names, since `main` gives all three parts one realm), `Starting` and `Verifying`
the server's own. `Tracing` (`MintedOnVerification`) needs all of them: the credential leads
to the call that minted it (`MintedOK`), that call to the key set that verified its token
(`Verifying`), and `Sharing` says that the two calls have the same subject.

`ConversionsProofs`. Texts are sequences of every length over every set of symbols. Lemma
`Joined` cuts a text at a symbol that its first part lacks; with it `RoundTrip` reads a
plain principal back and, with the first position that `IndexByte` finds (`IndexFound`,
by `Least`), `ParsedPlain` shows that what is parsed is plain: `Naming`. `Keying`
(`HitIsOwn`) cuts a key at its last NUL and what is left at its first if the subjects hold
none, or at its last if the principals hold none (`CutAlike` both ways, `KeyInjective`), and
needs to know that the entry was put under the key of its own question (`EntryInv`).
`Identifying` (`SIDFaithful`) is by position: what the count lets a reader see is a prefix of
the text's parts (`SIDRead`), and all of them exactly while the count has not wrapped. For `Framing` (`TokenFramed`) exactly one
width of 1 to 4 bytes fits a length (`WidthTaken`), and the reader's partial values are
the length with its last digits cut off (`Cut`), so its last one is the length.
`Shaping` (`ShapesAgree`) compares two loops, each a recursive function over the positions of
its input. `RunDefines` shows that such a function exists and is the only one: a least
position (`Least`) at which it failed would follow from the one before, which stands in for
the induction that the prover lacks. `WordRead` says that reading a separator and then a
word appends the word, or nothing if it is blank; `WordsSpelt` takes that along the list, so
that the reader of the delimited text holds after each word what the list's loop holds
(`ListAsText`).

Only model-checked: liveness (`EveryCallReturns`, `CallsReturn`, `BlocksOnlyOnEndpoint`,
`ServedUnlessExited`), which needs fairness and ENABLED and is out of the
prover's reach.

## 5. Not modelled

- Byte layout: the authenticator, the AP-REQ, the ccache (`ccache_write.go` copies the
  fields of a minted ticket into the krb5 library's types) and the PAC are laid out by the
  library. What the repository computes itself, the frame and the SID, is in `Encodings`.
- The constant fields of the PAC, which no step looks at, and `rpcUnicode`, whose length
  field wraps for names of 32768 code units (see the hazards).
- Sub-second times: a ticket carries whole seconds, `Credential.Expiry` does not.
- Keys without an `alg` field, which `jwt.Parse` skips.
- A limit on the cache, since there is none; `EntriesWereAsked` bounds it by what was asked.
- The replay cache of an acceptor, which is outside the repository.
- Key rotation in the keytab: the file is read once, so a constant is exact.
- The fixtures under `test/`, which have no logic of the library.

## 6. Where documentation and code differ

- `cached_outlives_token`: `identity.go` says the issued ticket never outlives the
  token; a cache hit can. It holds without a cache, and with one the credential is
  bounded by the token that minted it (`LifetimeCapped`).
- `cached_ignores_scope`: the README says a narrowly scoped token yields a narrowed
  credential; the cache key has no scopes. It holds without a cache, and with one the
  groups are those of a call with the same subject, target and output (`Sharing`).
- `kdc_key_seals`: `keysource.go` says the KDC-signing key is used only for
  checksums; a request that names its principal is sealed with it.
- `jwks_guard_races`: `jwksvalidator.go` says the guard keeps a misconfigured key set
  from ever verifying a token; a refresh between guard and parse lets one through,
  if the provider publishes a set without any allowed key. It holds while the cached set
  stays the same (`GuardingUnrefreshed`).
- `admit_repeats`: `scopefilter.go` says `Admit` returns each group at most once; it keeps
  the repetitions of its input. The PAC is unaffected (`RidsListedOnce`), and claims without
  repetitions come out without (`AdmittingOnce`).

Not given a run, because a property of section 3 says exactly how far the statement holds:

- `keysource.go` and `minter.go` speak of the key of the principal that the ticket is issued
  for. If the resolver leaves the realm open and minter and key source were constructed with
  different ones, the ticket names one principal and is sealed with the key of another. In
  every other configuration it holds (`OpensAtTarget`, `Sealing`: if and only if), in
  `kerbexchanged` always (`SealedForTarget` in `Serving`).
- `client.go` says the bytes match the output type. They do exactly for the two constants; for
  any other `OutputType` the client files a ccache as an AP-REQ (`Slot` in `HttpExchange`;
  `ClientGetsWhatItAsked`, `Delivering`).
- `cache.go` says no two distinct triples collide. They can if a subject and a principal hold
  NUL, and only then (`HitIsOwn`, `Keying`): the empty subject asking for `a/a` in the realm
  `NUL a/a` and the subject `NUL a/a@` asking for `a/a` have one key, and the instance of
  `conversions` has both.
- `pacbuilder.go` says of what a field cannot hold that it is rejected rather than truncated.
  The count of sub-authorities is not: a SID with 256 of them is taken with the count 0. A SID
  is carried whole exactly up to 255 (`SIDFaithful`, `Identifying`).
- `claimsmap.go` says the list path matches the string path. It does for the
  entries that a delimited text can carry (`Delimitable`; `ShapesAgree`, `Shaping`): a tab is
  blank for the one and a letter for the other, and an entry with a space or comma in it is
  one group in a list and several in a text.

## 7. State and plan

Done: all components that keep state or compute something of their own, their
compositions (`HttpExchange` over `ExchangeService`, `Kerbexchanged` over
`TokenValidators` and `ExchangeService`), and the theorems of section 4: every safety
property, every action property and every refinement that a run of section 3 expects to
hold is proved.

Worth adding when the code grows that way: a bound on the cache, a reload of the keytab, and
what would turn runs of section 6 into theorems: scopes or expiry in `CacheKey`, one realm
for resolver, minter and key source, a limit on sub-authorities in `parseDomainSID`.
