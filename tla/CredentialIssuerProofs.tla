----------------------- MODULE CredentialIssuerProofs -----------------------
(***************************************************************************)
(* What the abstract issuer amounts to, for any number of calls, tokens    *)
(* and targets.  CredentialIssuer says what one step may do; the theorems  *)
(* here say what follows for whole behaviours, and therefore for every     *)
(* specification that implements it: Exchange with its cache, the HTTP     *)
(* endpoint and the assembled server.                                      *)
(***************************************************************************)
EXTENDS CredentialIssuer, TLAPS

\* Every credential in the ledger is owed to one call, which has been asked.
LedgerOwed ==
  \A c \in ledger :
    LET q == asked[c.sessionKey] IN
    /\ c.sessionKey \in Requests /\ q \in ExchangeRequest
    /\ Fits(c, q) /\ WithinLifetime(c, q.token)
    /\ c.groups \subseteq AdmittedGroups(q.token)
    /\ c.authTime \in 0 .. clock

\* What a call was granted is in the ledger, fits it and was live when asked.
GrantsFit ==
  \A r \in Requests : granted[r] # NoCred =>
    /\ granted[r] \in ledger /\ r \notin refused
    /\ asked[r] \in ExchangeRequest
    /\ Fits(granted[r], asked[r]) /\ granted[r].expiry >= askedAt[r]

IssuerTypes ==
  /\ clock \in Nat /\ refused \subseteq Requests
  /\ asked \in [Requests -> ExchangeRequest \cup {NoReq}]
  /\ DOMAIN askedAt = Requests /\ DOMAIN granted = Requests
  /\ askedAt = [r \in Requests |-> askedAt[r]] /\ granted = [r \in Requests |-> granted[r]]

\* A call has no answer before it is asked.
Unasked == \A r \in Requests : asked[r] = NoReq => granted[r] = NoCred /\ r \notin refused

Promise == IssuerTypes /\ Unasked /\ LedgerOwed /\ GrantsFit

---------------------------------------------------------------------------
\* A credential that enters the ledger is owed to an open call, so it stands.
LEMMA EnterOwed ==
  ASSUME Promise, NEW r \in Requests, Open(r), Enter(r), UNCHANGED <<clock, asked>>
  PROVE  LedgerOwed' /\ ledger \subseteq ledger'
  <1>1. PICK c \in ledger' : ledger' = ledger \cup {c} /\ Owed(c, r)
    BY DEF Enter
  <1>2. asked[r] \in ExchangeRequest /\ clock \in Nat
    BY DEF Promise, IssuerTypes, Open
  <1>3. /\ c.sessionKey = r /\ c.authTime = clock /\ Fits(c, asked[r])
        /\ WithinLifetime(c, asked[r].token)
        /\ c.groups \subseteq AdmittedGroups(asked[r].token)
    BY <1>1 DEF Owed
  <1> QED BY <1>1, <1>2, <1>3 DEF Promise, LedgerOwed

LEMMA InitPromise == Init => Promise
  BY DEF Init, Promise, IssuerTypes, Unasked, LedgerOwed, GrantsFit

LEMMA NextPromise ==
  ASSUME NoReq \notin ExchangeRequest, Promise, [Next]_ivars
  PROVE  Promise'
  <1>t. IssuerTypes /\ Unasked /\ LedgerOwed /\ GrantsFit
    BY DEF Promise
  <1>1. ASSUME NEW r \in Requests, Ask(r) PROVE Promise'
    <2>1. PICK q \in ExchangeRequest : asked' = [asked EXCEPT ![r] = q]
      BY <1>1 DEF Ask
    <2>2. /\ asked[r] = NoReq /\ askedAt' = [askedAt EXCEPT ![r] = clock]
          /\ UNCHANGED <<clock, granted, refused, ledger>>
      BY <1>1 DEF Ask
    <2>3. \A s \in Requests \ {r} : asked'[s] = asked[s] /\ askedAt'[s] = askedAt[s]
      BY <2>1, <2>2, <1>t DEF IssuerTypes
    <2>4. IssuerTypes'
      BY <2>1, <2>2, <1>t DEF IssuerTypes
    <2>5. Unasked'
      BY <2>1, <2>2, <2>3, <1>t DEF Unasked, IssuerTypes
    <2>6. LedgerOwed'
      <3>1. \A c \in ledger : c.sessionKey # r
        BY <2>2, <1>t DEF LedgerOwed
      <3> QED BY <2>2, <2>3, <3>1, <1>t DEF LedgerOwed
    <2>7. GrantsFit'
      <3>1. granted[r] = NoCred
        BY <2>2, <1>t DEF Unasked
      <3> QED BY <2>2, <2>3, <3>1, <1>t DEF GrantsFit
    <2> QED BY <2>4, <2>5, <2>6, <2>7 DEF Promise
  <1>2. ASSUME NEW r \in Requests, Issue(r) PROVE Promise'
    <2>1. LedgerOwed' /\ ledger \subseteq ledger'
      BY <1>2, EnterOwed DEF Issue
    <2>2. UNCHANGED <<clock, asked, askedAt, granted, refused>>
      BY <1>2 DEF Issue
    <2> QED BY <2>1, <2>2, <1>t DEF Promise, IssuerTypes, Unasked, GrantsFit
  <1>3. ASSUME NEW r \in Requests, Grant(r) PROVE Promise'
    <2>1. /\ Open(r) /\ UNCHANGED <<clock, asked, askedAt, refused>>
          /\ UNCHANGED ledger \/ Enter(r)
      BY <1>3 DEF Grant
    <2>2. LedgerOwed' /\ ledger \subseteq ledger'
      <3>1. CASE UNCHANGED ledger
        BY <2>1, <3>1, <1>t DEF LedgerOwed
      <3>2. CASE Enter(r)
        BY <2>1, <3>2, EnterOwed
      <3> QED BY <2>1, <3>1, <3>2
    <2>3. PICK c \in ledger' : /\ Fits(c, asked[r]) /\ c.expiry >= askedAt[r]
                               /\ granted' = [granted EXCEPT ![r] = c]
      BY <1>3 DEF Grant
    <2>4. granted'[r] = c /\ \A s \in Requests \ {r} : granted'[s] = granted[s]
      BY <2>3, <1>t DEF IssuerTypes
    <2>5. IssuerTypes'
      BY <2>1, <2>3, <1>t DEF IssuerTypes
    <2>6. asked[r] \in ExchangeRequest /\ asked[r] # NoReq /\ r \notin refused
      BY <2>1, <1>t DEF Open, IssuerTypes
    <2>7. Unasked'
      BY <2>1, <2>4, <2>6, <1>t DEF Unasked
    <2>8. GrantsFit'
      BY <2>1, <2>2, <2>3, <2>4, <2>6, <1>t DEF GrantsFit
    <2> QED BY <2>2, <2>5, <2>7, <2>8 DEF Promise
  <1>4. ASSUME NEW r \in Requests, Refuse(r) PROVE Promise'
    <2>1. /\ Open(r) /\ refused' = refused \cup {r}
          /\ UNCHANGED <<clock, asked, askedAt, granted, ledger>>
      BY <1>4 DEF Refuse
    <2>2. asked[r] # NoReq /\ granted[r] = NoCred
      BY <2>1 DEF Open
    <2> QED
      BY <2>1, <2>2, <1>t DEF Promise, IssuerTypes, Unasked, LedgerOwed, GrantsFit
  <1>5. ASSUME Tick PROVE Promise'
    <2>1. clock' = clock + 1 /\ UNCHANGED <<asked, askedAt, granted, refused, ledger>>
      BY <1>5 DEF Tick
    <2>2. IssuerTypes' /\ Unasked' /\ GrantsFit'
      BY <2>1, <1>t DEF IssuerTypes, Unasked, GrantsFit
    <2>3. clock \in Nat /\ \A a \in 0 .. clock : a \in 0 .. clock'
      BY <2>1, <1>t DEF IssuerTypes
    <2>4. LedgerOwed'
      BY <2>1, <2>3, <1>t, Zenon DEF LedgerOwed
    <2> QED BY <2>2, <2>4 DEF Promise
  <1>6. ASSUME UNCHANGED ivars PROVE Promise'
    BY <1>6, <1>t DEF ivars, Promise, IssuerTypes, Unasked, LedgerOwed, GrantsFit
  <1> QED BY <1>1, <1>2, <1>3, <1>4, <1>5, <1>6 DEF Next

(***************************************************************************)
(* Whoever implements the issuer keeps this promise: each credential was   *)
(* issued for one call, bounded by its token and the cap, and each granted *)
(* call holds such a credential, for its own question and live when it was *)
(* asked (service.go, cache.go, minter.go).                                *)
(***************************************************************************)
THEOREM Promising ==
  ASSUME NoReq \notin ExchangeRequest
  PROVE  Spec => [](LedgerOwed /\ GrantsFit)
  <1>1. Promise /\ [Next]_ivars => Promise'
    BY NextPromise
  <1>2. Promise => LedgerOwed /\ GrantsFit
    BY DEF Promise
  <1> QED BY <1>1, <1>2, InitPromise, PTL DEF Spec

(***************************************************************************)
(* An answer is final: what was granted is neither replaced nor refused,   *)
(* what was refused is never granted, no credential leaves the ledger and  *)
(* no call changes its question (service.go, issue.go).                    *)
(***************************************************************************)
Final ==
  /\ \A r \in Requests :
       /\ granted[r] # NoCred => granted'[r] = granted[r] /\ r \notin refused'
       /\ r \in refused => r \in refused' /\ granted'[r] = granted[r]
       /\ asked[r] # NoReq => asked'[r] = asked[r]
  /\ ledger \subseteq ledger'

LEMMA StepFinal == Promise /\ [Next]_ivars => Final
  <1> SUFFICES ASSUME Promise, [Next]_ivars PROVE Final
    OBVIOUS
  <1>t. IssuerTypes /\ GrantsFit
    BY DEF Promise
  <1>1. ASSUME NEW r \in Requests, Ask(r) PROVE Final
    BY <1>1, <1>t DEF Ask, Final, IssuerTypes, GrantsFit
  <1>2. ASSUME NEW r \in Requests, Issue(r) PROVE Final
    BY <1>2, <1>t DEF Issue, Enter, Final, GrantsFit
  <1>3. ASSUME NEW r \in Requests, Grant(r) PROVE Final
    <2>1. /\ granted[r] = NoCred /\ r \notin refused
          /\ UNCHANGED <<asked, refused>> /\ ledger \subseteq ledger'
      BY <1>3 DEF Grant, Open, Enter
    <2>2. \A s \in Requests \ {r} : granted'[s] = granted[s]
      BY <1>3, <1>t DEF Grant, IssuerTypes
    <2> QED BY <2>1, <2>2, <1>t DEF Final, GrantsFit
  <1>4. ASSUME NEW r \in Requests, Refuse(r) PROVE Final
    BY <1>4, <1>t DEF Refuse, Open, Final, GrantsFit
  <1>5. ASSUME Tick \/ UNCHANGED ivars PROVE Final
    BY <1>5, <1>t DEF Tick, ivars, Final, GrantsFit
  <1> QED BY <1>1, <1>2, <1>3, <1>4, <1>5 DEF Next

\* Every step of an issuer is Final (service.go: Exchange returns once).
THEOREM Finality ==
  ASSUME NoReq \notin ExchangeRequest
  PROVE  Spec => [][Final]_ivars
  <1>1. Promise /\ [Next]_ivars => Promise'
    BY NextPromise
  <1> QED BY <1>1, StepFinal, InitPromise, PTL DEF Spec
=============================================================================
