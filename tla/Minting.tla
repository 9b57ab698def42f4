------------------------------ MODULE Minting ------------------------------
(***************************************************************************)
(* The straight-line part of an exchange: how one validated token becomes  *)
(* one Kerberos credential.  Resolver, lifetime cap, DirectMinter, key     *)
(* source and output selection keep no state of their own, so they are     *)
(* operators; ExchangeService calls them from concurrent requests.         *)
(*                                                                         *)
(* Abstractions.  A service/host pair is one name; a realm is a string,    *)
(* the empty one meaning "not given" as in the code.  The bytes of a       *)
(* ticket are left out; what is kept is who it is for, which long-term key *)
(* sealed it, which session key it carries, which groups its PAC lists and *)
(* its times.  ZeroTime is Go's zero time.Time.                            *)
(***************************************************************************)
EXTENDS Integers

CONSTANTS
  Tokens,         \* the access tokens clients present
  Targets,        \* the service principals clients name
  ResolverRealm,  \* StaticResolver.DefaultRealm
  MinterRealm,    \* DirectMinter.defaultRealm
  KeytabRealm,    \* KeytabSource.defaultRealm
  Keytab,         \* principals that have a key in the keytab
  KDCPrincipal,   \* KeytabSource.kdcPrincipal, in KeytabRealm
  WithPAC,        \* TRUE iff the minter has a PACBuilder
  WithFilter,     \* TRUE iff the PACBuilder has a ScopeFilter
  ScopeGroups,    \* ConfigMapFilter.ScopeGroups: scope -> admitted groups
  MaxLifetime     \* Service.MaxLifetime; 0 means "only the token's expiry"

NoRealm  == ""
ZeroTime == 0

(***************************************************************************)
(* OutputType.  "other" stands for every value outside the two constants,  *)
(* which an embedding program can pass to Service.Exchange.                *)
(***************************************************************************)
OutputTypes == {"ccache", "apreq", "other"}

(***************************************************************************)
(* A token is what the validator makes of it: the Identity's subject, the  *)
(* expiry (ZeroTime when absent), and the claims - whether the claims      *)
(* mapper can read them, and the groups and scopes it then finds.          *)
(***************************************************************************)
ServicePrincipal == [name : STRING, realm : STRING]
Identity == [subject : STRING, expiry : Nat, readable : BOOLEAN,
             groups : SUBSET STRING, scopes : SUBSET STRING]

ExchangeRequest == [token : Tokens, target : Targets, output : OutputTypes]

(***************************************************************************)
(* Types only: the constructors take any realms.  They agree in            *)
(* cmd/kerbexchanged; an embedding program may choose them apart.          *)
(***************************************************************************)
ASSUME InputsAssumption ==
  /\ Tokens \subseteq Identity
  /\ Targets \subseteq ServicePrincipal
  /\ Keytab \subseteq ServicePrincipal
  /\ KDCPrincipal \in STRING
  /\ ResolverRealm \in STRING
  /\ MinterRealm \in STRING
  /\ KeytabRealm \in STRING
  /\ WithPAC \in BOOLEAN
  /\ WithFilter \in BOOLEAN
  /\ MaxLifetime \in Nat

---------------------------------------------------------------------------
OrDefault(realm, default) == IF realm = NoRealm THEN default ELSE realm

InRealm(spn, default) ==
  [name |-> spn.name, realm |-> OrDefault(spn.realm, default)]

\* Fault: the target keeps its missing realm.
Resolve_KeepsNoRealm(id, requested) ==
  [client |-> id.subject, crealm |-> ResolverRealm, target |-> requested]

(***************************************************************************)
(* StaticResolver.Resolve: the subject becomes a one-component client      *)
(* principal of the default realm; a missing target realm is filled in.    *)
(***************************************************************************)
Resolve(id, requested) ==
  [client |-> id.subject,
   crealm |-> ResolverRealm,
   target |-> InRealm(requested, ResolverRealm)]

\* Fault: the later of the two bounds is taken.
EndTime_Later(id, at) ==
  IF MaxLifetime > 0 /\ at + MaxLifetime > id.expiry THEN at + MaxLifetime
                                                     ELSE id.expiry

\* Fault: off by one where the token's expiry is the bound.
EndTime_OneMore(id, at) ==
  IF MaxLifetime > 0 /\ (id.expiry = ZeroTime \/ at + MaxLifetime < id.expiry)
  THEN at + MaxLifetime
  ELSE id.expiry + 1

(***************************************************************************)
(* Service.Exchange: EndTime = min(now + MaxLifetime, token exp), where an *)
(* absent exp is no bound and MaxLifetime = 0 is no cap.                   *)
(***************************************************************************)
EndTime(id, at) ==
  IF MaxLifetime > 0 /\ (id.expiry = ZeroTime \/ at + MaxLifetime < id.expiry)
  THEN at + MaxLifetime
  ELSE id.expiry

\* Fault: the realm of the target is not looked at.
ServiceKey_DefaultRealm(spn) == [name |-> spn.name, realm |-> KeytabRealm]

\* KeytabSource.ServiceKey: the principal whose key is fetched for spn.
ServiceKey(spn) == InRealm(spn, KeytabRealm)

(***************************************************************************)
(* The minter and the key source each default a realm that is still        *)
(* missing, on their own.  The realm is settled when neither has to, or    *)
(* when they agree; no constructor asks for that.                          *)
(***************************************************************************)
RealmSettled(requested) ==
  \/ requested.realm # NoRealm
  \/ ResolverRealm # NoRealm
  \/ MinterRealm = KeytabRealm

\* KeytabSource.KDCSigningKey: the principal whose key signs the PAC.
KDCSigningKey == [name |-> KDCPrincipal, realm |-> KeytabRealm]

(***************************************************************************)
(* SyntheticPACBuilder.Build seen from the minter: the groups of the       *)
(* claims that some granted scope admits (module PacGroups has the loops); *)
(* all of them when there is no filter.                                    *)
(***************************************************************************)
AdmittedGroups(id) ==
  IF WithFilter
  THEN id.groups \cap UNION {ScopeGroups[s] : s \in id.scopes \cap DOMAIN ScopeGroups}
  ELSE id.groups

---------------------------------------------------------------------------
\* The PAC can be built and signed: readable claims and a signing key.
CanBuildPAC(id) == id.readable /\ KDCSigningKey \in Keytab

\* MintedTicket.Credential refuses an unsupported output type.
Supported(output) == output # "other"

\* Fault: Mint does not compare EndTime with AuthTime.
CanMint_Unordered(id, requested, output, at) ==
  /\ EndTime(id, at) # ZeroTime
  /\ ServiceKey(Resolve(id, requested).target) \in Keytab
  /\ WithPAC => CanBuildPAC(id)
  /\ Supported(output)

(***************************************************************************)
(* What DirectMinter.Mint and MintedTicket.Credential check before a       *)
(* credential comes out, in the order of their early returns.  Every       *)
(* failure is the same to the caller: an error and no credential.  The     *)
(* calls into the krb5 library can fail besides (encryption type, session  *)
(* key, PAC signature, encoding, encryption): ExchangeService!MintFails is *)
(* therefore enabled whether or not CanMint holds.                         *)
(***************************************************************************)
CanMint(id, requested, output, at) ==
  /\ EndTime(id, at) # ZeroTime
  /\ EndTime(id, at) > at
  /\ ServiceKey(Resolve(id, requested).target) \in Keytab
  /\ WithPAC => CanBuildPAC(id)
  /\ Supported(output)

(***************************************************************************)
(* The Credential that Mint and MintedTicket.Credential assemble when      *)
(* CanMint holds.  The session key is freshly generated in the code; the   *)
(* request that mints it stands for it.                                    *)
(***************************************************************************)
Ticket(id, requested, output, at, sessionKey, groups) ==
  LET res == Resolve(id, requested) IN
  [subject    |-> res.client,
   crealm     |-> OrDefault(res.crealm, MinterRealm),
   target     |-> InRealm(res.target, MinterRealm),
   sealedWith |-> ServiceKey(res.target),
   sessionKey |-> sessionKey,
   groups     |-> groups,
   authTime   |-> at,
   expiry     |-> EndTime(id, at),
   output     |-> output]

\* Fault: the ticket carries no session key.
Mint_NoSessionKey(id, requested, output, at, sessionKey) ==
  Ticket(id, requested, output, at, "", AdmittedGroups(id))

Mint(id, requested, output, at, sessionKey) ==
  Ticket(id, requested, output, at, sessionKey,
         IF WithPAC THEN AdmittedGroups(id) ELSE {})

Credential(SessionKeys) ==
  [subject : STRING, crealm : STRING, target : ServicePrincipal,
   sealedWith : ServicePrincipal, sessionKey : SessionKeys,
   groups : SUBSET STRING, authTime : Nat, expiry : Nat,
   output : OutputTypes]

\* Faults: the key leaves out the output (as before 0.2.0), or the subject.
CacheKey_NoOutput(subject, spn, output) == <<subject, spn>>
CacheKey_NoSubject(subject, spn, output) == <<spn, output>>

(***************************************************************************)
(* CacheKey: the three parts joined by NUL.  The tuple has the text's      *)
(* equality as long as the subjects or the principals hold no NUL          *)
(* (Conversions!HitIsOwn), and that is all that is modelled here.          *)
(***************************************************************************)
CacheKey(subject, spn, output) == <<subject, spn, output>>
=============================================================================
