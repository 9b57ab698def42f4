-------------------------- MODULE CredentialIssuer -------------------------
(***************************************************************************)
(* What the exchange promises, whatever cache, locks and steps are behind  *)
(* it.  There is a ledger of issued credentials that only grows.  A call   *)
(* that was asked is answered at most once: refused, or granted a ledger   *)
(* credential that fits the question and had not expired when the question *)
(* was asked.  A credential enters the ledger on behalf of one call, whose *)
(* token bounds its lifetime and its groups.                               *)
(***************************************************************************)
EXTENDS Minting

CONSTANTS Requests, NoCred, NoReq, MaxTime

VARIABLES clock, asked, askedAt, granted, refused, ledger

ivars == <<clock, asked, askedAt, granted, refused, ledger>>

(***************************************************************************)
(* Fits(c, q): c is for the subject of q's token, opens at the service     *)
(* that q names (the default realm filled in, if it is settled which), in  *)
(* the form q wants.                                                       *)
(***************************************************************************)
Fits(c, q) ==
  /\ c.subject = q.token.subject
  /\ c.target.name = q.target.name
  /\ q.target.realm # NoRealm => c.target.realm = q.target.realm
  /\ RealmSettled(q.target) => c.sealedWith = c.target
  /\ c.output = q.output

\* No later than the token's expiry, if it has one, and than the cap, if set.
WithinLifetime(c, id) ==
  /\ c.expiry > c.authTime
  /\ id.expiry # ZeroTime => c.expiry <= id.expiry
  /\ MaxLifetime > 0 => c.expiry <= c.authTime + MaxLifetime

\* Owed(c, r): what is issued for call r at this moment.
Owed(c, r) ==
  /\ c.sessionKey = r
  /\ c.authTime = clock
  /\ Fits(c, asked[r])
  /\ WithinLifetime(c, asked[r].token)
  /\ c.groups \subseteq AdmittedGroups(asked[r].token)

Open(r) == asked[r] # NoReq /\ granted[r] = NoCred /\ r \notin refused

Init ==
  /\ clock = 1
  /\ asked = [r \in Requests |-> NoReq]
  /\ askedAt = [r \in Requests |-> 0]
  /\ granted = [r \in Requests |-> NoCred]
  /\ refused = {}
  /\ ledger = {}

Ask(r) ==
  /\ asked[r] = NoReq
  /\ \E q \in ExchangeRequest : asked' = [asked EXCEPT ![r] = q]
  /\ askedAt' = [askedAt EXCEPT ![r] = clock]
  /\ UNCHANGED <<clock, granted, refused, ledger>>

Enter(r) ==
  \E c \in ledger' : ledger' = ledger \cup {c} /\ Owed(c, r)

Issue(r) ==
  /\ Open(r)
  /\ Enter(r)
  /\ UNCHANGED <<clock, asked, askedAt, granted, refused>>

Grant(r) ==
  /\ Open(r)
  /\ UNCHANGED ledger \/ Enter(r)
  /\ \E c \in ledger' : /\ Fits(c, asked[r])
                        /\ c.expiry >= askedAt[r]
                        /\ granted' = [granted EXCEPT ![r] = c]
  /\ UNCHANGED <<clock, asked, askedAt, refused>>

Refuse(r) ==
  /\ Open(r)
  /\ refused' = refused \cup {r}
  /\ UNCHANGED <<clock, asked, askedAt, granted, ledger>>

Tick ==
  /\ clock < MaxTime
  /\ clock' = clock + 1
  /\ UNCHANGED <<asked, askedAt, granted, refused, ledger>>

Next ==
  \/ \E r \in Requests : Ask(r) \/ Issue(r) \/ Grant(r) \/ Refuse(r)
  \/ Tick

Spec == Init /\ [][Next]_ivars
=============================================================================
