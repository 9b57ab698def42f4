---------------------------- MODULE HttpExchange ----------------------------
(***************************************************************************)
(* The RFC 8693 endpoint around ExchangeService: Client.Exchange builds a  *)
(* form, the network carries it or loses it, NewHandler's function         *)
(* translates it, calls Exchange, picks the representation and answers,    *)
(* and the client rebuilds a Credential from the answer.  Client, network, *)
(* handlers and clock interleave; a client may give up while its request   *)
(* is still being served.                                                  *)
(*                                                                         *)
(* A string on the wire is what its reader makes of it: a resource is the  *)
(* principal it parses to, Malformed, or NoName when empty.                *)
(***************************************************************************)
EXTENDS ExchangeService, Sequences

CONSTANTS
  Calls,       \* arguments of Client.Exchange: [token, target, output]
  Forms,       \* forms that other clients send
  NoToken,     \* an empty subject_token
  NoName,      \* an empty resource or audience
  Malformed,   \* a string that ParseServicePrincipal rejects
  None,        \* no form, no reply, nothing received
  Second       \* clock ticks in a second

VARIABLES
  client,  \* client[r]: "idle", "waiting", "got", "error"
  wire,    \* wire[r]: "none", "request", "handling", "reply"
  call,    \* call[r]: the arguments, None for a form of another client
  form,    \* form[r]: the form that was sent
  reply,   \* reply[r]: the handler's answer
  got      \* got[r]: the Credential that Client.Exchange returned

hvars == <<client, wire, call, form, reply, got>>

Names == Targets \cup {Malformed, NoName}
TokenTypes == {"", "ccache", "apreq", "unknown"}
Form == [parses : BOOLEAN, grant : BOOLEAN, token : Tokens \cup {NoToken},
         rtype : TokenTypes, resource : Seq(Names), audience : Seq(Names)]
Call == [token : Tokens \cup {NoToken}, target : Targets \cup {Malformed},
         output : OutputTypes]

ASSUME HttpAssumption ==
  /\ Calls \subseteq Call
  /\ Forms \subseteq Form
  /\ {Malformed, NoName} \cap Targets = {} /\ Malformed # NoName
  /\ NoToken \notin Tokens
  /\ Second \in Nat \ {0}

HInit ==
  /\ Init
  /\ client = [r \in Requests |-> "idle"]
  /\ wire = [r \in Requests |-> "none"]
  /\ call = [r \in Requests |-> None]
  /\ form = [r \in Requests |-> None]
  /\ reply = [r \in Requests |-> None]
  /\ got = [r \in Requests |-> None]

---------------------------------------------------------------------------
(***************************************************************************)
(* The client.  OutputType.TokenType is empty for an unsupported value.    *)
(***************************************************************************)
TokenType(output) == IF output = "other" THEN "" ELSE output

ClientForm(c) ==
  [parses |-> TRUE, grant |-> TRUE, token |-> c.token, rtype |-> TokenType(c.output),
   resource |-> <<c.target>>, audience |-> <<>>]

Send(r, c, f) ==
  /\ client[r] = "idle"
  /\ client' = [client EXCEPT ![r] = "waiting"]
  /\ wire' = [wire EXCEPT ![r] = "request"]
  /\ call' = [call EXCEPT ![r] = c]
  /\ form' = [form EXCEPT ![r] = f]
  /\ UNCHANGED <<vars, reply, got>>

\* The transport fails, or the caller's context ends; the server may go on.
GiveUp(r) ==
  /\ client[r] = "waiting"
  /\ client' = [client EXCEPT ![r] = "error"]
  /\ UNCHANGED <<vars, wire, call, form, reply, got>>

\* The request never reaches the server, or the answer never the client.
Lose(r) ==
  /\ wire[r] \in {"request", "reply"}
  /\ wire' = [wire EXCEPT ![r] = "none"]
  /\ client' = [client EXCEPT ![r] = IF @ = "waiting" THEN "error" ELSE @]
  /\ UNCHANGED <<vars, call, form, reply, got>>

---------------------------------------------------------------------------
(***************************************************************************)
(* ExchangeRequestFromWire and TokenExchangeErrorCode.                     *)
(***************************************************************************)
\* Fault: an empty requested_token_type is passed on as it is.
OutputTypeFromTokenType_Raw(uri) == uri

OutputTypeFromTokenType(uri) == IF uri = "" THEN "ccache" ELSE uri

\* Fault: only the first resource or audience is looked at.
firstNonEmpty_First(resource, audience) ==
  LET named == resource \o audience IN
  IF named = <<>> THEN NoName ELSE Head(named)

firstNonEmpty(resource, audience) ==
  LET named == resource \o audience
      given == {n \in DOMAIN named : named[n] # NoName} IN
  IF given = {} THEN NoName
                ELSE named[CHOOSE n \in given : \A m \in given : n <= m]

Target(f) == firstNonEmpty(f.resource, f.audience)

Complete(f) == f.grant /\ f.token # NoToken /\ f.rtype # "unknown"

Translates(f) == f.parses /\ Complete(f) /\ Target(f) \in Targets

WireError(f) ==
  IF f.parses /\ Complete(f) /\ Target(f) = NoName THEN "invalid_target"
                                                   ELSE "invalid_request"

ExchangeRequestFromWire(f) ==
  [token |-> f.token, target |-> Target(f), output |-> OutputTypeFromTokenType(f.rtype)]

---------------------------------------------------------------------------
(***************************************************************************)
(* NewHandler's function: parse, translate, Exchange, answer.              *)
(***************************************************************************)
Answer(r, a) ==
  /\ wire' = [wire EXCEPT ![r] = "reply"]
  /\ reply' = [reply EXCEPT ![r] = a]
  /\ UNCHANGED <<vars, client, call, form, got>>

Failure(code) == [ok |-> FALSE, code |-> code]

HandleRequest(r) ==
  /\ wire[r] = "request"
  /\ Translates(form[r])
  /\ Arrive(r, ExchangeRequestFromWire(form[r]))
  /\ wire' = [wire EXCEPT ![r] = "handling"]
  /\ UNCHANGED <<client, call, form, reply, got>>

\* Fault: only a missing target is answered with an error.
RejectRequest_Unnamed(r) ==
  /\ wire[r] = "request"
  /\ ~Translates(form[r]) /\ WireError(form[r]) = "invalid_target"
  /\ Answer(r, Failure("invalid_target"))

RejectRequest(r) ==
  /\ wire[r] = "request"
  /\ ~Translates(form[r])
  /\ Answer(r, Failure(WireError(form[r])))

\* One step of Service.Exchange on behalf of the handler.
Serve(r) == Step(r) /\ UNCHANGED hvars

\* Every error of Exchange maps to invalid_request.
ReportError(r) ==
  /\ wire[r] = "handling" /\ pc[r] = "failed"
  /\ Answer(r, Failure("invalid_request"))

\* Fault: rounding up instead of truncating.
ExpiresIn_RoundsUp(c) == (c.expiry - now + Second - 1) \div Second

\* int(time.Until(expiry).Seconds()): truncation towards zero.
ExpiresIn(c) ==
  IF c.expiry >= now THEN (c.expiry - now) \div Second
                     ELSE -((now - c.expiry) \div Second)

\* CCache() and APReq() fail on a credential that carries the other form.
ReportCredential(r) ==
  /\ wire[r] = "handling" /\ pc[r] = "done"
  /\ Answer(r, IF cred[r].output = req[r].output
               THEN [ok |-> TRUE, token |-> cred[r], issued |-> TokenType(req[r].output),
                     expiresIn |-> ExpiresIn(cred[r]), at |-> now]
               ELSE Failure("invalid_request"))

---------------------------------------------------------------------------
(***************************************************************************)
(* Client.Exchange on an answer: the issued bytes go into the slot that    *)
(* the caller's OutputType selects; the expiry is counted from the moment  *)
(* of receipt.  Another client just keeps the answer.                      *)
(***************************************************************************)
Slot(output) == IF output = "ccache" THEN "ccache" ELSE "apreq"

Receive(r) ==
  LET a == reply[r] IN
  /\ wire[r] = "reply" /\ client[r] = "waiting"
  /\ wire' = [wire EXCEPT ![r] = "none"]
  /\ \/ /\ ~a.ok
        /\ client' = [client EXCEPT ![r] = "error"]
        /\ UNCHANGED got
     \/ /\ a.ok /\ call[r] = None
        /\ client' = [client EXCEPT ![r] = "got"]
        /\ UNCHANGED got
     \/ /\ a.ok /\ call[r] # None
        /\ client' = [client EXCEPT ![r] = "got"]
        /\ got' = [got EXCEPT ![r] =
             [target |-> call[r].target, slot |-> Slot(call[r].output), token |-> a.token,
              expiry |-> now + a.expiresIn * Second, at |-> now]]
  /\ UNCHANGED <<vars, call, form, reply>>

HTick == Tick /\ UNCHANGED hvars

HQuiescent ==
  /\ \A r \in Requests : client[r] \in {"got", "error"} /\ wire[r] \in {"none", "reply"}
  /\ now = MaxTime
  /\ UNCHANGED <<vars, hvars>>

Handle(r) ==
  HandleRequest(r) \/ RejectRequest(r) \/ Serve(r)
    \/ ReportError(r) \/ ReportCredential(r)

HNext ==
  \/ \E r \in Requests, c \in Calls : Send(r, c, ClientForm(c))
  \/ \E r \in Requests, f \in Forms : Send(r, None, f)
  \/ \E r \in Requests : GiveUp(r) \/ Lose(r) \/ Handle(r) \/ Receive(r)
  \/ HTick
  \/ HQuiescent

HSpec == HInit /\ [][HNext]_<<vars, hvars>>

(***************************************************************************)
(* A handler goroutine keeps running: the Go scheduler runs it again and   *)
(* no step waits for another request.  Validation is one fair step, as     *)
(* kerbexchanged's JWKS validator allows; with introspection it may wait   *)
(* for ever (TokenValidators!BlocksOnlyOnEndpoint).  An answer on an open  *)
(* connection arrives or the connection breaks (Lose), and net/http        *)
(* reports a broken connection to the client; a client need not give up by *)
(* itself.                                                                 *)
(***************************************************************************)
HFairSpec ==
  HSpec /\ \A r \in Requests :
    WF_<<vars, hvars>>(Handle(r)) /\ WF_<<vars, hvars>>(Receive(r))

---------------------------------------------------------------------------
(***************************************************************************)
(* What is checked.                                                        *)
(***************************************************************************)

(***************************************************************************)
(* client.go: "On success it returns a Credential whose ccache or AP-REQ   *)
(* bytes match the output type."  And they are for the subject of the      *)
(* token and the target of this very call, also when they come from a      *)
(* cache entry that another client's call filled.  The bytes match exactly *)
(* for the two defined outputs: for any other the server defaults to a     *)
(* ccache and the client to an AP-REQ.                                     *)
(***************************************************************************)
ClientGetsWhatItAsked ==
  \A r \in Requests : got[r] # None =>
    /\ call[r].output # "other" <=> got[r].token.output = got[r].slot
    /\ got[r].token.subject = call[r].token.subject
    /\ got[r].token.target.name = call[r].target.name

(***************************************************************************)
(* Once Exchange has succeeded the handler answers with the credential:    *)
(* CCache() or APReq() never finds the other representation, whatever the  *)
(* cache holds (handler.go, cache.go).                                     *)
(***************************************************************************)
SuccessIsReported ==
  \A r \in Requests : reply[r] # None /\ ~reply[r].ok => pc[r] # "done"

(***************************************************************************)
(* A credential that the client takes for live when it receives it ends at *)
(* most a transit time later, and less than a second earlier, than the     *)
(* ticket in it does (handler.go ExpiresIn, client.go expiry).             *)
(***************************************************************************)
ExpiryOffByTransit ==
  \A r \in Requests : got[r] # None /\ got[r].expiry > got[r].at =>
    /\ got[r].expiry <= got[r].token.expiry + (got[r].at - reply[r].at)
    /\ got[r].expiry > got[r].token.expiry + (got[r].at - reply[r].at) - Second

(***************************************************************************)
(* The client is told invalid_target only if no resource and no audience   *)
(* names anything (request.go ErrNoTarget, error_mapping.go).              *)
(***************************************************************************)
InvalidTargetMeansUnnamed ==
  \A r \in Requests : reply[r] # None /\ ~reply[r].ok /\ reply[r].code = "invalid_target" =>
    LET named == form[r].resource \o form[r].audience IN
    \A n \in DOMAIN named : named[n] = NoName

(***************************************************************************)
(* Every Client.Exchange returns, with a credential or an error, and every *)
(* request that is being handled is answered (handler.go, client.go).      *)
(***************************************************************************)
CallsReturn ==
  \A r \in Requests :
    /\ client[r] = "waiting" ~> client[r] \in {"got", "error"}
    /\ wire[r] = "handling" ~> wire[r] # "handling"

(***************************************************************************)
(* The handler calls Exchange as ExchangeService allows, once per request  *)
(* and with a well-formed ExchangeRequest (request.go, handler.go), so     *)
(* what holds there holds behind the HTTP endpoint.                        *)
(***************************************************************************)
DrivesExchange == Spec
=============================================================================
