------------------------ MODULE HttpExchangeProofs ------------------------
(***************************************************************************)
(* Proofs about HttpExchange.  The handler drives ExchangeService as its   *)
(* specification allows, so the invariant of ExchangeServiceProofs holds   *)
(* behind the endpoint; with an invariant that ties client, wire and call  *)
(* together it gives what the client may rely on.                          *)
(***************************************************************************)
EXTENDS HttpExchange, ExchangeServiceProofs, NaturalsInduction, WellFoundedInduction

all == <<vars, hvars>>

(***************************************************************************)
(* The wire: what has been sent, and that a request enters Exchange once.  *)
(***************************************************************************)
WireTypes ==
  /\ client \in [Requests -> {"idle", "waiting", "got", "error"}]
  /\ wire \in [Requests -> {"none", "request", "handling", "reply"}]
  /\ DOMAIN call = Requests /\ DOMAIN form = Requests
  /\ DOMAIN reply = Requests /\ DOMAIN got = Requests

Sent(r) ==
  /\ client[r] # "idle" => form[r] \in Form
  /\ client[r] # "idle" /\ call[r] # None => call[r] \in Calls /\ form[r] = ClientForm(call[r])
  /\ client[r] = "idle" => wire[r] = "none" /\ pc[r] = "idle"

Entered(r) ==
  /\ wire[r] = "request" => pc[r] = "idle"
  /\ pc[r] \notin {"idle", "done", "failed"} => wire[r] = "handling"
  /\ wire[r] = "handling" => pc[r] # "idle"
  /\ pc[r] # "idle" => Translates(form[r]) /\ req[r] = ExchangeRequestFromWire(form[r])

\* The seconds that the handler counted, at the moment it did.
ExpiresInAt(c, t) ==
  IF c.expiry >= t THEN (c.expiry - t) \div Second ELSE -((t - c.expiry) \div Second)

Counted(r) ==
  /\ reply[r].at \in Nat
  /\ reply[r].expiresIn = ExpiresInAt(cred[r], reply[r].at)

Replied(r) ==
  /\ wire[r] \in {"request", "handling"} \/ client[r] = "idle" => reply[r] = None
  /\ reply[r] # None \/ wire[r] = "reply" =>
       IF reply[r].ok
       THEN pc[r] = "done" /\ reply[r].token = cred[r] /\ Counted(r)
       ELSE /\ pc[r] \in {"idle", "failed"}
            /\ reply[r].code = "invalid_target" => Target(form[r]) = NoName

Received(r) ==
  got[r] # None =>
    /\ client[r] # "idle" /\ wire[r] = "none" /\ call[r] # None
    /\ pc[r] = "done" /\ got[r].token = cred[r]
    /\ got[r].slot = Slot(call[r].output)
    /\ Counted(r)
    /\ got[r].at \in Nat /\ got[r].expiry = got[r].at + reply[r].expiresIn * Second

HInv ==
  /\ WireTypes
  /\ \A r \in Requests : Sent(r) /\ Entered(r) /\ Replied(r) /\ Received(r)

---------------------------------------------------------------------------
\* What the library's client sends: one resource, the target it was given.
LEMMA ClientFormType ==
  ASSUME NEW c \in Calls
  PROVE  /\ ClientForm(c) \in Form
         /\ Target(ClientForm(c)) = c.target
  <1>1. /\ c.token \in Tokens \cup {NoToken}
        /\ c.target \in Targets \cup {Malformed}
        /\ c.output \in OutputTypes
    BY HttpAssumption DEF Call
  <1>2. c.target \in Names /\ c.target # NoName
    BY <1>1, HttpAssumption DEF Names
  <1>3. TokenType(c.output) \in TokenTypes
    BY <1>1 DEF TokenType, TokenTypes, OutputTypes
  <1>4. <<c.target>> \in Seq(Names) /\ <<>> \in Seq(Names)
    BY <1>2
  <1>5. ClientForm(c) \in Form
    BY <1>1, <1>3, <1>4 DEF ClientForm, Form
  <1>6. Target(ClientForm(c)) = c.target
    <2> DEFINE named == <<c.target>> \o <<>>
               given == {n \in DOMAIN named : named[n] # NoName}
    <2>1. named = <<c.target>>
      BY <1>4
    <2>2. DOMAIN named = {1} /\ named[1] = c.target
      BY <2>1
    <2>3. given = {1}
      BY <2>2, <1>2
    <2>4. (CHOOSE n \in given : \A m \in given : n <= m) = 1
      BY <2>3
    <2>5. Target(ClientForm(c)) = IF given = {} THEN NoName
            ELSE named[CHOOSE n \in given : \A m \in given : n <= m]
      BY DEF Target, ClientForm, firstNonEmpty
    <2> QED BY <2>2, <2>3, <2>4, <2>5
  <1> QED BY <1>5, <1>6

\* A form that translates gives a request that Exchange accepts.
LEMMA TranslatedRequest ==
  ASSUME NEW f \in Form, Translates(f)
  PROVE  ExchangeRequestFromWire(f) \in ExchangeRequest
  <1>1. f.token \in Tokens /\ Target(f) \in Targets
    BY DEF Translates, Complete, Form
  <1>2. OutputTypeFromTokenType(f.rtype) \in OutputTypes
    BY DEF Translates, Complete, Form, TokenTypes, OutputTypeFromTokenType, OutputTypes
  <1> QED BY <1>1, <1>2 DEF ExchangeRequestFromWire, ExchangeRequest

\* Nothing has been sent at the start.
LEMMA HInitHInv == HInit => HInv
  BY DEF HInit, Init, HInv, WireTypes, Sent, Entered, Replied, Received, Counted

(***************************************************************************)
(* Every step of the composition is a step of ExchangeService or leaves    *)
(* its variables alone.                                                    *)
(***************************************************************************)
LEMMA HStepDrives == HInv /\ [HNext]_all => [Next]_vars
  <1> SUFFICES ASSUME HInv, [HNext]_all PROVE [Next]_vars
    OBVIOUS
  <1>1. ASSUME NEW r \in Requests, HandleRequest(r) PROVE Next
    <2>1. client[r] # "idle"
      BY <1>1 DEF HandleRequest, HInv, Sent
    <2>2. form[r] \in Form /\ Translates(form[r])
      BY <1>1, <2>1 DEF HandleRequest, HInv, Sent
    <2>3. ExchangeRequestFromWire(form[r]) \in ExchangeRequest
      BY <2>2, TranslatedRequest
    <2> QED BY <1>1, <2>3 DEF HandleRequest, Next
  <1>2. ASSUME NEW r \in Requests, Serve(r) PROVE Next
    BY <1>2 DEF Serve, Next
  <1>3. ASSUME HTick PROVE Next
    BY <1>3 DEF HTick, Next
  <1>4. ASSUME NEW r \in Requests,
               GiveUp(r) \/ Lose(r) \/ RejectRequest(r) \/ ReportError(r)
                 \/ ReportCredential(r) \/ Receive(r)
        PROVE  UNCHANGED vars
    BY <1>4 DEF GiveUp, Lose, RejectRequest, ReportError, ReportCredential, Receive, Answer
  <1>5. ASSUME NEW r \in Requests, NEW c, NEW f, Send(r, c, f) PROVE UNCHANGED vars
    BY <1>5 DEF Send
  <1>6. ASSUME HQuiescent \/ UNCHANGED all PROVE UNCHANGED vars
    BY <1>6 DEF HQuiescent, all
  <1> QED
    BY <1>1, <1>2, <1>3, <1>4, <1>5, <1>6 DEF HNext, Handle, all

---------------------------------------------------------------------------
(***************************************************************************)
(* HInv is kept.  A request that a step does not touch keeps its part.     *)
(***************************************************************************)
HCall(r) == Sent(r) /\ Entered(r) /\ Replied(r) /\ Received(r)

Same(r) ==
  /\ pc'[r] = pc[r] /\ req'[r] = req[r] /\ cred'[r] = cred[r]
  /\ client'[r] = client[r] /\ wire'[r] = wire[r] /\ call'[r] = call[r]
  /\ form'[r] = form[r] /\ reply'[r] = reply[r] /\ got'[r] = got[r]

LEMMA Frame ==
  ASSUME NEW r \in Requests, HCall(r), Same(r)
  PROVE  HCall(r)'
  BY DEF HCall, Same, Sent, Entered, Replied, Received, Counted

\* What a step of Exchange does to its own request, and to the others.
LEMMA ServiceStep ==
  ASSUME NEW s \in Requests, IInv, Step(s)
  PROVE  /\ pc[s] \notin {"idle", "done", "failed"} /\ pc'[s] # "idle"
         /\ req' = req
         /\ \A r \in Requests : r # s => pc'[r] = pc[r] /\ cred'[r] = cred[r]
  <1>1. /\ pc \in [Requests -> {"idle", "validate", "lookup", "mint", "put"} \cup Answered]
        /\ cred \in [Requests -> Cred \cup {NoCred}]
    BY DEF IInv, TypeOK
  <1>2. CASE Validate(s)
    BY <1>1, <1>2 DEF Validate, Go
  <1>3. CASE Lookup(s)
    BY <1>1, <1>3 DEF Lookup, CacheMiss, CacheHit, CacheEvict, Go, Return
  <1>4. CASE MintTicket(s)
    BY <1>1, <1>4 DEF MintTicket, Go, Return
  <1>5. CASE MintFails(s) \/ CachePut(s)
    BY <1>1, <1>5 DEF MintFails, CachePut, Go
  <1> QED BY <1>2, <1>3, <1>4, <1>5 DEF Step

\* Another request than the one that acts is left alone.
LEMMA Others ==
  ASSUME NEW s \in Requests, NEW r \in Requests, r # s, HInv, IInv,
         \/ \E c, f : Send(s, c, f)
         \/ GiveUp(s) \/ Lose(s) \/ Handle(s) \/ Receive(s)
  PROVE  Same(r)
  <1>1. /\ client \in [Requests -> {"idle", "waiting", "got", "error"}]
        /\ wire \in [Requests -> {"none", "request", "handling", "reply"}]
        /\ DOMAIN call = Requests /\ DOMAIN form = Requests
        /\ DOMAIN reply = Requests /\ DOMAIN got = Requests
    BY DEF HInv, WireTypes
  <1>2. ASSUME NEW c, NEW f, Send(s, c, f) PROVE Same(r)
    BY <1>1, <1>2 DEF Send, Same, vars
  <1>3. CASE GiveUp(s) \/ Lose(s)
    BY <1>1, <1>3 DEF GiveUp, Lose, Same, vars
  <1>4. CASE HandleRequest(s)
    <2>1. /\ pc \in [Requests -> {"idle", "validate", "lookup", "mint", "put"} \cup Answered]
          /\ req \in [Requests -> ExchangeRequest \cup {NoReq}]
      BY DEF IInv, TypeOK
    <2> QED BY <1>1, <1>4, <2>1 DEF HandleRequest, Arrive, Go, Same
  <1>5. CASE RejectRequest(s) \/ ReportError(s) \/ ReportCredential(s)
    BY <1>1, <1>5 DEF RejectRequest, ReportError, ReportCredential, Answer, Same, vars
  <1>6. CASE Serve(s)
    BY <1>6, ServiceStep DEF Serve, hvars, Same
  <1>7. CASE Receive(s)
    BY <1>1, <1>7 DEF Receive, Same, vars
  <1> QED BY <1>2, <1>3, <1>4, <1>5, <1>6, <1>7 DEF Handle

\* The request that acts keeps its part of the invariant.
LEMMA Own ==
  ASSUME NEW s \in Requests, HInv, IInv,
         \/ \E c \in Calls : Send(s, c, ClientForm(c))
         \/ \E f \in Forms : Send(s, None, f)
         \/ GiveUp(s) \/ Lose(s) \/ Handle(s) \/ Receive(s)
  PROVE  HCall(s)'
  <1>1. /\ client \in [Requests -> {"idle", "waiting", "got", "error"}]
        /\ wire \in [Requests -> {"none", "request", "handling", "reply"}]
        /\ DOMAIN call = Requests /\ DOMAIN form = Requests
        /\ DOMAIN reply = Requests /\ DOMAIN got = Requests
    BY DEF HInv, WireTypes
  <1>2. HCall(s)
    BY DEF HInv, HCall
  <1>3. ASSUME NEW c, NEW f \in Form, Send(s, c, f),
               c # None => c \in Calls /\ f = ClientForm(c)
        PROVE  HCall(s)'
    BY <1>1, <1>2, <1>3 DEF Send, vars, HCall, Sent, Entered, Replied, Received
  <1>4. ASSUME NEW c \in Calls, Send(s, c, ClientForm(c)) PROVE HCall(s)'
    BY <1>3, <1>4, ClientFormType
  <1>5. ASSUME NEW f \in Forms, Send(s, None, f) PROVE HCall(s)'
    BY <1>3, <1>5, HttpAssumption
  <1>6. CASE GiveUp(s) \/ Lose(s)
    BY <1>1, <1>2, <1>6
    DEF GiveUp, Lose, vars, HCall, Sent, Entered, Replied, Received, Counted
  <1>7. CASE HandleRequest(s)
    <2>1. /\ pc \in [Requests -> {"idle", "validate", "lookup", "mint", "put"} \cup Answered]
          /\ req \in [Requests -> ExchangeRequest \cup {NoReq}]
      BY DEF IInv, TypeOK
    <2>2. /\ pc'[s] = "validate" /\ req'[s] = ExchangeRequestFromWire(form[s])
          /\ wire'[s] = "handling" /\ Translates(form[s]) /\ wire[s] = "request"
          /\ UNCHANGED <<client, call, form, reply, got, cred>>
      BY <1>1, <1>7, <2>1 DEF HandleRequest, Arrive, Go
    <2> QED BY <1>2, <2>2 DEF HCall, Sent, Entered, Replied, Received
  <1>8. CASE RejectRequest(s) \/ ReportError(s)
    <2>1. /\ wire'[s] = "reply" /\ reply'[s].ok = FALSE
          /\ UNCHANGED <<vars, client, call, form, got>>
          /\ reply'[s].code = "invalid_target" => Target(form[s]) = NoName
      BY <1>1, <1>8 DEF RejectRequest, ReportError, Answer, Failure, WireError
    <2>2. wire[s] \in {"request", "handling"} /\ pc[s] \in {"idle", "failed"}
      BY <1>2, <1>8 DEF RejectRequest, ReportError, HCall, Entered
    <2> QED BY <1>2, <2>1, <2>2 DEF vars, HCall, Sent, Entered, Replied, Received
  <1>9. CASE ReportCredential(s)
    <2>1. cred[s].output = req[s].output
      BY <1>9 DEF ReportCredential, IInv, CallsOK, Holding, Answers
    <2>2. /\ wire'[s] = "reply" /\ reply'[s].ok = TRUE /\ reply'[s].token = cred[s]
          /\ wire[s] = "handling" /\ pc[s] = "done"
          /\ UNCHANGED <<vars, client, call, form, got>>
          /\ reply'[s].expiresIn = ExpiresIn(cred[s]) /\ reply'[s].at = now
      BY <1>1, <1>9, <2>1 DEF ReportCredential, Answer
    <2>3. ExpiresIn(cred[s]) = ExpiresInAt(cred[s], now) /\ now \in Nat
      BY DEF ExpiresIn, ExpiresInAt, IInv, TypeOK
    <2>4. Counted(s)'
      BY <2>2, <2>3 DEF Counted, ExpiresInAt, vars
    <2> QED BY <1>2, <2>2, <2>4 DEF vars, HCall, Sent, Entered, Replied, Received
  <1>10. CASE Serve(s)
    BY <1>2, <1>10, ServiceStep
    DEF Serve, hvars, HCall, Sent, Entered, Replied, Received
  <1>11. CASE Receive(s)
    <2>1. /\ wire[s] = "reply" /\ client[s] = "waiting"
          /\ wire'[s] = "none" /\ client'[s] \in {"got", "error"}
          /\ UNCHANGED <<vars, call, form, reply>>
      BY <1>1, <1>11 DEF Receive
    <2>2. \/ got' = got
          \/ /\ reply[s].ok /\ call[s] # None
             /\ got'[s].token = reply[s].token /\ got'[s].slot = Slot(call[s].output)
             /\ got'[s].at = now /\ got'[s].expiry = now + reply[s].expiresIn * Second
      BY <1>1, <1>11 DEF Receive
    <2>3. now \in Nat
      BY DEF IInv, TypeOK
    <2> QED
      BY <1>2, <2>1, <2>2, <2>3 DEF vars, HCall, Sent, Entered, Replied, Received, Counted
  <1> QED BY <1>4, <1>5, <1>6, <1>7, <1>8, <1>9, <1>10, <1>11 DEF Handle

LEMMA NextWireTypes == HInv /\ [HNext]_all => WireTypes'
  <1> SUFFICES ASSUME HInv, [HNext]_all PROVE WireTypes'
    OBVIOUS
  <1> USE DEF HInv, WireTypes
  <1>1. ASSUME NEW r \in Requests, NEW c, NEW f, Send(r, c, f) PROVE WireTypes'
    BY <1>1 DEF Send
  <1>2. ASSUME NEW r \in Requests, GiveUp(r) \/ Lose(r) PROVE WireTypes'
    BY <1>2 DEF GiveUp, Lose
  <1>3. ASSUME NEW r \in Requests, HandleRequest(r) \/ Serve(r) PROVE WireTypes'
    BY <1>3 DEF HandleRequest, Serve, hvars
  <1>4. ASSUME NEW r \in Requests, RejectRequest(r) \/ ReportError(r) \/ ReportCredential(r)
        PROVE  WireTypes'
    BY <1>4 DEF RejectRequest, ReportError, ReportCredential, Answer
  <1>5. ASSUME NEW r \in Requests, Receive(r) PROVE WireTypes'
    BY <1>5 DEF Receive
  <1>6. ASSUME HTick \/ HQuiescent \/ UNCHANGED all PROVE WireTypes'
    BY <1>6 DEF HTick, HQuiescent, hvars, all
  <1> QED
    BY <1>1, <1>2, <1>3, <1>4, <1>5, <1>6 DEF HNext, Handle

LEMMA NextHInv == HInv /\ IInv /\ [HNext]_all => HInv'
  <1> SUFFICES ASSUME HInv, IInv, [HNext]_all PROVE HInv'
    OBVIOUS
  <1>1. WireTypes'
    BY NextWireTypes
  <1>2. ASSUME NEW r \in Requests PROVE HCall(r)'
    <2>1. HCall(r)
      BY DEF HInv, HCall
    <2>2. ASSUME NEW s \in Requests, NEW c \in Calls, Send(s, c, ClientForm(c)) PROVE HCall(r)'
      BY <2>1, <2>2, Own, Others, Frame
    <2>3. ASSUME NEW s \in Requests, NEW f \in Forms, Send(s, None, f) PROVE HCall(r)'
      BY <2>1, <2>3, Own, Others, Frame
    <2>4. ASSUME NEW s \in Requests, GiveUp(s) \/ Lose(s) \/ Handle(s) \/ Receive(s)
          PROVE  HCall(r)'
      BY <2>1, <2>4, Own, Others, Frame
    <2>5. ASSUME HTick \/ HQuiescent \/ UNCHANGED all PROVE HCall(r)'
      <3>1. Same(r)
        BY <2>5 DEF HTick, Tick, HQuiescent, all, vars, hvars, Same
      <3> QED BY <2>1, <3>1, Frame
    <2> QED BY <2>2, <2>3, <2>4, <2>5 DEF HNext
  <1> QED BY <1>1, <1>2 DEF HInv, HCall

---------------------------------------------------------------------------
(***************************************************************************)
(* The theorems.                                                           *)
(***************************************************************************)

\* Both invariants hold together: IInv needs HInv to know that the handler
\* calls Exchange properly, HInv needs IInv to know what Exchange returns.
THEOREM HInvariance == HSpec => [](HInv /\ IInv)
  <1>1. HInit => HInv /\ IInv
    BY HInitHInv, InitIInv DEF HInit
  <1>2. HInv /\ IInv /\ [HNext]_all => HInv' /\ IInv'
    BY NextHInv, HStepDrives, NextIInv
  <1> QED BY <1>1, <1>2, PTL DEF HSpec, all

(***************************************************************************)
(* The endpoint runs Service.Exchange as ExchangeService specifies, for    *)
(* any clients, forms, losses and cancellations (handler.go, request.go).  *)
(***************************************************************************)
THEOREM Driving == HSpec => DrivesExchange
  <1>1. HInit => Init
    BY DEF HInit
  <1>2. HInv /\ [HNext]_all => [Next]_vars
    BY HStepDrives
  <1> QED BY <1>1, <1>2, HInvariance, PTL DEF HSpec, all, DrivesExchange, Spec

(***************************************************************************)
(* What a client gets is made for the subject and the target it named, and *)
(* is filed as what it is exactly when it named one of the two defined     *)
(* outputs (client.go, handler.go, cache.go).                              *)
(***************************************************************************)
THEOREM Delivering == HSpec => []ClientGetsWhatItAsked
  <1>1. HInv /\ IInv => ClientGetsWhatItAsked
    <2> SUFFICES ASSUME HInv, IInv, NEW r \in Requests, got[r] # None
                 PROVE  /\ call[r].output # "other" <=> got[r].token.output = got[r].slot
                        /\ got[r].token.subject = call[r].token.subject
                        /\ got[r].token.target.name = call[r].target.name
      BY DEF ClientGetsWhatItAsked
    <2>1. /\ call[r] \in Calls /\ form[r] = ClientForm(call[r]) /\ pc[r] = "done"
          /\ got[r].token = cred[r] /\ got[r].slot = Slot(call[r].output)
          /\ req[r] = ExchangeRequestFromWire(form[r])
      BY DEF HInv, Sent, Entered, Received
    <2>2. Answers(cred[r], req[r])
      BY <2>1 DEF IInv, CallsOK, Holding
    <2>3. /\ req[r].token = call[r].token /\ req[r].target = call[r].target
          /\ req[r].output = OutputTypeFromTokenType(TokenType(call[r].output))
      BY <2>1, ClientFormType DEF ExchangeRequestFromWire, ClientForm
    <2>4. call[r].output \in {"ccache", "apreq", "other"}
      BY <2>1, HttpAssumption DEF Call, OutputTypes
    <2>5. call[r].output # "other" <=> req[r].output = Slot(call[r].output)
      BY <2>3, <2>4 DEF OutputTypeFromTokenType, TokenType, Slot
    <2> QED BY <2>1, <2>2, <2>3, <2>5 DEF Answers
  <1> QED BY <1>1, HInvariance, PTL

(***************************************************************************)
(* A call of Exchange that succeeds is never answered with an error: the   *)
(* representation the handler asks for is there, cached or fresh           *)
(* (handler.go, credential.go).                                            *)
(***************************************************************************)
THEOREM Reporting == HSpec => []SuccessIsReported
  <1>1. HInv => SuccessIsReported
    BY DEF HInv, Replied, SuccessIsReported
  <1> QED BY <1>1, HInvariance, PTL

---------------------------------------------------------------------------
\* A set of numbers has a least one, so firstNonEmpty finds a name if any is given.
LEMMA Least ==
  ASSUME NEW S \in SUBSET Nat, S # {}
  PROVE  \E n \in S : \A m \in S : n <= m
  <1>1. PICK n \in S : \A m \in S : ~(<<m, n>> \in OpToRel(<, Nat))
    BY NatLessThanWellFounded, WFMin, Zenon
  <1>2. \A m \in S : ~(m < n)
    BY <1>1 DEF OpToRel
  <1> QED BY <1>2

LEMMA UnnamedTarget ==
  ASSUME NEW f \in Form, Target(f) = NoName
  PROVE  LET named == f.resource \o f.audience IN \A n \in DOMAIN named : named[n] = NoName
  <1> DEFINE named == f.resource \o f.audience
             given == {n \in DOMAIN named : named[n] # NoName}
  <1>1. DOMAIN named \subseteq Nat
    <2>1. f.resource \in Seq(Names) /\ f.audience \in Seq(Names)
      BY DEF Form
    <2>2. named \in Seq(Names)
      BY <2>1
    <2>3. \A s \in Seq(Names) : DOMAIN s \subseteq Nat
      OBVIOUS
    <2> QED BY <2>2, <2>3, Zenon
  <1>2. Target(f) = IF given = {} THEN NoName
                    ELSE named[CHOOSE n \in given : \A m \in given : n <= m]
    BY DEF Target, firstNonEmpty
  <1> HIDE DEF named
  <1>3. given # {} => \E n \in given : \A m \in given : n <= m
    BY <1>1, Least
  <1>4. given = {}
    BY <1>2, <1>3
  <1> QED BY <1>4 DEF named

(***************************************************************************)
(* Whoever is told invalid_target has named no target at all, in any       *)
(* resource or audience of a form of any length (request.go, handler.go).  *)
(***************************************************************************)
THEOREM Blaming == HSpec => []InvalidTargetMeansUnnamed
  <1>1. HInv => InvalidTargetMeansUnnamed
    <2> SUFFICES ASSUME HInv, NEW r \in Requests, reply[r] # None, ~reply[r].ok,
                        reply[r].code = "invalid_target"
                 PROVE  LET named == form[r].resource \o form[r].audience IN
                        \A n \in DOMAIN named : named[n] = NoName
      BY DEF InvalidTargetMeansUnnamed
    <2>1. form[r] \in Form /\ Target(form[r]) = NoName
      BY DEF HInv, Sent, Replied
    <2> QED BY <2>1, UnnamedTarget, Zenon
  <1> QED BY <1>1, HInvariance, PTL

---------------------------------------------------------------------------
\* What truncating division by the ticks of a second loses.
LEMMA Truncates ==
  ASSUME NEW a \in Nat, NEW d \in Nat \ {0}
  PROVE  a \div d \in Nat /\ (a \div d) * d <= a /\ a < (a \div d) * d + d
  OBVIOUS

\* A count that is positive comes from a credential that is still live.
LEMMA CountedBack ==
  ASSUME NEW e \in Nat, NEW t \in Nat, NEW c, c.expiry = e, ExpiresInAt(c, t) * Second > 0
  PROVE  /\ ExpiresInAt(c, t) \in Nat
         /\ t + ExpiresInAt(c, t) * Second <= e
         /\ t + ExpiresInAt(c, t) * Second > e - Second
  <1>0. Second \in Nat \ {0}
    BY HttpAssumption
  <1>1. CASE e >= t
    <2>1. e - t \in Nat /\ ExpiresInAt(c, t) = (e - t) \div Second
      BY <1>1 DEF ExpiresInAt
    <2>2. /\ (e - t) \div Second \in Nat
          /\ ((e - t) \div Second) * Second <= e - t
          /\ e - t < ((e - t) \div Second) * Second + Second
      BY <1>0, <2>1, Truncates
    <2> DEFINE k == ((e - t) \div Second) * Second
    <2>3. k \in Nat
      BY <1>0, <2>2
    <2> HIDE DEF k
    <2>4. t + k <= e /\ t + k > e - Second
      BY <1>0, <2>2, <2>3 DEF k
    <2> QED BY <2>1, <2>2, <2>4 DEF k
  <1>2. CASE ~(e >= t)
    <2>1. t - e \in Nat /\ ExpiresInAt(c, t) = -((t - e) \div Second)
      BY <1>2 DEF ExpiresInAt
    <2>2. (t - e) \div Second \in Nat
      BY <1>0, <2>1, Truncates
    <2>3. \A k \in Nat : ~((-k) * Second > 0)
      BY <1>0
    <2> QED BY <2>1, <2>2, <2>3
  <1> QED BY <1>1, <1>2

(***************************************************************************)
(* A client that takes its credential for live is wrong about its end by   *)
(* no more than the transit of the answer, and by less than a second in    *)
(* the other direction, however long the answer takes (handler.go,         *)
(* client.go).                                                             *)
(***************************************************************************)
THEOREM Dating == HSpec => []ExpiryOffByTransit
  <1>1. HInv /\ IInv => ExpiryOffByTransit
    <2> SUFFICES ASSUME HInv, IInv, NEW r \in Requests, got[r] # None,
                        got[r].expiry > got[r].at
                 PROVE  /\ got[r].expiry <= got[r].token.expiry + (got[r].at - reply[r].at)
                        /\ got[r].expiry > got[r].token.expiry + (got[r].at - reply[r].at)
                                            - Second
      BY DEF ExpiryOffByTransit
    <2> DEFINE at == got[r].at
               t  == reply[r].at
               e  == cred[r].expiry
               k  == reply[r].expiresIn * Second
    <2>1. /\ pc[r] = "done" /\ got[r].token = cred[r]
          /\ at \in Nat /\ t \in Nat
          /\ got[r].expiry = at + k
          /\ reply[r].expiresIn = ExpiresInAt(cred[r], t)
      BY DEF HInv, Received, Counted
    <2>2. e \in Nat
      BY <2>1 DEF IInv, CallsOK, Holding, TypeOK, Cred, Credential
    <2>3. Second \in Nat \ {0} /\ reply[r].expiresIn \in Int /\ k \in Int
      <3>1. Second \in Nat \ {0}
        BY HttpAssumption
      <3>2. ExpiresInAt(cred[r], t) \in Int
        <4>1. \A a \in Nat : a \div Second \in Nat
          BY <3>1, Truncates
        <4>2. IF e >= t THEN e - t \in Nat ELSE t - e \in Nat
          BY <2>1, <2>2
        <4> HIDE DEF e, t
        <4> QED BY <4>1, <4>2 DEF ExpiresInAt, e
      <3> QED BY <2>1, <3>1, <3>2
    <2>4. k > 0
      <3> HIDE DEF at, k
      <3> QED BY <2>1, <2>3 DEF at
    <2>5. t + k <= e /\ t + k > e - Second
      BY <2>1, <2>2, <2>4, CountedBack
    <2>6. at + k <= e + (at - t) /\ at + k > e + (at - t) - Second
      <3> HIDE DEF at, t, e, k
      <3> QED BY <2>1, <2>2, <2>3, <2>5
    <2> QED BY <2>1, <2>6
  <1> QED BY <1>1, HInvariance, PTL

(***************************************************************************)
(* Behind the endpoint everything proved of Exchange holds: whatever       *)
(* clients send, lose or give up on, the credentials are the ones that the *)
(* abstract issuer allows, answer the question that reached Exchange and   *)
(* are capped by the token that paid for them (handler.go, service.go).    *)
(***************************************************************************)
THEOREM Serving ==
  HSpec => /\ [](AnswersTheQuestion /\ LifetimeCapped /\ LiveOnArrival
                   /\ RefusedGetsNothing /\ OpensAtTarget
                   /\ EntriesWereAsked /\ SharedForSameQuestion)
           /\ LiveEntryKept
           /\ ImplementsIssuer
  BY Driving, Answering, Capping, AnsweringAlive, Refusing, Sealing, Storing, Sharing,
     Keeping, Refinement, PTL
  DEF DrivesExchange

(***************************************************************************)
(* What a client of the library holds is one of the credentials that those *)
(* statements are about, unaltered by the answer, the transport and the    *)
(* cache: it opens at its target and is bounded by the token and the cap   *)
(* of the call that it was minted for (client.go, handler.go, service.go). *)
(***************************************************************************)
THEOREM Handing ==
  HSpec => [](\A r \in Requests : got[r] # None =>
                LET c == got[r].token IN
                /\ c \in Outstanding
                /\ Bounded(c, req[c.sessionKey])
                /\ Alike(req[c.sessionKey], req[r]))
  <1>1. HInv /\ IInv /\ SharedForSameQuestion =>
          \A r \in Requests : got[r] # None =>
            LET c == got[r].token IN
            /\ c \in Outstanding
            /\ Bounded(c, req[c.sessionKey])
            /\ Alike(req[c.sessionKey], req[r])
    <2> SUFFICES ASSUME HInv, IInv, SharedForSameQuestion, NEW r \in Requests, got[r] # None
                 PROVE  LET c == got[r].token IN
                        /\ c \in Outstanding
                        /\ Bounded(c, req[c.sessionKey])
                        /\ Alike(req[c.sessionKey], req[r])
      OBVIOUS
    <2>1. pc[r] = "done" /\ got[r].token = cred[r]
      BY DEF HInv, Received
    <2>2. cred[r] \in Outstanding /\ cred[r] \in minted
      BY <2>1 DEF Outstanding, IInv, CallsOK, Holding
    <2>3. Bounded(cred[r], req[cred[r].sessionKey])
      BY <2>2 DEF IInv, MintedOK
    <2>4. Alike(req[cred[r].sessionKey], req[r])
      BY <2>1 DEF SharedForSameQuestion, Alike
    <2> QED BY <2>1, <2>2, <2>3, <2>4
  <1> QED BY <1>1, HInvariance, Serving, PTL
=============================================================================
