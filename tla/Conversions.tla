---------------------------- MODULE Conversions ----------------------------
(***************************************************************************)
(* The conversions of modules Names and Encodings, put to work: a client   *)
(* sends a principal as text and the handler parses it, the cache is asked *)
(* under textual keys, claims are read in either of their shapes, a SID is *)
(* parsed and a token framed.  Their results are compared with what the    *)
(* text stood for.                                                         *)
(***************************************************************************)
EXTENDS Names, Encodings

CONSTANTS
  Principals,     \* principals that a client may name, well-formed or not
  Subjects,   \* texts of subjects
  Outputs,    \* names of output types
  Claims,     \* shapes of the groups and the scope claim
  SIDs,       \* domain SIDs, cut at their dashes
  Lengths     \* lengths of an AP-REQ

\* Texts are of any length over any symbols, NUL included.
ASSUME TextsAssumption ==
  /\ Principals \subseteq [ok : {TRUE}, service : Seq(STRING), host : Seq(STRING), realm : Seq(STRING)]
  /\ Subjects \subseteq Seq(STRING)
  /\ Outputs \subseteq STRING

\* A claim has one of the four shapes, with any list or text in it.
ASSUME ClaimsAssumption ==
  Claims \subseteq {Absent, Unreadable} \cup [shape : {"list"}, list : Seq(Seq(STRING))]
                     \cup [shape : {"text"}, text : Seq(STRING)]

\* A SID has any number of parts: parseDomainSID sets no upper limit.
ASSUME SIDsAssumption == SIDs \subseteq Seq(Int)

\* What the frame holds is shorter than 2^31 bytes.
ASSUME LengthsAssumption ==
  /\ Lengths \subseteq Nat
  /\ \A n \in Lengths : 11 + 2 + n <= 2147483647

VARIABLES
  at,         \* which conversion was made last, "none" before it is
  input,      \* what it was given
  output,     \* what came out
  entry       \* the only entry of the textual cache: its key, what it is for

vars == <<at, input, output, entry>>

Init == at = "none" /\ input = Nothing /\ output = Nothing /\ entry = Nothing

Convert(name, in, out) ==
  /\ at' = name /\ input' = in /\ output' = out
  /\ UNCHANGED entry

\* Client.Exchange sends audience = Target.String(); parseRequest reads it.
SendName(p) == Convert("name", p, ParseServicePrincipal(String(p)))

\* A question is a subject, the principal that the handler parsed, an output.
Questions ==
  {q \in [subject : Subjects, spn : {ParseServicePrincipal(String(p)) : p \in Principals},
          output : Outputs] : q.spn.ok}

KeyOf(q) == CacheKeyText(q.subject, q.spn, q.output)

Put(q) ==
  /\ entry' = [key |-> KeyOf(q), for |-> q]
  /\ UNCHANGED <<at, input, output>>

\* Get: the question that the entry was put for if the keys are equal.
Get(q) ==
  Convert("get", q, IF entry.key = KeyOf(q) THEN entry.for ELSE Nothing)

ReadClaims(groups, scope) ==
  Convert("claims", [groups |-> groups, scope |-> scope], MapClaims(groups, scope))

ParseSID(parts) == Convert("sid", parts, parseDomainSID(parts))

Frame(n) == Convert("frame", n, MarshalAPReqToken(n))

\* The next conversion can be made; the cache is forgotten.
Again ==
  /\ at # "none"
  /\ at' = "none" /\ input' = Nothing /\ output' = Nothing /\ entry' = Nothing

Next ==
  \/ /\ at = "none" /\ entry = Nothing
     /\ \/ \E p \in Principals : SendName(p)
        \/ \E q \in Questions : Put(q)
        \/ \E groups, scope \in Claims : ReadClaims(groups, scope)
        \/ \E parts \in SIDs : ParseSID(parts)
        \/ \E n \in Lengths : Frame(n)
  \/ /\ at = "none" /\ entry # Nothing
     /\ \E q \in Questions : Get(q)
  \/ Again

Spec == Init /\ [][Next]_vars

---------------------------------------------------------------------------
(***************************************************************************)
(* What is checked.                                                        *)
(***************************************************************************)
Has(s, c) == \E n \in DOMAIN s : s[n] = c

(***************************************************************************)
(* A principal with a service and a host, neither of which holds a / or an *)
(* @, arrives as the client named it, whatever its realm; and what the     *)
(* handler takes is always such a principal, so that the realm it shows is *)
(* the one it is resolved and sealed in (principal.go, client.go).         *)
(***************************************************************************)
Plain(p) ==
  \A part \in {p.service, p.host} : part # <<>> /\ ~Has(part, "/") /\ ~Has(part, "@")

NameSurvivesWire ==
  at = "name" =>
    /\ Plain(input) => output = input
    /\ output.ok => Plain(output)

(***************************************************************************)
(* Two questions share a cache key only if they are the same question: the *)
(* subject, the service, the host, the realm and the output type of a hit  *)
(* are the ones asked for, although subject and principal are texts of any *)
(* length and may hold / and @ themselves.  It is enough that the subjects *)
(* hold no NUL, or that the principals do not, and the code checks neither *)
(* (cache.go).                                                             *)
(***************************************************************************)
HitIsOwn ==
  at = "get" /\ output # Nothing =>
    \/ output = input
    \/ /\ Has(input.subject, NUL) \/ Has(output.subject, NUL)
       /\ Has(String(input.spn), NUL) \/ Has(String(output.spn), NUL)

\* A delimited text can carry w: w has no separator, or is nothing but blanks
\* that are separators.
Carried(w) ==
  \A n \in DOMAIN w : IsBlank(w) <=> w[n] \in Separators

Delimitable(claim) ==
  claim.shape = "list" => \A n \in DOMAIN claim.list : Carried(claim.list[n])

Delimited(ws, sep) ==
  LET Upto[n \in 0 .. Len(ws)] ==
        IF n = 0 THEN <<>> ELSE Upto[n - 1] \o <<sep>> \o ws[n]
  IN Upto[Len(ws)]

InOneText(claim, sep) ==
  IF claim.shape = "list" THEN Text(Delimited(claim.list, sep)) ELSE claim

(***************************************************************************)
(* A claim means the same as a JSON list and as one delimited text, with   *)
(* empty and blank entries and repeated separators in either, "to match    *)
(* string-path behaviour" (claimsmap.go).  It does for the entries that a  *)
(* delimited text can carry: those without a separator, and blank ones     *)
(* that are made of nothing else.                                          *)
(***************************************************************************)
ShapesAgree ==
  at = "claims" /\ Delimitable(input.groups) /\ Delimitable(input.scope) =>
    \A sep \in Separators :
      output = MapClaims(InOneText(input.groups, sep), InOneText(input.scope, sep))

\* The parts that a reader of the binary SID finds: as many as its count says.
Said(sid) ==
  <<LetterS, sid.Revision, sid.IdentifierAuthority>>
    \o SubSeq(sid.SubAuthority, 1, sid.SubAuthorityCount)

\* What the count byte can say.
MaxSubAuthorities == 255

(***************************************************************************)
(* The binary SID that goes into the PAC says nothing that the configured  *)
(* text does not say: no authority or sub-authority is cut to a width, and *)
(* read by its count it gives the text's parts back: all of them exactly   *)
(* as long as the count byte can count them, and only the first ones when  *)
(* it wraps, which nothing refuses.  A domain SID S-1-5-21-a-b-c is taken  *)
(* (pacbuilder.go, parseDomainSID).                                        *)
(***************************************************************************)
SIDFaithful ==
  at = "sid" =>
    /\ output.ok =>
         /\ \A i \in DOMAIN Said(output) : i \in DOMAIN input /\ Said(output)[i] = input[i]
         /\ Len(input) <= 3 + MaxSubAuthorities <=> Said(output) = input
    /\ Len(input) = 7 /\ SubSeq(input, 1, 4) = <<LetterS, 1, 5, 21>>
         /\ (\A i \in 5 .. 7 : input[i] \in Nat) => output.ok

(***************************************************************************)
(* An acceptor that reads the frame by X.690 finds exactly the bytes that  *)
(* follow, in the shortest form, and the token fills the buffer allocated  *)
(* for it to the byte - two functions compute that size (apreq.go).        *)
(***************************************************************************)
ReadLength(bytes) ==
  LET Value[n \in 1 .. Len(bytes)] ==
        IF n = 1 THEN 0 ELSE 256 * Value[n - 1] + bytes[n]
  IN IF bytes[1] < 128 THEN bytes[1] ELSE Value[Len(bytes)]

TokenFramed ==
  at = "frame" =>
    LET length == Tail(output.head) IN
    /\ ReadLength(length) = output.inner
    /\ IF output.inner < 128 THEN Len(length) = 1
       ELSE length[1] = 128 + Len(length) - 1 /\ length[2] > 0
    /\ output.capacity = Len(output.head) + output.inner
=============================================================================
