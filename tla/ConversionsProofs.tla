------------------------- MODULE ConversionsProofs -------------------------
(***************************************************************************)
(* Proofs about the conversions of modules Names and Encodings for texts   *)
(* and lists of every length over every alphabet, SIDs of every length and *)
(* every length of an AP-REQ below 2^31.                                   *)
(***************************************************************************)
EXTENDS Conversions, NaturalsInduction, WellFoundedInduction, TLAPS

\* STRING; the literals are named because the provers do not know them for strings.
Symbol == STRING \cup {"/", "@", NUL}
TextSeq == Seq(Symbol)
Name == [ok : {TRUE}, service : TextSeq, host : TextSeq, realm : TextSeq]

---------------------------------------------------------------------------
(***************************************************************************)
(* Sequences.                                                              *)
(***************************************************************************)
\* A sequence is its length and its elements.
LEMMA SameText ==
  ASSUME NEW S, NEW s \in Seq(S), NEW t \in Seq(S), Len(s) = Len(t),
         \A n \in 1 .. Len(s) : s[n] = t[n]
  PROVE  s = t
  OBVIOUS

LEMMA Concat ==
  ASSUME NEW S, NEW s \in Seq(S), NEW t \in Seq(S)
  PROVE  /\ s \o t \in Seq(S)
         /\ Len(s \o t) = Len(s) + Len(t)
         /\ \A n \in 1 .. Len(s) : (s \o t)[n] = s[n]
         /\ \A n \in 1 .. Len(t) : (s \o t)[Len(s) + n] = t[n]
  OBVIOUS

LEMMA Slice ==
  ASSUME NEW S, NEW s \in Seq(S), NEW m \in 1 .. Len(s) + 1, NEW n \in 0 .. Len(s), m <= n + 1
  PROVE  /\ SubSeq(s, m, n) \in Seq(S)
         /\ Len(SubSeq(s, m, n)) = n - m + 1
         /\ \A k \in 1 .. n - m + 1 : SubSeq(s, m, n)[k] = s[m + k - 1]
  OBVIOUS

LEMMA ConcatAssoc ==
  ASSUME NEW S, NEW r \in Seq(S), NEW s \in Seq(S), NEW t \in Seq(S)
  PROVE  r \o (s \o t) = (r \o s) \o t
  OBVIOUS

LEMMA ConcatEmpty ==
  ASSUME NEW S, NEW s \in Seq(S)
  PROVE  s \o <<>> = s
  <1>1. <<>> \in Seq(S) /\ Len(<<>>) = 0
    OBVIOUS
  <1> QED BY <1>1, Concat, SameText

\* A sequence and one more element, written as a concatenation.
LEMMA Extended ==
  ASSUME NEW S, NEW s \in Seq(S), NEW x \in S
  PROVE  /\ <<x>> \in Seq(S) /\ s \o <<x>> \in Seq(S)
         /\ Len(s) \in Nat /\ Len(s \o <<x>>) = Len(s) + 1
         /\ (s \o <<x>>)[Len(s) + 1] = x
         /\ \A n \in 1 .. Len(s) : (s \o <<x>>)[n] = s[n]
  OBVIOUS

\* Equal texts that end in one symbol each: the rests and the symbols are equal.
LEMMA LastSymbol ==
  ASSUME NEW S, NEW s \in Seq(S), NEW t \in Seq(S), NEW x \in S, NEW y \in S,
         s \o <<x>> = t \o <<y>>
  PROVE  s = t /\ x = y
  <1>1. Len(s) = Len(t) /\ \A n \in 1 .. Len(s) : s[n] = t[n]
    BY Extended
  <1>2. x = y
    BY Extended, <1>1
  <1> QED BY <1>1, <1>2, SameText

---------------------------------------------------------------------------
(***************************************************************************)
(* IndexByte.                                                              *)
(***************************************************************************)
\* Every set of numbers that is not empty has a least element.
LEMMA Least ==
  ASSUME NEW S \in SUBSET Nat, S # {}
  PROVE  \E n \in S : \A m \in S : n <= m
  <1>1. PICK n \in S : \A m \in S : ~(<<m, n>> \in OpToRel(<, Nat))
    BY NatLessThanWellFounded, WFMin, Zenon
  <1>2. \A m \in S : ~(m < n)
    BY <1>1 DEF OpToRel
  <1> QED BY <1>2

\* A symbol that is not in the text has no position.
LEMMA IndexNone ==
  ASSUME NEW s \in TextSeq, NEW c, ~Has(s, c)
  PROVE  IndexByte(s, c) = 0
  BY DEF IndexByte, Has

\* A position before which the symbol does not occur is the first one.
LEMMA IndexFirst ==
  ASSUME NEW s \in TextSeq, NEW c, NEW k \in 1 .. Len(s), s[k] = c,
         \A m \in 1 .. k - 1 : s[m] # c
  PROVE  IndexByte(s, c) = k
  <1> DEFINE places == {n \in DOMAIN s : s[n] = c}
  <1>1. DOMAIN s = 1 .. Len(s) /\ Len(s) \in Nat
    BY DEF TextSeq
  <1>2. k \in places /\ places \subseteq Nat /\ \A m \in places : k <= m
    BY <1>1
  <1> HIDE DEF places
  <1>3. (CHOOSE n \in places : \A m \in places : n <= m) = k
    <2>1. \A n \in places : (\A m \in places : n <= m) => n = k
      BY <1>2
    <2> QED BY <1>2, <2>1
  <1>4. places # {}
    BY <1>2
  <1> QED BY <1>3, <1>4 DEF IndexByte, places

\* Where there is one, IndexByte is the first position of the symbol.
LEMMA IndexFound ==
  ASSUME NEW s \in TextSeq, NEW c, IndexByte(s, c) # 0
  PROVE  /\ IndexByte(s, c) \in 1 .. Len(s)
         /\ s[IndexByte(s, c)] = c
         /\ \A m \in 1 .. IndexByte(s, c) - 1 : s[m] # c
  <1> DEFINE places == {n \in DOMAIN s : s[n] = c}
             k == CHOOSE n \in places : \A m \in places : n <= m
  <1>1. DOMAIN s = 1 .. Len(s) /\ Len(s) \in Nat
    BY DEF TextSeq
  <1>2. places # {} /\ IndexByte(s, c) = k
    BY DEF IndexByte
  <1>3. places \subseteq Nat
    BY <1>1
  <1>4. k \in places /\ \A m \in places : k <= m
    <2> HIDE DEF places
    <2> QED BY <1>2, <1>3, Least
  <1>5. k \in 1 .. Len(s) /\ s[k] = c
    BY <1>1, <1>4
  <1>6. \A m \in 1 .. k - 1 : s[m] # c
    <2> SUFFICES ASSUME NEW m \in 1 .. k - 1, s[m] = c PROVE FALSE
      OBVIOUS
    <2>1. m \in places
      BY <1>1, <1>5
    <2> QED BY <1>4, <1>5, <2>1
  <1> QED BY <1>2, <1>5, <1>6

\* Joined with a symbol that the first text does not hold, two texts are
\* found again at the symbol's first position.
LEMMA Joined ==
  ASSUME NEW a \in TextSeq, NEW b \in TextSeq, NEW c \in Symbol, ~Has(a, c)
  PROVE  LET s == a \o <<c>> \o b IN
         /\ s \in TextSeq
         /\ IndexByte(s, c) = Len(a) + 1
         /\ Before(s, IndexByte(s, c)) = a
         /\ After(s, IndexByte(s, c)) = b
  <1> DEFINE s == a \o <<c>> \o b
             k == Len(a) + 1
  <1>1. /\ a \o <<c>> \in TextSeq /\ Len(a \o <<c>>) = k /\ Len(a) \in Nat /\ Len(b) \in Nat
        /\ (a \o <<c>>)[k] = c /\ \A n \in 1 .. Len(a) : (a \o <<c>>)[n] = a[n]
    BY Extended DEF TextSeq
  <1>2. /\ s \in TextSeq /\ Len(s) = k + Len(b)
        /\ \A n \in 1 .. k : s[n] = (a \o <<c>>)[n]
        /\ \A n \in 1 .. Len(b) : s[k + n] = b[n]
    BY <1>1, Concat DEF TextSeq
  <1> HIDE DEF s
  <1>3. s[k] = c /\ \A n \in 1 .. Len(a) : s[n] = a[n]
    BY <1>1, <1>2
  <1>4. IndexByte(s, c) = k
    <2>1. k \in 1 .. Len(s)
      BY <1>1, <1>2
    <2>2. DOMAIN a = 1 .. Len(a)
      BY DEF TextSeq
    <2>3. \A m \in 1 .. k - 1 : s[m] # c
      BY <1>1, <1>3, <2>2 DEF Has
    <2> QED BY <1>2, <1>3, <2>1, <2>3, IndexFirst
  <1>5. Before(s, k) = a
    <2>1. /\ SubSeq(s, 1, Len(a)) \in Seq(Symbol) /\ Len(SubSeq(s, 1, Len(a))) = Len(a)
          /\ \A n \in 1 .. Len(a) : SubSeq(s, 1, Len(a))[n] = s[n]
      BY <1>1, <1>2, Slice DEF TextSeq
    <2>2. SubSeq(s, 1, Len(a)) = a
      BY <1>3, <2>1, SameText DEF TextSeq
    <2> QED BY <1>1, <2>2 DEF Before
  <1>6. After(s, k) = b
    <2> DEFINE t == SubSeq(s, k + 1, Len(s))
    <2>1. /\ t \in Seq(Symbol) /\ Len(t) = Len(b)
          /\ \A n \in 1 .. Len(b) : t[n] = s[k + n]
      BY <1>1, <1>2, Slice DEF TextSeq
    <2> HIDE DEF t
    <2>2. t = b
      BY <1>2, <2>1, SameText DEF TextSeq
    <2> QED BY <2>2 DEF After, t
  <1> QED BY <1>2, <1>4, <1>5, <1>6 DEF s

\* s is a and b with c between them, position by position.
IsJoin(s, a, c, b) ==
  /\ Len(s) = Len(a) + 1 + Len(b)
  /\ s[Len(a) + 1] = c
  /\ \A n \in 1 .. Len(a) : s[n] = a[n]
  /\ \A n \in 1 .. Len(b) : s[Len(a) + 1 + n] = b[n]

LEMMA JoinedParts ==
  ASSUME NEW a \in TextSeq, NEW b \in TextSeq, NEW c \in Symbol
  PROVE  a \o <<c>> \o b \in TextSeq /\ IsJoin(a \o <<c>> \o b, a, c, b)
  <1>1. PICK f \in TextSeq : f = a \o <<c>>
    BY Extended DEF TextSeq
  <1>2. /\ Len(f) = Len(a) + 1 /\ Len(a) \in Nat /\ Len(b) \in Nat
        /\ f[Len(a) + 1] = c /\ \A n \in 1 .. Len(a) : f[n] = a[n]
    BY <1>1, Extended DEF TextSeq
  <1>3. /\ f \o b \in TextSeq /\ Len(f \o b) = Len(f) + Len(b)
        /\ \A n \in 1 .. Len(f) : (f \o b)[n] = f[n]
        /\ \A n \in 1 .. Len(b) : (f \o b)[Len(f) + n] = b[n]
    BY Concat DEF TextSeq
  <1>4. PICK s \in TextSeq : s = f \o b
    BY <1>3
  <1>5. IsJoin(s, a, c, b)
    BY <1>2, <1>3, <1>4 DEF IsJoin
  <1> QED BY <1>1, <1>4, <1>5, Zenon

(***************************************************************************)
(* A join can be cut at its symbol in one way only if the symbol is not in *)
(* the first texts (cut at its first position) or not in the second ones   *)
(* (cut at its last).                                                      *)
(***************************************************************************)
LEMMA CutAlike ==
  ASSUME NEW a \in TextSeq, NEW b \in TextSeq, NEW d \in TextSeq, NEW e \in TextSeq,
         NEW c, NEW s, IsJoin(s, a, c, b), IsJoin(s, d, c, e),
         (~Has(a, c) /\ ~Has(d, c)) \/ (~Has(b, c) /\ ~Has(e, c))
  PROVE  a = d /\ b = e
  <1>1. /\ Len(a) \in Nat /\ Len(b) \in Nat /\ DOMAIN a = 1 .. Len(a) /\ DOMAIN b = 1 .. Len(b)
        /\ Len(d) \in Nat /\ Len(e) \in Nat /\ DOMAIN d = 1 .. Len(d) /\ DOMAIN e = 1 .. Len(e)
    BY DEF TextSeq
  <1>2. Len(a) + Len(b) = Len(d) + Len(e)
    <2>1. Len(a) + 1 + Len(b) = Len(d) + 1 + Len(e)
      BY Zenon DEF IsJoin
    <2> QED BY <1>1, <2>1
  <1>3. ASSUME Len(a) < Len(d) PROVE FALSE
    <2>1. Len(a) + 1 \in 1 .. Len(d) /\ d[Len(a) + 1] = c
      BY <1>1, <1>3 DEF IsJoin
    <2>2. PICK k \in 1 .. Len(b) : Len(a) + 1 + k = Len(d) + 1
      <3>1. Len(d) - Len(a) \in 1 .. Len(b) /\ Len(a) + 1 + (Len(d) - Len(a)) = Len(d) + 1
        BY <1>1, <1>2, <1>3
      <3> QED BY <3>1
    <2>3. b[k] = c
      BY <2>2 DEF IsJoin
    <2> QED BY <1>1, <2>1, <2>2, <2>3 DEF Has
  <1>4. ASSUME Len(d) < Len(a) PROVE FALSE
    <2>1. Len(d) + 1 \in 1 .. Len(a) /\ a[Len(d) + 1] = c
      BY <1>1, <1>4 DEF IsJoin
    <2>2. PICK k \in 1 .. Len(e) : Len(d) + 1 + k = Len(a) + 1
      <3>1. Len(a) - Len(d) \in 1 .. Len(e) /\ Len(d) + 1 + (Len(a) - Len(d)) = Len(a) + 1
        BY <1>1, <1>2, <1>4
      <3> QED BY <3>1
    <2>3. e[k] = c
      BY <2>2 DEF IsJoin
    <2> QED BY <1>1, <2>1, <2>2, <2>3 DEF Has
  <1>5. Len(a) = Len(d) /\ Len(b) = Len(e)
    <2>1. \A w, x, y, z \in Nat : w + x = y + z /\ ~(w < y) /\ ~(y < w) => w = y /\ x = z
      OBVIOUS
    <2> QED BY <1>1, <1>2, <1>3, <1>4, <2>1, Zenon
  <1>6. /\ \A n \in 1 .. Len(a) : a[n] = d[n]
        /\ \A n \in 1 .. Len(b) : b[n] = e[n]
    BY <1>5 DEF IsJoin
  <1> QED BY <1>5, <1>6, SameText DEF TextSeq

---------------------------------------------------------------------------
(***************************************************************************)
(* Principals.                                                             *)
(***************************************************************************)
LEMMA Symbols == "/" \in Symbol /\ "@" \in Symbol /\ NUL \in Symbol /\ "/" # "@"
  BY DEF Symbol

LEMMA TextOfStrings == Seq(STRING) \subseteq TextSeq
  <1>1. ASSUME NEW S, NEW T, S \subseteq T, NEW s \in Seq(S)
        PROVE  s \in Seq(T)
    BY <1>1
  <1>2. STRING \subseteq Symbol
    BY DEF Symbol
  <1> QED BY <1>1, <1>2, Zenon DEF TextSeq

LEMMA NamedPrincipals == Principals \subseteq Name
  BY TextsAssumption, TextOfStrings DEF Name

\* A concatenation holds only what its parts hold.
LEMMA HoldsNeither ==
  ASSUME NEW a \in TextSeq, NEW b \in TextSeq, NEW c, ~Has(a, c), ~Has(b, c)
  PROVE  ~Has(a \o b, c)
  <1>1. /\ a \o b \in Seq(Symbol) /\ Len(a) \in Nat /\ Len(b) \in Nat
        /\ Len(a \o b) = Len(a) + Len(b)
        /\ \A n \in 1 .. Len(a) : (a \o b)[n] = a[n]
        /\ \A n \in 1 .. Len(b) : (a \o b)[Len(a) + n] = b[n]
    BY Concat DEF TextSeq
  <1>2. DOMAIN a = 1 .. Len(a) /\ DOMAIN b = 1 .. Len(b) /\ DOMAIN (a \o b) = 1 .. Len(a) + Len(b)
    BY <1>1 DEF TextSeq
  <1> SUFFICES ASSUME NEW n \in 1 .. Len(a) + Len(b) PROVE (a \o b)[n] # c
    BY <1>2 DEF Has
  <1>3. CASE n <= Len(a)
    BY <1>1, <1>2, <1>3 DEF Has
  <1>4. CASE n > Len(a)
    <2>1. PICK m \in 1 .. Len(b) : n = Len(a) + m
      <3>1. n - Len(a) \in 1 .. Len(b) /\ n = Len(a) + (n - Len(a))
        BY <1>1, <1>4
      <3> QED BY <3>1
    <2> QED BY <1>1, <1>2, <2>1 DEF Has
  <1> QED BY <1>1, <1>3, <1>4

\* The part before the realm, service/host, and the whole name, are texts.
LEMMA Rendered ==
  ASSUME NEW p \in Name
  PROVE  /\ p.service \o <<"/">> \o p.host \in TextSeq
         /\ String(p) \in TextSeq
         /\ p.realm = <<>> => String(p) = p.service \o <<"/">> \o p.host
         /\ p.realm # <<>> =>
              String(p) = (p.service \o <<"/">> \o p.host) \o <<"@">> \o p.realm
  <1> DEFINE T == p.service \o <<"/">> \o p.host
  <1>1. p.service \in TextSeq /\ p.host \in TextSeq /\ p.realm \in TextSeq
    BY DEF Name
  <1>2. <<"@">> \in TextSeq /\ T \in TextSeq
    BY <1>1, Symbols, Extended, Concat DEF TextSeq
  <1> HIDE DEF T
  <1>3. CASE p.realm = <<>>
    <2>1. String(p) = T \o <<>>
      BY <1>3 DEF String, T
    <2>2. T \o <<>> = T
      BY <1>2, ConcatEmpty DEF TextSeq
    <2> QED BY <1>2, <1>3, <2>1, <2>2 DEF T
  <1>4. CASE p.realm # <<>>
    <2>1. String(p) = T \o (<<"@">> \o p.realm)
      BY <1>4 DEF String, T
    <2>2. T \o (<<"@">> \o p.realm) = (T \o <<"@">>) \o p.realm
      <3>1. PICK a \in Seq(Symbol), r \in Seq(Symbol), t \in Seq(Symbol) :
              a = <<"@">> /\ r = p.realm /\ t = T
        BY <1>1, <1>2 DEF TextSeq
      <3>2. t \o (a \o r) = (t \o a) \o r
        BY ConcatAssoc
      <3> QED BY <3>1, <3>2, Zenon
    <2>3. (T \o <<"@">>) \o p.realm \in TextSeq
      BY <1>1, <1>2, Concat DEF TextSeq
    <2> QED BY <1>2, <1>4, <2>1, <2>2, <2>3 DEF T
  <1> QED BY <1>3, <1>4

\* What ParseServicePrincipal makes of service/host and a realm.
LEMMA ParseBody ==
  ASSUME NEW p \in Name, Plain(p)
  PROVE  LET body == p.service \o <<"/">> \o p.host
             slash == IndexByte(body, "/") IN
         /\ slash # 0 /\ Before(body, slash) = p.service /\ After(body, slash) = p.host
         /\ IndexByte(p.host, "/") = 0 /\ ~Has(body, "@")
  <1> DEFINE body == p.service \o <<"/">> \o p.host
  <1>1. p.service \in TextSeq /\ p.host \in TextSeq
    BY DEF Name
  <1>2. /\ ~Has(p.service, "/") /\ ~Has(p.service, "@")
        /\ ~Has(p.host, "/") /\ ~Has(p.host, "@")
    BY DEF Plain
  <1>3. /\ IndexByte(body, "/") = Len(p.service) + 1
        /\ Before(body, IndexByte(body, "/")) = p.service
        /\ After(body, IndexByte(body, "/")) = p.host
    BY <1>1, <1>2, Symbols, Joined
  <1>4. Len(p.service) + 1 # 0
    <2>1. Len(p.service) \in Nat
      BY <1>1 DEF TextSeq
    <2> QED BY <2>1
  <1>5. IndexByte(p.host, "/") = 0
    BY <1>1, <1>2, IndexNone
  <1>6. ~Has(body, "@")
    <2>1. <<"/">> \in TextSeq /\ p.service \o <<"/">> \in TextSeq
      BY <1>1, Symbols, Extended DEF TextSeq
    <2>2. ~Has(<<"/">>, "@")
      BY Symbols DEF Has
    <2> QED BY <1>1, <1>2, <2>1, <2>2, HoldsNeither
  <1> QED BY <1>3, <1>4, <1>5, <1>6

\* A plain principal is read back from its text.
LEMMA RoundTrip ==
  ASSUME NEW p \in Name, Plain(p)
  PROVE  ParseServicePrincipal(String(p)) = p
  <1> DEFINE s == String(p)
             cut == IndexByte(s, "@")
             body == p.service \o <<"/">> \o p.host
  <1>1. /\ body \in TextSeq /\ s \in TextSeq /\ p.realm \in TextSeq
        /\ p.service # <<>> /\ p.host # <<>>
        /\ p = Principal(p.service, p.host, p.realm)
    BY Rendered DEF Plain, Name, Principal
  <1>2. /\ (IF cut = 0 THEN s ELSE Before(s, cut)) = body
        /\ (IF cut = 0 THEN <<>> ELSE After(s, cut)) = p.realm
    <2>1. CASE p.realm = <<>>
      <3>1. s = body /\ cut = 0
        BY <1>1, <2>1, Rendered, ParseBody, IndexNone
      <3> QED BY <2>1, <3>1
    <2>2. CASE p.realm # <<>>
      <3>1. s = body \o <<"@">> \o p.realm /\ ~Has(body, "@")
        BY <2>2, Rendered, ParseBody
      <3> HIDE DEF body
      <3>2. cut = Len(body) + 1 /\ Before(s, cut) = body /\ After(s, cut) = p.realm
        BY <1>1, <3>1, Symbols, Joined
      <3>3. Len(body) + 1 # 0
        <4>1. Len(body) \in Nat
          BY <1>1 DEF TextSeq
        <4> QED BY <4>1
      <3> QED BY <3>2, <3>3
    <2> QED BY <2>1, <2>2
  <1> DEFINE slash == IndexByte(body, "/")
  <1>3. /\ slash # 0 /\ Before(body, slash) = p.service /\ After(body, slash) = p.host
        /\ IndexByte(p.host, "/") = 0
    BY ParseBody
  <1> HIDE DEF body, s
  <1>4. ParseServicePrincipal(s) = Principal(p.service, p.host, p.realm)
    BY <1>1, <1>2, <1>3 DEF ParseServicePrincipal
  <1> QED BY <1>1, <1>4 DEF s

\* A part of a text is a text, and holds nothing that those positions do not.
LEMMA PartHolds ==
  ASSUME NEW s \in TextSeq, NEW m \in 1 .. Len(s) + 1, NEW n \in 0 .. Len(s), m <= n + 1,
         NEW c, \A k \in m .. n : s[k] # c
  PROVE  SubSeq(s, m, n) \in TextSeq /\ ~Has(SubSeq(s, m, n), c)
  <1>1. /\ SubSeq(s, m, n) \in Seq(Symbol) /\ Len(SubSeq(s, m, n)) = n - m + 1
        /\ \A k \in 1 .. n - m + 1 : SubSeq(s, m, n)[k] = s[m + k - 1]
    BY Slice DEF TextSeq
  <1>2. Len(s) \in Nat
    BY DEF TextSeq
  <1>3. DOMAIN SubSeq(s, m, n) = 1 .. n - m + 1
    BY <1>1
  <1>4. \A k \in 1 .. n - m + 1 : m + k - 1 \in m .. n
    BY <1>2
  <1> QED BY <1>1, <1>3, <1>4 DEF Has, TextSeq

\* The texts before and after position n; neither holds a symbol that s lacks.
LEMMA Parts ==
  ASSUME NEW s \in TextSeq, NEW n \in 1 .. Len(s)
  PROVE  /\ Before(s, n) \in TextSeq /\ After(s, n) \in TextSeq
         /\ \A c : (\A k \in 1 .. n - 1 : s[k] # c) => ~Has(Before(s, n), c)
         /\ \A c : ~Has(s, c) => ~Has(Before(s, n), c) /\ ~Has(After(s, n), c)
  <1>1. Len(s) \in Nat /\ DOMAIN s = 1 .. Len(s)
    BY DEF TextSeq
  <1>2. /\ 1 \in 1 .. Len(s) + 1 /\ n - 1 \in 0 .. Len(s) /\ 1 <= (n - 1) + 1
        /\ n + 1 \in 1 .. Len(s) + 1 /\ Len(s) \in 0 .. Len(s) /\ n + 1 <= Len(s) + 1
    BY <1>1
  <1>3. Before(s, n) \in TextSeq /\ After(s, n) \in TextSeq
    BY <1>2, Slice DEF Before, After, TextSeq
  <1>4. ASSUME NEW c, \A k \in 1 .. n - 1 : s[k] # c
        PROVE  ~Has(Before(s, n), c)
    BY <1>2, <1>4, PartHolds DEF Before
  <1>5. ASSUME NEW c, ~Has(s, c)
        PROVE  ~Has(Before(s, n), c) /\ ~Has(After(s, n), c)
    <2>1. /\ \A k \in 1 .. n - 1 : s[k] # c
          /\ \A k \in n + 1 .. Len(s) : s[k] # c
      BY <1>1, <1>5 DEF Has
    <2> QED BY <1>2, <2>1, PartHolds DEF Before, After
  <1> QED BY <1>3, <1>4, <1>5

\* IndexByte is 0 only if the symbol is not there.
LEMMA IndexZero ==
  ASSUME NEW s \in TextSeq, NEW c, IndexByte(s, c) = 0
  PROVE  ~Has(s, c)
  <1> SUFFICES ASSUME Has(s, c) PROVE FALSE
    OBVIOUS
  <1> DEFINE places == {n \in DOMAIN s : s[n] = c}
  <1>1. DOMAIN s = 1 .. Len(s) /\ Len(s) \in Nat
    BY DEF TextSeq
  <1>2. places # {} /\ places \in SUBSET Nat /\ 0 \notin places
    BY <1>1 DEF Has
  <1>3. (CHOOSE n \in places : \A m \in places : n <= m) \in places
    <2> HIDE DEF places
    <2> QED BY <1>2, Least
  <1>4. IndexByte(s, c) \in places
    BY <1>2, <1>3 DEF IndexByte
  <1> QED BY <1>2, <1>4

\* Whatever the text, what the handler takes is a plain principal.
LEMMA ParsedPlain ==
  ASSUME NEW s \in TextSeq, ParseServicePrincipal(s).ok
  PROVE  ParseServicePrincipal(s) \in Name /\ Plain(ParseServicePrincipal(s))
  <1> DEFINE cut    == IndexByte(s, "@")
             body  == IF cut = 0 THEN s ELSE Before(s, cut)
             realm == IF cut = 0 THEN <<>> ELSE After(s, cut)
             slash == IndexByte(body, "/")
             service == Before(body, slash)
             host  == After(body, slash)
  <1>1. body \in TextSeq /\ realm \in TextSeq /\ ~Has(body, "@")
    <2>1. CASE cut = 0
      <3>1. <<>> \in TextSeq
        BY DEF TextSeq
      <3> QED BY <2>1, <3>1, IndexZero
    <2>2. CASE cut # 0
      <3>1. cut \in 1 .. Len(s) /\ \A k \in 1 .. cut - 1 : s[k] # "@"
        BY <2>2, IndexFound
      <3> HIDE DEF cut
      <3> QED BY <2>2, <3>1, Parts
    <2> QED BY <2>1, <2>2
  <1> HIDE DEF cut, body, realm
  <1>2. /\ slash # 0 /\ service # <<>> /\ host # <<>> /\ IndexByte(host, "/") = 0
        /\ ParseServicePrincipal(s) = Principal(service, host, realm)
    <2>1. ~(slash = 0 \/ service = <<>> \/ host = <<>> \/ IndexByte(host, "/") # 0)
      BY DEF ParseServicePrincipal, Malformed, cut, body, realm
    <2> QED BY <2>1 DEF ParseServicePrincipal, cut, body, realm
  <1>3. slash \in 1 .. Len(body) /\ \A k \in 1 .. slash - 1 : body[k] # "/"
    BY <1>1, <1>2, IndexFound
  <1> HIDE DEF slash
  <1>4. /\ service \in TextSeq /\ host \in TextSeq
        /\ ~Has(service, "/") /\ ~Has(service, "@") /\ ~Has(host, "@")
    BY <1>1, <1>3, Parts
  <1> HIDE DEF service, host
  <1>5. ~Has(host, "/")
    BY <1>2, <1>4, IndexZero
  <1> QED BY <1>1, <1>2, <1>4, <1>5 DEF Principal, Name, Plain

(***************************************************************************)
(* A principal arrives as the client named it, and the handler takes none  *)
(* whose realm could be read in two ways, for names of every length and    *)
(* over every alphabet (principal.go, String and ParseServicePrincipal;    *)
(* httpexchange/client.go).                                                *)
(***************************************************************************)
THEOREM Naming == Spec => []NameSurvivesWire
  <1>1. Init => NameSurvivesWire
    BY DEF Init, NameSurvivesWire
  <1>2. NameSurvivesWire /\ [Next]_vars => NameSurvivesWire'
    <2> SUFFICES ASSUME NameSurvivesWire, [Next]_vars PROVE NameSurvivesWire'
      OBVIOUS
    <2>1. ASSUME NEW p \in Principals, SendName(p) PROVE NameSurvivesWire'
      <3>1. p \in Name /\ String(p) \in TextSeq
        BY NamedPrincipals, Rendered
      <3>2. input' = p /\ output' = ParseServicePrincipal(String(p))
        BY <2>1 DEF SendName, Convert
      <3>3. Plain(p) => output' = p
        BY <3>1, <3>2, RoundTrip
      <3>4. output'.ok => Plain(output')
        BY <3>1, <3>2, ParsedPlain
      <3> QED BY <3>2, <3>3, <3>4 DEF NameSurvivesWire, Plain, Has
    <2>2. CASE at' # "name"
      BY <2>2 DEF NameSurvivesWire
    <2>3. CASE UNCHANGED <<at, input, output>>
      BY <2>3 DEF NameSurvivesWire, Plain, Has
    <2> QED BY <2>1, <2>2, <2>3 DEF Next, vars, Put, Get, ReadClaims, ParseSID, Frame, Again, Convert
  <1> QED BY <1>1, <1>2, PTL DEF Spec

---------------------------------------------------------------------------
(***************************************************************************)
(* The textual cache.                                                      *)
(***************************************************************************)
LEMMA QuestionTypes ==
  ASSUME NEW q \in Questions
  PROVE  /\ q.subject \in TextSeq /\ String(q.spn) \in TextSeq
         /\ q.spn \in Name /\ Plain(q.spn) /\ q.output \in Symbol
         /\ q = [subject |-> q.subject, spn |-> q.spn, output |-> q.output]
  <1>1. /\ q.subject \in Subjects /\ q.output \in Outputs /\ q.spn.ok
        /\ q.spn \in {ParseServicePrincipal(String(p)) : p \in Principals}
        /\ q = [subject |-> q.subject, spn |-> q.spn, output |-> q.output]
    BY DEF Questions
  <1>2. q.subject \in TextSeq /\ q.output \in Symbol
    <2>1. q.subject \in Seq(STRING) /\ q.output \in STRING
      BY <1>1, TextsAssumption
    <2> QED BY <2>1, TextOfStrings DEF Symbol
  <1>3. PICK p \in Principals : q.spn = ParseServicePrincipal(String(p))
    BY <1>1
  <1>4. String(p) \in TextSeq
    BY NamedPrincipals, Rendered
  <1>5. q.spn \in Name /\ Plain(q.spn)
    BY <1>1, <1>3, <1>4, ParsedPlain
  <1>6. String(q.spn) \in TextSeq
    BY <1>5, Rendered
  <1> QED BY <1>1, <1>2, <1>5, <1>6

\* The text of a plain principal determines it.
LEMMA StringInjective ==
  ASSUME NEW p \in Name, NEW r \in Name, Plain(p), Plain(r), String(p) = String(r)
  PROVE  p = r
  <1>1. ParseServicePrincipal(String(p)) = p /\ ParseServicePrincipal(String(r)) = r
    BY RoundTrip
  <1> QED BY <1>1

\* No subject, or no principal, of the two questions holds a NUL.
CanCut(q, r) ==
  \/ ~Has(q.subject, NUL) /\ ~Has(r.subject, NUL)
  \/ ~Has(String(q.spn), NUL) /\ ~Has(String(r.spn), NUL)

\* The key then determines the question: it is cut at one NUL and at its end.
LEMMA KeyInjective ==
  ASSUME NEW q \in Questions, NEW r \in Questions, KeyOf(q) = KeyOf(r), CanCut(q, r)
  PROVE  q = r
  <1> DEFINE Front(x) == x.subject \o <<NUL>> \o String(x.spn)
  <1>1. ASSUME NEW x \in Questions
        PROVE  /\ Front(x) \in Seq(Symbol) /\ Front(x) \o <<NUL>> \in Seq(Symbol)
               /\ KeyOf(x) = (Front(x) \o <<NUL>>) \o <<x.output>>
               /\ x.output \in Symbol
    <2>1. /\ x.subject \in TextSeq /\ x.output \in Symbol /\ String(x.spn) \in TextSeq
      BY QuestionTypes
    <2>2. Front(x) \in TextSeq
      BY <2>1, Symbols, JoinedParts
    <2>3. Front(x) \o <<NUL>> \in Seq(Symbol)
      <3> HIDE DEF Front
      <3> QED BY <2>2, Symbols, Extended DEF TextSeq
    <2>4. KeyOf(x) = (Front(x) \o <<NUL>>) \o <<x.output>>
      BY Zenon DEF KeyOf, CacheKeyText
    <2> QED BY <2>1, <2>2, <2>3, <2>4 DEF TextSeq
  <1> HIDE DEF Front
  <1>2. Front(q) \o <<NUL>> = Front(r) \o <<NUL>> /\ q.output = r.output
    <2>1. (Front(q) \o <<NUL>>) \o <<q.output>> = (Front(r) \o <<NUL>>) \o <<r.output>>
      BY <1>1
    <2>2. PICK a \in Seq(Symbol), b \in Seq(Symbol), x \in Symbol, y \in Symbol :
            /\ a = Front(q) \o <<NUL>> /\ x = q.output
            /\ b = Front(r) \o <<NUL>> /\ y = r.output
      BY <1>1
    <2>3. a \o <<x>> = b \o <<y>>
      BY <2>1, <2>2, Zenon
    <2>4. a = b /\ x = y
      BY <2>3, LastSymbol
    <2> QED BY <2>2, <2>4, Zenon
  <1>3. Front(q) = Front(r)
    <2>1. PICK a \in Seq(Symbol), b \in Seq(Symbol), x \in Symbol :
            a = Front(q) /\ b = Front(r) /\ x = NUL
      BY <1>1, Symbols
    <2>2. a \o <<x>> = b \o <<x>>
      BY <1>2, <2>1, Zenon
    <2>3. a = b
      BY <2>2, LastSymbol
    <2> QED BY <2>1, <2>3, Zenon
  <1>4. q.subject = r.subject /\ String(q.spn) = String(r.spn)
    <2>1. /\ q.subject \in TextSeq /\ String(q.spn) \in TextSeq
          /\ r.subject \in TextSeq /\ String(r.spn) \in TextSeq
      BY QuestionTypes
    <2>2. /\ IsJoin(Front(q), q.subject, NUL, String(q.spn))
          /\ IsJoin(Front(r), r.subject, NUL, String(r.spn))
      BY <2>1, Symbols, JoinedParts, Zenon DEF Front
    <2>3. IsJoin(Front(q), r.subject, NUL, String(r.spn))
      BY <1>3, <2>2, Zenon
    <2> QED BY <2>1, <2>2, <2>3, CutAlike, Zenon DEF CanCut
  <1>5. q.spn = r.spn
    BY <1>4, QuestionTypes, StringInjective
  <1> QED BY <1>2, <1>4, <1>5, QuestionTypes

\* What the entry holds was put under the key of its own question.
EntryInv ==
  /\ entry # Nothing => \E q \in Questions : entry = [key |-> KeyOf(q), for |-> q]
  /\ HitIsOwn

(***************************************************************************)
(* A hit is the caller's own, for subjects of every length and every       *)
(* principal that the handler parses: two questions share a key only if a  *)
(* subject of theirs and a principal of theirs both hold the separator, so *)
(* that a check of either would make cache.go's claim true (CacheKey).     *)
(***************************************************************************)
THEOREM Keying == Spec => []HitIsOwn
  <1>1. Init => EntryInv
    BY DEF Init, EntryInv, HitIsOwn
  <1>2. EntryInv /\ [Next]_vars => EntryInv'
    <2> SUFFICES ASSUME EntryInv, [Next]_vars PROVE EntryInv'
      OBVIOUS
    <2>1. ASSUME NEW q \in Questions, Put(q), at = "none" PROVE EntryInv'
      BY <2>1 DEF Put, EntryInv, HitIsOwn
    <2>2. ASSUME NEW q \in Questions, Get(q), entry # Nothing PROVE EntryInv'
      <3>1. PICK r \in Questions : entry = [key |-> KeyOf(r), for |-> r]
        BY <2>2 DEF EntryInv
      <3>2. /\ entry' = entry /\ input' = q
            /\ output' = IF KeyOf(r) = KeyOf(q) THEN r ELSE Nothing
        BY <2>2, <3>1 DEF Get, Convert
      <3>3. HitIsOwn'
        <4>1. CASE KeyOf(r) = KeyOf(q) /\ CanCut(r, q)
          BY <3>2, <4>1, KeyInjective DEF HitIsOwn
        <4>2. CASE KeyOf(r) = KeyOf(q) /\ ~CanCut(r, q)
          BY <3>2, <4>2 DEF HitIsOwn, CanCut
        <4>3. CASE KeyOf(r) # KeyOf(q)
          BY <3>2, <4>3 DEF HitIsOwn
        <4> QED BY <4>1, <4>2, <4>3
      <3> QED BY <3>1, <3>2, <3>3 DEF EntryInv
    <2>3. CASE entry' = entry /\ at' \in {"name", "claims", "sid", "frame"}
      BY <2>3 DEF EntryInv, HitIsOwn
    <2>4. CASE Again
      BY <2>4 DEF Again, EntryInv, HitIsOwn
    <2>5. CASE UNCHANGED vars
      BY <2>5 DEF vars, EntryInv, HitIsOwn
    <2> QED BY <2>1, <2>2, <2>3, <2>4, <2>5 DEF Next, SendName, ReadClaims, ParseSID, Frame, Convert
  <1>3. EntryInv => HitIsOwn
    BY DEF EntryInv
  <1> QED BY <1>1, <1>2, <1>3, PTL DEF Spec

---------------------------------------------------------------------------
(***************************************************************************)
(* The domain SID.                                                         *)
(***************************************************************************)
\* A sequence is its first three elements and the rest.
LEMMA ThreeAndRest ==
  ASSUME NEW S, NEW s \in Seq(S), Len(s) >= 3
  PROVE  /\ <<s[1], s[2], s[3]>> \o SubSeq(s, 4, Len(s)) = s
         /\ SubSeq(s, 4, Len(s)) \in Seq(S)
         /\ Len(SubSeq(s, 4, Len(s))) = Len(s) - 3
         /\ \A k \in 1 .. Len(s) - 3 : SubSeq(s, 4, Len(s))[k] = s[k + 3]
  <1> DEFINE head == <<s[1], s[2], s[3]>>
             rest == SubSeq(s, 4, Len(s))
  <1>1. /\ Len(s) \in Nat /\ s[1] \in S /\ s[2] \in S /\ s[3] \in S
        /\ 4 \in 1 .. Len(s) + 1 /\ Len(s) \in 0 .. Len(s) /\ 4 <= Len(s) + 1
    OBVIOUS
  <1>2. /\ head \in Seq(S) /\ Len(head) = 3
        /\ head[1] = s[1] /\ head[2] = s[2] /\ head[3] = s[3]
    BY <1>1
  <1>3. /\ rest \in Seq(S) /\ Len(rest) = Len(s) - 3
        /\ \A k \in 1 .. Len(s) - 3 : rest[k] = s[k + 3]
    <2>1. /\ rest \in Seq(S) /\ Len(rest) = Len(s) - 4 + 1
          /\ \A k \in 1 .. Len(s) - 4 + 1 : rest[k] = s[4 + k - 1]
      BY <1>1, Slice
    <2> QED BY <1>1, <2>1
  <1> HIDE DEF head, rest
  <1>4. /\ head \o rest \in Seq(S) /\ Len(head \o rest) = Len(s)
        /\ \A n \in 1 .. 3 : (head \o rest)[n] = head[n]
        /\ \A n \in 1 .. Len(rest) : (head \o rest)[3 + n] = rest[n]
    <2>1. /\ head \o rest \in Seq(S) /\ Len(head \o rest) = Len(head) + Len(rest)
          /\ \A n \in 1 .. Len(head) : (head \o rest)[n] = head[n]
          /\ \A n \in 1 .. Len(rest) : (head \o rest)[Len(head) + n] = rest[n]
      <3>1. head \in Seq(S) /\ rest \in Seq(S)
        BY <1>2, <1>3
      <3> QED BY <3>1, Concat
    <2>2. Len(head) + Len(rest) = Len(s)
      BY <1>1, <1>2, <1>3
    <2> QED BY <1>2, <2>1, <2>2
  <1>5. ASSUME NEW n \in 1 .. Len(s) PROVE (head \o rest)[n] = s[n]
    <2>1. CASE n \in 1 .. 3
      <3>1. n = 1 \/ n = 2 \/ n = 3
        BY <2>1
      <3> QED BY <1>2, <1>4, <2>1, <3>1
    <2>2. CASE n > 3
      <3>1. PICK k \in 1 .. Len(rest) : n = 3 + k
        <4>1. n - 3 \in 1 .. Len(rest) /\ n = 3 + (n - 3)
          BY <1>1, <1>3, <2>2
        <4> QED BY <4>1
      <3>2. (head \o rest)[n] = rest[k]
        BY <1>4, <3>1
      <3>3. rest[k] = s[k + 3] /\ k + 3 = n
        BY <1>3, <3>1
      <3> QED BY <3>2, <3>3
    <2>3. n \in 1 .. 3 \/ n > 3
      OBVIOUS
    <2> QED BY <2>1, <2>2, <2>3, Zenon
  <1>6. head \o rest = s
    BY <1>4, <1>5, SameText
  <1> QED BY <1>3, <1>6 DEF head, rest

LEMMA WholeSlice ==
  ASSUME NEW S, NEW s \in Seq(S)
  PROVE  SubSeq(s, 1, Len(s)) = s
  OBVIOUS

\* The first elements of a sequence.
LEMMA FirstSlice ==
  ASSUME NEW S, NEW s \in Seq(S), NEW k \in 0 .. Len(s)
  PROVE  /\ SubSeq(s, 1, k) \in Seq(S) /\ Len(SubSeq(s, 1, k)) = k
         /\ \A n \in 1 .. k : SubSeq(s, 1, k)[n] = s[n]
  OBVIOUS

\* h with some of the first elements of t begins as h with all of t does.
LEMMA ShorterRest ==
  ASSUME NEW S, NEW h \in Seq(S), NEW t \in Seq(S), NEW k \in 0 .. Len(t)
  PROVE  LET s == h \o SubSeq(t, 1, k) IN
         \A n \in DOMAIN s : n \in DOMAIN (h \o t) /\ s[n] = (h \o t)[n]
  <1>1. PICK u \in Seq(S) : u = SubSeq(t, 1, k)
    BY FirstSlice
  <1>2. Len(u) = k /\ \A n \in 1 .. k : u[n] = t[n]
    BY <1>1, FirstSlice
  <1>3. PICK s \in Seq(S) : s = h \o u
    BY Concat
  <1>4. /\ Len(s) = Len(h) + Len(u)
        /\ \A n \in 1 .. Len(h) : s[n] = h[n]
        /\ \A n \in 1 .. Len(u) : s[Len(h) + n] = u[n]
    BY <1>3, Concat
  <1>5. PICK w \in Seq(S) : w = h \o t
    BY Concat
  <1>6. /\ Len(w) = Len(h) + Len(t)
        /\ \A n \in 1 .. Len(h) : w[n] = h[n]
        /\ \A n \in 1 .. Len(t) : w[Len(h) + n] = t[n]
    BY <1>5, Concat
  <1>7. /\ DOMAIN s = 1 .. Len(s) /\ DOMAIN w = 1 .. Len(w)
        /\ Len(h) \in Nat /\ Len(t) \in Nat
    OBVIOUS
  <1>8. ASSUME NEW n \in 1 .. Len(s) PROVE n \in 1 .. Len(w) /\ s[n] = w[n]
    <2>1. n \in 1 .. Len(w)
      BY <1>2, <1>4, <1>6, <1>7
    <2>2. CASE n \in 1 .. Len(h)
      BY <1>4, <1>6, <2>1, <2>2
    <2>3. CASE n \notin 1 .. Len(h)
      <3>1. PICK m \in 1 .. k : n = Len(h) + m
        <4>1. n - Len(h) \in 1 .. k /\ n = Len(h) + (n - Len(h))
          BY <1>2, <1>4, <1>7, <2>3
        <4> QED BY <4>1
      <3>2. m \in 1 .. Len(u) /\ m \in 1 .. Len(t)
        BY <1>2, <1>7, <3>1
      <3>3. s[n] = u[m] /\ w[n] = t[m] /\ u[m] = t[m]
        BY <1>2, <1>4, <1>6, <3>1, <3>2
      <3> QED BY <2>1, <3>3
    <2> QED BY <2>2, <2>3
  <1> QED BY <1>1, <1>3, <1>5, <1>7, <1>8, Zenon

\* A SID that parses gives its parts back: the first ones, or all of them.
LEMMA SIDRead ==
  ASSUME NEW parts \in SIDs, parseDomainSID(parts).ok
  PROVE  LET said == Said(parseDomainSID(parts)) IN
         /\ \A i \in DOMAIN said : i \in DOMAIN parts /\ said[i] = parts[i]
         /\ Len(parts) <= 3 + MaxSubAuthorities <=> said = parts
  <1> DEFINE sid == parseDomainSID(parts)
             subs == SubSeq(parts, 4, Len(parts))
  <1>1. parts \in Seq(Int) /\ Len(parts) \in Nat
    BY SIDsAssumption
  <1>2. /\ Len(parts) >= 7 /\ parts[1] = LetterS /\ parts[2] = 1
        /\ parts[3] \in 0 .. 255
        /\ sid.Revision = 1 /\ sid.IdentifierAuthority = parts[3] % 256
        /\ sid.SubAuthority = subs /\ sid.SubAuthorityCount = Len(subs) % 256
    BY DEF parseDomainSID, NoSID, AuthorityByte
  <1> HIDE DEF sid
  <1>p. PICK S : S = Int
    OBVIOUS
  <1>s. parts \in Seq(S) /\ Len(parts) >= 3
    BY <1>1, <1>2, <1>p
  <1>3. /\ subs \in Seq(S) /\ Len(subs) = Len(parts) - 3
        /\ <<parts[1], parts[2], parts[3]>> \o subs = parts
    BY <1>s, ThreeAndRest
  <1>h. PICK head \in Seq(S) : head = <<parts[1], parts[2], parts[3]>>
    <2>1. parts[1] \in S /\ parts[2] \in S /\ parts[3] \in S
      BY <1>s
    <2>2. \A x, y, z \in S : <<x, y, z>> \in Seq(S)
      OBVIOUS
    <2> QED BY <2>1, <2>2, Zenon
  <1> HIDE DEF subs
  <1>4. parts[3] % 256 = parts[3]
    <2>1. \A x \in 0 .. 255 : x % 256 = x
      OBVIOUS
    <2> QED BY <1>2, <2>1, Zenon
  <1>5. PICK k \in 0 .. Len(subs) : k = Len(subs) % 256
    <2>1. \A x \in Nat : x % 256 \in 0 .. x
      OBVIOUS
    <2>2. Len(subs) \in Nat
      BY <1>3
    <2> QED BY <2>1, <2>2, Zenon
  <1>6. Said(sid) = head \o SubSeq(subs, 1, k)
    BY <1>2, <1>4, <1>5, <1>h, Zenon DEF Said
  <1>7. \A i \in DOMAIN Said(sid) : i \in DOMAIN parts /\ Said(sid)[i] = parts[i]
    <2>1. LET s == head \o SubSeq(subs, 1, k) IN
          \A n \in DOMAIN s : n \in DOMAIN (head \o subs) /\ s[n] = (head \o subs)[n]
      BY <1>3, <1>h, ShorterRest
    <2>2. head \o subs = parts
      BY <1>3, <1>h, Zenon
    <2> QED BY <1>6, <2>1, <2>2, Zenon
  <1>8. ASSUME Len(parts) <= 3 + MaxSubAuthorities PROVE Said(sid) = parts
    <2>1. k = Len(subs)
      <3>1. \A x \in Nat : x >= 7 /\ x <= 3 + 255 => (x - 3) % 256 = x - 3
        OBVIOUS
      <3>2. (Len(parts) - 3) % 256 = Len(parts) - 3
        BY <1>1, <1>2, <1>8, <3>1, Zenon DEF MaxSubAuthorities
      <3> QED BY <1>3, <1>5, <3>2, Zenon
    <2>2. SubSeq(subs, 1, k) = subs
      BY <1>3, <2>1, WholeSlice
    <2> QED BY <1>3, <1>6, <1>h, <2>2, Zenon
  <1>9. ASSUME Said(sid) = parts PROVE Len(parts) <= 3 + MaxSubAuthorities
    <2>1. PICK u \in Seq(S) : u = SubSeq(subs, 1, k) /\ Len(u) = k
      BY <1>3, FirstSlice
    <2>2. PICK w \in Seq(S) : w = head \o u /\ Len(w) = Len(head) + Len(u)
      BY Concat
    <2>3. w = parts
      BY <1>6, <1>9, <2>1, <2>2, Zenon
    <2>4. Len(head) = 3
      <3>1. \A x, y, z \in S : Len(<<x, y, z>>) = 3
        OBVIOUS
      <3>2. parts[1] \in S /\ parts[2] \in S /\ parts[3] \in S
        BY <1>s
      <3> QED BY <1>h, <3>1, <3>2, Zenon
    <2>5. k <= 255
      <3>1. \A x \in Nat : x % 256 <= 255
        OBVIOUS
      <3>2. Len(subs) \in Nat
        BY <1>3
      <3> QED BY <1>5, <3>1, <3>2, Zenon
    <2>6. Len(parts) = 3 + k
      BY <2>1, <2>2, <2>3, <2>4, Zenon
    <2> QED BY <2>5, <2>6 DEF MaxSubAuthorities
  <1> QED BY <1>7, <1>8, <1>9, Zenon DEF sid

\* A domain SID is taken.
LEMMA SIDTaken ==
  ASSUME NEW parts \in SIDs, Len(parts) = 7, SubSeq(parts, 1, 4) = <<LetterS, 1, 5, 21>>,
         \A i \in 5 .. 7 : parts[i] \in Nat
  PROVE  parseDomainSID(parts).ok
  <1>1. PICK S : S = Int
    OBVIOUS
  <1>2. parts \in Seq(S)
    BY <1>1, SIDsAssumption
  <1>3. PICK t : t = SubSeq(parts, 1, 4)
    OBVIOUS
  <1>4. parts[1] = LetterS /\ parts[2] = 1 /\ parts[3] = 5 /\ parts[4] = 21
    <2>1. t[1] = parts[1] /\ t[2] = parts[2] /\ t[3] = parts[3] /\ t[4] = parts[4]
      <3>1. \A k \in 1 .. 4 : SubSeq(parts, 1, 4)[k] = parts[k]
        <4>1. 1 \in 1 .. Len(parts) + 1 /\ 4 \in 0 .. Len(parts) /\ 1 <= 4 + 1
          OBVIOUS
        <4>2. \A k \in 1 .. 4 - 1 + 1 : SubSeq(parts, 1, 4)[k] = parts[1 + k - 1]
          BY <1>2, <4>1, Slice
        <4> QED BY <4>2
      <3> QED BY <1>3, <3>1
    <2>2. t = <<LetterS, 1, 5, 21>>
      BY <1>3
    <2>3. t[1] = LetterS /\ t[2] = 1 /\ t[3] = 5 /\ t[4] = 21
      BY <2>2
    <2> QED BY <2>1, <2>3
  <1> DEFINE subs == SubSeq(parts, 4, Len(parts))
  <1>5. \A k \in DOMAIN subs : subs[k] >= 0
    <2>1. /\ subs \in Seq(S) /\ Len(subs) = 4
          /\ \A k \in 1 .. 4 : subs[k] = parts[k + 3]
      <3>1. Len(parts) >= 3
        OBVIOUS
      <3>2. /\ subs \in Seq(S) /\ Len(subs) = Len(parts) - 3
            /\ \A k \in 1 .. Len(parts) - 3 : subs[k] = parts[k + 3]
        BY <1>2, <3>1, ThreeAndRest
      <3> HIDE DEF subs
      <3> QED BY <3>2
    <2> HIDE DEF subs
    <2>2. DOMAIN subs = 1 .. 4
      BY <2>1
    <2>3. ASSUME NEW k \in 1 .. 4 PROVE parts[k + 3] >= 0
      <3>1. k = 1 \/ k + 3 \in 5 .. 7
        OBVIOUS
      <3> QED BY <1>4, <3>1
    <2> QED BY <2>1, <2>2, <2>3
  <1>6. Len(parts) >= 7 /\ AuthorityByte(parts[3]).ok
    <2>1. AuthorityByte(5).ok
      <3>1. AuthorityByte(5).ok = (5 \in 0 .. 255)
        BY Zenon DEF AuthorityByte
      <3>2. 5 \in 0 .. 255
        OBVIOUS
      <3> QED BY <3>1, <3>2, Zenon
    <2>2. Len(parts) >= 7
      OBVIOUS
    <2> QED BY <1>4, <2>1, <2>2, Zenon
  <1> HIDE DEF subs
  <1>7. parseDomainSID(parts) =
          [ok |-> TRUE, Revision |-> 1, SubAuthorityCount |-> Len(subs) % 256,
           IdentifierAuthority |-> AuthorityByte(parts[3]).byte, SubAuthority |-> subs]
    BY <1>4, <1>5, <1>6, Zenon DEF parseDomainSID, subs
  <1> QED BY <1>7

(***************************************************************************)
(* For SIDs of every length: the SID in the PAC says what the configured   *)
(* text says: the whole of it up to 255 sub-authorities, and never the     *)
(* whole when the count byte wraps (pacbuilder.go, parseDomainSID).        *)
(***************************************************************************)
THEOREM Identifying == Spec => []SIDFaithful
  <1>1. Init => SIDFaithful
    BY DEF Init, SIDFaithful
  <1>2. SIDFaithful /\ [Next]_vars => SIDFaithful'
    <2> SUFFICES ASSUME SIDFaithful, [Next]_vars PROVE SIDFaithful'
      OBVIOUS
    <2>1. ASSUME NEW parts \in SIDs, ParseSID(parts) PROVE SIDFaithful'
      <3>1. input' = parts /\ output' = parseDomainSID(parts)
        BY <2>1 DEF ParseSID, Convert
      <3>2. output'.ok =>
              /\ \A i \in DOMAIN Said(output') : i \in DOMAIN input' /\ Said(output')[i] = input'[i]
              /\ Len(input') <= 3 + MaxSubAuthorities <=> Said(output') = input'
        BY <3>1, SIDRead, Zenon
      <3>3. Len(input') = 7 /\ SubSeq(input', 1, 4) = <<LetterS, 1, 5, 21>>
              /\ (\A i \in 5 .. 7 : input'[i] \in Nat) => output'.ok
        BY <3>1, SIDTaken, Zenon
      <3> QED BY <3>2, <3>3, Zenon DEF SIDFaithful, Said
    <2>2. CASE at' # "sid"
      BY <2>2 DEF SIDFaithful
    <2>3. CASE UNCHANGED <<at, input, output>>
      BY <2>3, Zenon DEF SIDFaithful, Said
    <2> QED BY <2>1, <2>2, <2>3 DEF Next, vars, Put, Get, ReadClaims, SendName, Frame, Again, Convert
  <1> QED BY <1>1, <1>2, PTL DEF Spec

---------------------------------------------------------------------------
(***************************************************************************)
(* The frame of a token.                                                   *)
(***************************************************************************)
MaxInner == 2147483647

LEMMA Powers ==
  /\ 256 ^ 0 = 1 /\ 256 ^ 1 = 256 /\ 256 ^ 2 = 65536 /\ 256 ^ 3 = 16777216
  BY SMT

\* n takes k bytes if its highest base-256 digit is the k-th.
Takes(n, k) == n \div 256 ^ (k - 1) \in 1 .. 255

LEMMA TakesByRange ==
  ASSUME NEW n \in Nat, n <= MaxInner
  PROVE  /\ Takes(n, 1) <=> n >= 1 /\ n < 256
         /\ Takes(n, 2) <=> n >= 256 /\ n < 65536
         /\ Takes(n, 3) <=> n >= 65536 /\ n < 16777216
         /\ Takes(n, 4) <=> n >= 16777216
  <1>0. 256 ^ (1 - 1) = 1 /\ 256 ^ (2 - 1) = 256 /\ 256 ^ (3 - 1) = 65536 /\ 256 ^ (4 - 1) = 16777216
    BY Powers, SMT
  <1>1. /\ n \div 1 = n
        /\ n \div 256 \in Nat /\ n \div 65536 \in Nat /\ n \div 16777216 \in Nat
    BY SMT
  <1>2. /\ 256 * (n \div 256) <= n /\ n < 256 * (n \div 256) + 256
        /\ 65536 * (n \div 65536) <= n /\ n < 65536 * (n \div 65536) + 65536
        /\ 16777216 * (n \div 16777216) <= n /\ n < 16777216 * (n \div 16777216) + 16777216
    BY SMT
  <1>3. Takes(n, 1) <=> n >= 1 /\ n < 256
    BY <1>0, <1>1, SMT DEF Takes
  <1>4. Takes(n, 2) <=> n >= 256 /\ n < 65536
    BY <1>0, <1>1, <1>2, SMT DEF Takes
  <1>5. Takes(n, 3) <=> n >= 65536 /\ n < 16777216
    BY <1>0, <1>1, <1>2, SMT DEF Takes
  <1>6. Takes(n, 4) <=> n >= 16777216
    BY <1>0, <1>1, <1>2, SMT DEF Takes, MaxInner
  <1> QED BY <1>3, <1>4, <1>5, <1>6, SMT

\* Exactly one width from 1 to 4 fits, and nBytes is it.
LEMMA WidthTaken ==
  ASSUME NEW n \in Nat, n >= 1, n <= MaxInner
  PROVE  nBytes(n) \in 1 .. 4 /\ Takes(n, nBytes(n))
  <1>1. Takes(n, 1) \/ Takes(n, 2) \/ Takes(n, 3) \/ Takes(n, 4)
    BY TakesByRange, SMT
  <1>2. nBytes(n) = CHOOSE k \in 1 .. 4 : Takes(n, k)
    BY DEF nBytes, Takes
  <1>3. \E k \in 1 .. 4 : Takes(n, k)
    <2>1. 1 \in 1 .. 4 /\ 2 \in 1 .. 4 /\ 3 \in 1 .. 4 /\ 4 \in 1 .. 4
      BY SMT
    <2> QED BY <1>1, <2>1, Zenon
  <1> QED BY <1>2, <1>3, Zenon

\* A byte before k others.
LEMMA Prefixed ==
  ASSUME NEW S, NEW x \in S, NEW k \in Nat, NEW d \in [1 .. k -> S]
  PROVE  /\ <<x>> \o d \in Seq(S) /\ Len(<<x>> \o d) = k + 1
         /\ (<<x>> \o d)[1] = x
         /\ \A i \in 1 .. k : (<<x>> \o d)[i + 1] = d[i]
  <1>1. d \in Seq(S) /\ Len(d) = k
    OBVIOUS
  <1>2. <<x>> \in Seq(S) /\ Len(<<x>>) = 1 /\ <<x>>[1] = x
    OBVIOUS
  <1>3. PICK h \in Seq(S) : h = <<x>> /\ Len(h) = 1 /\ h[1] = x
    BY <1>2
  <1>4. /\ h \o d \in Seq(S) /\ Len(h \o d) = 1 + k
        /\ \A i \in 1 .. 1 : (h \o d)[i] = h[i]
        /\ \A i \in 1 .. k : (h \o d)[1 + i] = d[i]
    BY <1>1, <1>3, Concat
  <1>5. /\ h \o d \in Seq(S) /\ Len(h \o d) = k + 1
        /\ (h \o d)[1] = x
        /\ \A i \in 1 .. k : (h \o d)[i + 1] = d[i]
    BY <1>3, <1>4
  <1> QED BY <1>3, <1>5, Zenon

\* The function that ReadLength computes is defined on up to five bytes.
LEMMA ReadSteps ==
  ASSUME NEW b \in Seq(Nat), NEW k \in 1 .. 4, Len(b) = k + 1, b[1] >= 128
  PROVE  \E V : /\ ReadLength(b) = V[k + 1] /\ V[1] = 0
                /\ \A n \in 2 .. k + 1 : V[n] = 256 * V[n - 1] + b[n]
  <1> DEFINE F(f) == [n \in 1 .. k + 1 |-> IF n = 1 THEN 0 ELSE 256 * f[n - 1] + b[n]]
             V == CHOOSE f : f = F(f)
             W(n) == IF n = 1 THEN 0
                     ELSE IF n = 2 THEN b[2]
                     ELSE IF n = 3 THEN 256 * b[2] + b[3]
                     ELSE IF n = 4 THEN 256 * (256 * b[2] + b[3]) + b[4]
                     ELSE 256 * (256 * (256 * b[2] + b[3]) + b[4]) + b[5]
             w == [n \in 1 .. k + 1 |-> W(n)]
  <1>1. ReadLength(b) = V[k + 1]
    <2>1. ~(b[1] < 128)
      <3>1. b[1] \in Nat
        OBVIOUS
      <3> QED BY <3>1
    <2> QED BY <2>1, Zenon DEF ReadLength
  <1>2. w = F(w)
    <2>1. b[2] \in Nat /\ (k >= 2 => b[3] \in Nat)
          /\ (k >= 3 => b[4] \in Nat) /\ (k >= 4 => b[5] \in Nat)
      OBVIOUS
    <2>2. /\ W(1) = 0 /\ W(2) = b[2]
          /\ W(3) = 256 * b[2] + b[3]
          /\ W(4) = 256 * (256 * b[2] + b[3]) + b[4]
          /\ W(5) = 256 * (256 * (256 * b[2] + b[3]) + b[4]) + b[5]
      OBVIOUS
    <2> HIDE DEF W
    <2> DEFINE G(n) == IF n = 1 THEN 0 ELSE 256 * w[n - 1] + b[n]
    <2>3. ASSUME NEW n \in 1 .. k + 1
          PROVE  W(n) = G(n)
      <3>1. n = 1 \/ n = 2 \/ n = 3 \/ n = 4 \/ n = 5
        OBVIOUS
      <3>2. n # 1 => w[n - 1] = W(n - 1)
        OBVIOUS
      <3> HIDE DEF w
      <3>3. CASE n = 1
        BY <2>2, <3>3
      <3>4. CASE n = 2
        BY <2>1, <2>2, <3>2, <3>4
      <3>5. CASE n = 3
        BY <2>2, <3>2, <3>5
      <3>6. CASE n = 4
        BY <2>2, <3>2, <3>6
      <3>7. CASE n = 5
        BY <2>2, <3>2, <3>7
      <3> QED BY <3>1, <3>3, <3>4, <3>5, <3>6, <3>7, Zenon
    <2>4. F(w) = [n \in 1 .. k + 1 |-> G(n)]
      BY Zenon
    <2> HIDE DEF G, F
    <2> QED BY <2>3, <2>4, Zenon
  <1> HIDE DEF w
  <1>3. V = F(V)
    BY <1>2, Zenon
  <1> HIDE DEF V
  <1>4. /\ V[1] = 0
        /\ \A n \in 2 .. k + 1 : V[n] = 256 * V[n - 1] + b[n]
    <2>1. \A n \in 1 .. k + 1 : V[n] = IF n = 1 THEN 0 ELSE 256 * V[n - 1] + b[n]
      BY <1>3, Zenon
    <2>2. 1 \in 1 .. k + 1 /\ \A n \in 2 .. k + 1 : n \in 1 .. k + 1 /\ n # 1
      OBVIOUS
    <2> QED BY <2>1, <2>2, Zenon
  <1> QED BY <1>1, <1>4, Zenon

\* Cutting off j digits, one after the other.
Cut(n, j) == n \div 256 ^ j

LEMMA CutDigits ==
  ASSUME NEW n \in Nat
  PROVE  /\ \A j \in 0 .. 3 : Cut(n, j) \in Nat /\ Cut(n, j) % 256 \in Nat
         /\ \A j \in 0 .. 2 : 256 * Cut(n, j + 1) + (Cut(n, j) % 256) = Cut(n, j)
         /\ Cut(n, 0) = n
  <1>1. /\ Cut(n, 0) = n /\ Cut(n, 1) = n \div 256
        /\ Cut(n, 2) = n \div 65536 /\ Cut(n, 3) = n \div 16777216
    BY Powers, SMT DEF Cut
  <1>2. /\ n \div 256 \in Nat /\ n \div 65536 \in Nat /\ n \div 16777216 \in Nat
        /\ n \div 65536 = (n \div 256) \div 256 /\ n \div 16777216 = (n \div 65536) \div 256
    BY SMT
  <1>3. \A x \in Nat : x % 256 \in Nat /\ 256 * (x \div 256) + (x % 256) = x
    BY SMT
  <1>4. ASSUME NEW j \in 0 .. 3 PROVE Cut(n, j) \in Nat /\ Cut(n, j) % 256 \in Nat
    <2>1. j = 0 \/ j = 1 \/ j = 2 \/ j = 3
      BY SMT
    <2>2. Cut(n, j) \in Nat
      BY <1>1, <1>2, <2>1, SMT
    <2> QED BY <1>3, <2>2, SMT
  <1>5. ASSUME NEW j \in 0 .. 2 PROVE 256 * Cut(n, j + 1) + (Cut(n, j) % 256) = Cut(n, j)
    <2>1. j = 0 \/ j = 1 \/ j = 2
      BY SMT
    <2>2. Cut(n, j + 1) = Cut(n, j) \div 256 /\ Cut(n, j) \in Nat
      BY <1>1, <1>2, <2>1, SMT
    <2> QED BY <1>3, <2>2, SMT
  <1> QED BY <1>1, <1>4, <1>5, SMT

\* The long form is read back, and its first digit is not zero.
LEMMA LongFormRead ==
  ASSUME NEW n \in Nat, n >= 128, n <= MaxInner
  PROVE  /\ LongForm(n) \in Seq(Nat) /\ Len(LongForm(n)) = nBytes(n) + 1
         /\ LongForm(n)[1] = 128 + nBytes(n) /\ LongForm(n)[2] > 0
         /\ ReadLength(LongForm(n)) = n
  <1> DEFINE k == nBytes(n)
             d == [i \in 1 .. k |-> (n \div 256 ^ (k - i)) % 256]
             b == LongForm(n)
  <1>1. n >= 1
    BY SMT
  <1>2. k \in 1 .. 4 /\ Takes(n, k)
    BY <1>1, WidthTaken
  <1> HIDE DEF k
  <1>3. d \in [1 .. k -> Nat] /\ \A i \in 1 .. k : d[i] = Cut(n, k - i) % 256
    <2>1. \A i \in 1 .. k : k - i \in 0 .. 3
      BY <1>2, SMT
    <2>2. \A i \in 1 .. k : d[i] = Cut(n, k - i) % 256
      BY Zenon DEF Cut
    <2>3. \A i \in 1 .. k : Cut(n, k - i) % 256 \in Nat
      BY <2>1, CutDigits, Zenon
    <2>4. \A i \in 1 .. k : d[i] \in Nat
      BY <2>2, <2>3, Zenon
    <2> QED BY <2>2, <2>4, Zenon
  <1>4. b = <<128 + k>> \o d
    BY Zenon DEF LongForm, k
  <1> HIDE DEF d, b
  <1>5. /\ b \in Seq(Nat) /\ Len(b) = k + 1 /\ b[1] = 128 + k
        /\ \A i \in 1 .. k : b[i + 1] = d[i]
    <2>0. PICK S : S = Nat
      OBVIOUS
    <2>1. PICK x \in S : S = Nat /\ x = 128 + k
      <3>1. 128 + k \in Nat
        BY <1>2, SMT
      <3> QED BY <2>0, <3>1, Zenon
    <2>2. k \in Nat
      BY <1>2, SMT
    <2>3. d \in [1 .. k -> S]
      BY <1>3, <2>1, Zenon
    <2>4. /\ <<x>> \o d \in Seq(S) /\ Len(<<x>> \o d) = k + 1
          /\ (<<x>> \o d)[1] = x
          /\ \A i \in 1 .. k : (<<x>> \o d)[i + 1] = d[i]
      BY <2>2, <2>3, Prefixed
    <2> QED BY <1>4, <2>1, <2>4, Zenon
  <1>6. PICK V : /\ ReadLength(b) = V[k + 1] /\ V[1] = 0
                 /\ \A m \in 2 .. k + 1 : V[m] = 256 * V[m - 1] + b[m]
    <2>1. b[1] >= 128
      BY <1>2, <1>5, SMT
    <2> QED BY <1>2, <1>5, <2>1, ReadSteps, Zenon
  <1>7. /\ Cut(n, k - 1) % 256 = Cut(n, k - 1) /\ Cut(n, k - 1) > 0 /\ Cut(n, k - 1) \in Nat
    <2>1. Cut(n, k - 1) \in 1 .. 255
      BY <1>2, Zenon DEF Takes, Cut
    <2>2. \A x \in 1 .. 255 : x % 256 = x /\ x > 0 /\ x \in Nat
      BY SMT
    <2> QED BY <2>1, <2>2, Zenon
  <1>8. \A m \in 2 .. k + 1 : b[m] = Cut(n, k + 1 - m) % 256
    <2> SUFFICES ASSUME NEW m \in 2 .. k + 1 PROVE b[m] = Cut(n, k + 1 - m) % 256
      OBVIOUS
    <2>1. PICK i \in 1 .. k : m = i + 1 /\ k - i = k + 1 - m
      <3>1. m - 1 \in 1 .. k /\ m = (m - 1) + 1 /\ k - (m - 1) = k + 1 - m
        BY <1>2, SMT
      <3> QED BY <3>1, Zenon
    <2>2. b[m] = d[i] /\ d[i] = Cut(n, k - i) % 256
      BY <1>3, <1>5, <2>1, Zenon
    <2> QED BY <2>1, <2>2, Zenon
  <1>9. V[2] = Cut(n, k - 1) /\ b[2] = Cut(n, k - 1)
    <2>1. 2 \in 2 .. k + 1 /\ k + 1 - 2 = k - 1 /\ 2 - 1 = 1
      BY <1>2, SMT
    <2>2. b[2] = Cut(n, k - 1)
      BY <1>7, <1>8, <2>1, Zenon
    <2>3. V[2] = 256 * 0 + b[2]
      <3>1. V[2] = 256 * V[2 - 1] + b[2]
        BY <1>6, <2>1, Zenon
      <3>2. V[2 - 1] = 0
        BY <1>6, <2>1, Zenon
      <3> QED BY <3>1, <3>2, Zenon
    <2> QED BY <1>7, <2>2, <2>3, SMT
  <1>10. ASSUME NEW m \in 2 .. k, V[m] = Cut(n, k + 1 - m)
         PROVE  V[m + 1] = Cut(n, k + 1 - (m + 1))
    <2>1. PICK j \in 0 .. 2 : j = k + 1 - (m + 1) /\ j + 1 = k + 1 - m
      <3>1. k + 1 - (m + 1) \in 0 .. 2 /\ (k + 1 - (m + 1)) + 1 = k + 1 - m
        BY <1>2, SMT
      <3> QED BY <3>1, Zenon
    <2>2. m + 1 \in 2 .. k + 1 /\ (m + 1) - 1 = m
      BY <1>2, SMT
    <2>3. V[m + 1] = 256 * Cut(n, j + 1) + (Cut(n, j) % 256)
      <3>1. V[m + 1] = 256 * V[(m + 1) - 1] + b[m + 1]
        BY <1>6, <2>2, Zenon
      <3>2. V[(m + 1) - 1] = Cut(n, j + 1)
        BY <1>10, <2>1, <2>2, Zenon
      <3>3. b[m + 1] = Cut(n, j) % 256
        BY <1>8, <2>1, <2>2, Zenon
      <3> QED BY <3>1, <3>2, <3>3, Zenon
    <2>4. 256 * Cut(n, j + 1) + (Cut(n, j) % 256) = Cut(n, j)
      BY CutDigits, Zenon
    <2> QED BY <2>1, <2>3, <2>4, Zenon
  <1>11. V[k + 1] = Cut(n, 0)
    <2>1. V[2] = Cut(n, k + 1 - 2)
      <3>1. k + 1 - 2 = k - 1
        BY <1>2, SMT
      <3> QED BY <1>9, <3>1, Zenon
    <2>2. CASE k = 1
      BY <2>1, <2>2, SMT
    <2>3. CASE k = 2
      <3>1. 2 \in 2 .. k
        BY <2>3, SMT
      <3>2. V[2 + 1] = Cut(n, k + 1 - (2 + 1))
        BY <1>10, <2>1, <3>1, Zenon
      <3> QED BY <2>3, <3>2, SMT
    <2>4. CASE k = 3
      <3>1. 2 \in 2 .. k /\ 2 + 1 \in 2 .. k
        BY <2>4, SMT
      <3>2. V[2 + 1] = Cut(n, k + 1 - (2 + 1))
        BY <1>10, <2>1, <3>1, Zenon
      <3>3. V[(2 + 1) + 1] = Cut(n, k + 1 - ((2 + 1) + 1))
        BY <1>10, <3>1, <3>2, Zenon
      <3> QED BY <2>4, <3>3, SMT
    <2>5. CASE k = 4
      <3>1. 2 \in 2 .. k /\ 2 + 1 \in 2 .. k /\ (2 + 1) + 1 \in 2 .. k
        BY <2>5, SMT
      <3>2. V[2 + 1] = Cut(n, k + 1 - (2 + 1))
        BY <1>10, <2>1, <3>1, Zenon
      <3>3. V[(2 + 1) + 1] = Cut(n, k + 1 - ((2 + 1) + 1))
        BY <1>10, <3>1, <3>2, Zenon
      <3>4. V[((2 + 1) + 1) + 1] = Cut(n, k + 1 - (((2 + 1) + 1) + 1))
        BY <1>10, <3>1, <3>3, Zenon
      <3> QED BY <2>5, <3>4, SMT
    <2>6. k = 1 \/ k = 2 \/ k = 3 \/ k = 4
      BY <1>2, SMT
    <2> QED BY <2>2, <2>3, <2>4, <2>5, <2>6, Zenon
  <1>12. ReadLength(b) = n
    BY <1>6, <1>11, CutDigits, Zenon
  <1>13. b[2] > 0
    BY <1>7, <1>9, Zenon
  <1> QED BY <1>5, <1>12, <1>13, Zenon DEF b, k

LEMMA FrameRead ==
  ASSUME NEW n \in Lengths
  PROVE  LET token == MarshalAPReqToken(n)
             length == Tail(token.head) IN
         /\ ReadLength(length) = token.inner
         /\ IF token.inner < 128 THEN Len(length) = 1
            ELSE length[1] = 128 + Len(length) - 1 /\ length[2] > 0
         /\ token.capacity = Len(token.head) + token.inner
  <1> DEFINE inner == 11 + 2 + n
             l == derLength(inner)
             head == <<96>> \o l
  <1>1. inner \in Nat /\ inner <= MaxInner
    BY LengthsAssumption, SMT DEF MaxInner
  <1>2. /\ MarshalAPReqToken(n).head = head /\ MarshalAPReqToken(n).inner = inner
        /\ MarshalAPReqToken(n).capacity = 1 + lenDERLen(inner) + inner
    BY Zenon DEF MarshalAPReqToken
  <1> HIDE DEF inner
  <1>3. /\ l \in Seq(Nat) /\ Len(l) = lenDERLen(inner) /\ ReadLength(l) = inner
        /\ IF inner < 128 THEN Len(l) = 1 ELSE l[1] = 128 + Len(l) - 1 /\ l[2] > 0
    <2>1. CASE inner < 128
      <3>1. l = <<inner>> /\ lenDERLen(inner) = 1
        BY <2>1 DEF derLength, lenDERLen
      <3>2. <<inner>> \in Seq(Nat) /\ Len(<<inner>>) = 1 /\ <<inner>>[1] = inner
        BY <1>1, SMT
      <3>3. ReadLength(<<inner>>) = inner
        BY <2>1, <3>2, Zenon DEF ReadLength
      <3> QED BY <2>1, <3>1, <3>2, <3>3, Zenon
    <2>2. CASE ~(inner < 128)
      <3>1. inner >= 128
        BY <1>1, <2>2, SMT
      <3>2. l = LongForm(inner) /\ lenDERLen(inner) = 1 + nBytes(inner)
        BY <2>2, Zenon DEF derLength, lenDERLen
      <3>3. nBytes(inner) \in 1 .. 4
        <4>1. inner >= 1
          BY <1>1, <3>1, SMT
        <4> QED BY <1>1, <4>1, WidthTaken
      <3>4. /\ LongForm(inner) \in Seq(Nat) /\ Len(LongForm(inner)) = nBytes(inner) + 1
            /\ LongForm(inner)[1] = 128 + nBytes(inner) /\ LongForm(inner)[2] > 0
            /\ ReadLength(LongForm(inner)) = inner
        BY <1>1, <3>1, LongFormRead
      <3>5. nBytes(inner) + 1 = 1 + nBytes(inner) /\ 128 + nBytes(inner) = 128 + (nBytes(inner) + 1) - 1
        BY <3>3, SMT
      <3> QED BY <2>2, <3>2, <3>4, <3>5, Zenon
    <2> QED BY <2>1, <2>2, Zenon
  <1> HIDE DEF l
  <1>4. Tail(head) = l /\ Len(head) = 1 + Len(l)
    <2>1. ASSUME NEW S, NEW x \in S, NEW s \in Seq(S)
          PROVE  Tail(<<x>> \o s) = s /\ Len(<<x>> \o s) = 1 + Len(s)
      <3>0. <<x>> \in Seq(S) /\ Len(<<x>>) = 1
        BY <2>1
      <3>1. PICK h \in Seq(S) : h = <<x>> /\ Len(h) = 1
        BY <3>0, Zenon
      <3>2. /\ h \o s \in Seq(S) /\ Len(h \o s) = 1 + Len(s) /\ Len(s) \in Nat
            /\ \A n_1 \in 1 .. Len(s) : (h \o s)[1 + n_1] = s[n_1]
        BY <3>1, Concat
      <3>3. PICK t \in Seq(S) : t = h \o s
        BY <3>2
      <3>4. Tail(t) \in Seq(S) /\ Len(Tail(t)) = Len(s) /\ \A m \in 1 .. Len(s) : Tail(t)[m] = t[m + 1]
        BY <3>2, <3>3
      <3>5. Tail(t) = s
        BY <3>2, <3>3, <3>4, SameText
      <3> QED BY <3>1, <3>2, <3>3, <3>5, Zenon
    <2>2. 96 \in Nat
      OBVIOUS
    <2> QED BY <1>3, <2>1, <2>2, Zenon
  <1>5. 1 + lenDERLen(inner) + inner = Len(head) + inner
    BY <1>3, <1>4, Zenon
  <1> HIDE DEF head
  <1> QED BY <1>2, <1>3, <1>4, <1>5, Zenon

(***************************************************************************)
(* The frame of a token says its length in the shortest form, is read back *)
(* by X.690 and fills what was allocated for it, for every AP-REQ whose    *)
(* length takes up to four bytes (apreq.go, MarshalAPReqToken, derLength,  *)
(* lenDERLen).                                                             *)
(***************************************************************************)
THEOREM Framing == Spec => []TokenFramed
  <1>1. Init => TokenFramed
    BY DEF Init, TokenFramed
  <1>2. TokenFramed /\ [Next]_vars => TokenFramed'
    <2> SUFFICES ASSUME TokenFramed, [Next]_vars PROVE TokenFramed'
      OBVIOUS
    <2>1. ASSUME NEW n \in Lengths, Frame(n) PROVE TokenFramed'
      <3>1. output' = MarshalAPReqToken(n)
        BY <2>1 DEF Frame, Convert
      <3> QED BY <3>1, FrameRead DEF TokenFramed
    <2>2. CASE at' # "frame"
      BY <2>2 DEF TokenFramed
    <2>3. CASE UNCHANGED <<at, input, output>>
      BY <2>3 DEF TokenFramed
    <2> QED BY <2>1, <2>2, <2>3 DEF Next, vars, Put, Get, ReadClaims, SendName, ParseSID, Again, Convert
  <1> QED BY <1>1, <1>2, PTL DEF Spec

---------------------------------------------------------------------------
(***************************************************************************)
(* Claims.  A recursive function on 0 .. N exists and is the only one with *)
(* its values; Least takes the place of induction.                         *)
(***************************************************************************)
\* From b, by one step of G for each number up to N.
Runs(f, b, G, N) == f[0] = b /\ \A n \in 1 .. N : f[n] = G[n][f[n - 1]]

LEMMA RunExists ==
  ASSUME NEW S, NEW N \in Nat, NEW b \in S, NEW G \in [1 .. N -> [S -> S]]
  PROVE  \E f \in [0 .. N -> S] : Runs(f, b, G, N)
  <1> DEFINE Upto(k) == \E f \in [0 .. k -> S] : Runs(f, b, G, k)
             Bad == {k \in 0 .. N : ~Upto(k)}
  <1>1. Upto(0)
    <2>1. [n \in 0 .. 0 |-> b] \in [0 .. 0 -> S] /\ Runs([n \in 0 .. 0 |-> b], b, G, 0)
      BY DEF Runs
    <2> QED BY <2>1
  <1>2. ASSUME NEW k \in 1 .. N, Upto(k - 1) PROVE Upto(k)
    <2>1. PICK f \in [0 .. k - 1 -> S] : Runs(f, b, G, k - 1)
      BY <1>2
    <2> DEFINE g == [n \in 0 .. k |-> IF n = k THEN G[k][f[k - 1]] ELSE f[n]]
    <2>2. k - 1 \in 0 .. k - 1 /\ G[k] \in [S -> S] /\ f[k - 1] \in S
      BY <2>1
    <2>3. g \in [0 .. k -> S]
      BY <2>2
    <2>4. g[0] = b
      BY <2>1 DEF Runs
    <2>5. ASSUME NEW n \in 1 .. k PROVE g[n] = G[n][g[n - 1]]
      <3>1. CASE n = k
        BY <3>1
      <3>2. CASE n # k
        <4>1. n \in 1 .. k - 1 /\ g[n] = f[n] /\ g[n - 1] = f[n - 1]
          BY <3>2
        <4> QED BY <2>1, <4>1 DEF Runs
      <3> QED BY <3>1, <3>2
    <2> HIDE DEF g
    <2>6. Runs(g, b, G, k)
      BY <2>4, <2>5 DEF Runs
    <2> QED BY <2>3, <2>6
  <1> HIDE DEF Upto
  <1>3. Bad = {}
    <2> SUFFICES ASSUME Bad # {} PROVE FALSE
      OBVIOUS
    <2>1. PICK k \in Bad : \A m \in Bad : k <= m
      <3>1. Bad \in SUBSET Nat
        OBVIOUS
      <3> HIDE DEF Bad
      <3> QED BY <3>1, Least
    <2>2. k \in 1 .. N /\ k - 1 \in 0 .. N /\ k - 1 \notin Bad
      BY <1>1, <2>1
    <2> QED BY <1>2, <2>1, <2>2
  <1>4. Upto(N)
    BY <1>3
  <1> QED BY <1>4 DEF Upto

\* The same of g, as far as its values are known to be in S.
RunsIn(S, g, b, G, N) ==
  g[0] = b /\ \A n \in 1 .. N : g[n - 1] \in S => g[n] = G[n][g[n - 1]]

Agree(f, g, N) == \A n \in 0 .. N : g[n] = f[n]

LEMMA RunDefines ==
  ASSUME NEW S, NEW N \in Nat, NEW b \in S, NEW G \in [1 .. N -> [S -> S]]
  PROVE  \E f \in [0 .. N -> S] :
           /\ Runs(f, b, G, N)
           /\ \A g : RunsIn(S, g, b, G, N) => Agree(f, g, N)
  <1>1. PICK f \in [0 .. N -> S] : Runs(f, b, G, N)
    BY RunExists
  <1>2. ASSUME NEW g, RunsIn(S, g, b, G, N) PROVE Agree(f, g, N)
    <2> DEFINE Bad == {n \in 0 .. N : g[n] # f[n]}
    <2> SUFFICES ASSUME Bad # {} PROVE FALSE
      BY DEF Agree
    <2>1. PICK k \in Bad : \A m \in Bad : k <= m
      <3>1. Bad \in SUBSET Nat
        OBVIOUS
      <3> HIDE DEF Bad
      <3> QED BY <3>1, Least
    <2>2. k \in 0 .. N /\ g[k] # f[k] /\ k # 0
      BY <1>1, <1>2, <2>1 DEF Runs, RunsIn
    <2>3. k - 1 \in 0 .. N /\ k \in 1 .. N /\ k - 1 \notin Bad
      BY <2>1, <2>2
    <2>4. g[k - 1] = f[k - 1] /\ f[k - 1] \in S
      BY <2>3
    <2> QED BY <1>1, <1>2, <2>2, <2>3, <2>4 DEF Runs, RunsIn
  <1> QED BY <1>1, <1>2

\* K[n] is what the loop has kept of the first n entries of ws.
Keeps(K, ws) ==
  \A n \in 1 .. Len(ws) : K[n] = IF IsBlank(ws[n]) THEN K[n - 1] ELSE Append(K[n - 1], ws[n])

LEMMA KeptSteps ==
  ASSUME NEW T, NEW ws \in Seq(Seq(T))
  PROVE  \E K \in [0 .. Len(ws) -> Seq(Seq(T))] :
           /\ NonBlank(ws) = K[Len(ws)]
           /\ K[0] = <<>>
           /\ Keeps(K, ws)
  <1> DEFINE N == Len(ws)
             S == Seq(Seq(T))
             e == <<>>
             Step(n, x) == IF IsBlank(ws[n]) THEN x ELSE Append(x, ws[n])
             G == [n \in 1 .. N |-> [x \in S |-> Step(n, x)]]
             F(f) == [n \in 0 .. N |-> IF n = 0 THEN e ELSE Step(n, f[n - 1])]
             K == CHOOSE f : f = F(f)
  <1>1. N \in Nat /\ e \in S
    OBVIOUS
  <1>2. \A n \in 1 .. N, x \in S : Step(n, x) \in S
    <2>1. \A n \in 1 .. N, x \in S : Append(x, ws[n]) \in S
      OBVIOUS
    <2> QED BY <2>1
  <1> HIDE DEF N, S, e, Step
  <1>3. G \in [1 .. N -> [S -> S]] /\ \A n \in 1 .. N, x \in S : G[n][x] = Step(n, x)
    BY <1>2
  <1> HIDE DEF G
  <1>4. PICK f \in [0 .. N -> S] :
          /\ Runs(f, e, G, N)
          /\ \A g : RunsIn(S, g, e, G, N) => Agree(f, g, N)
    <2>1. G \in [1 .. N -> [S -> S]]
      BY <1>3
    <2> QED BY <1>1, <2>1, RunDefines, Zenon
  <1>5. f = F(f)
    <2>1. \A n \in 1 .. N : f[n - 1] \in S /\ f[n] = Step(n, f[n - 1])
      BY <1>1, <1>3, <1>4 DEF Runs
    <2> QED BY <1>1, <1>4, <2>1 DEF Runs
  <1>6. K = F(K)
    <2> HIDE DEF F
    <2> QED BY <1>5, Zenon
  <1> HIDE DEF K
  <1>7. K[0] = e /\ \A n \in 1 .. N : K[n] = Step(n, K[n - 1])
    BY <1>1, <1>6
  <1>8. \A n \in 0 .. N : K[n] = f[n]
    <2>1. RunsIn(S, K, e, G, N)
      BY <1>3, <1>7 DEF RunsIn
    <2> QED BY <1>4, <2>1, Zenon DEF Agree
  <1>9. K \in [0 .. N -> S]
    BY <1>4, <1>6, <1>8
  <1>10. NonBlank(ws) = K[N]
    BY DEF NonBlank, K, N, e, Step
  <1> QED BY <1>7, <1>9, <1>10, Zenon DEF N, S, e, Step, Keeps

\* R[n] is what FieldsFunc has read of s up to its n-th symbol.
Reading(T) == [fields : Seq(Seq(T)), word : Seq(T)]

Reads(R, s) ==
  \A n \in 1 .. Len(s) : R[n] =
    IF s[n] \in Separators THEN [fields |-> Fields(R[n - 1]), word |-> <<>>]
    ELSE [fields |-> R[n - 1].fields, word |-> Append(R[n - 1].word, s[n])]

LEMMA FieldSteps ==
  ASSUME NEW T, NEW s \in Seq(T)
  PROVE  \E K \in [0 .. Len(s) -> Reading(T)] :
           /\ FieldsFunc(s) = Fields(K[Len(s)])
           /\ K[0] = [fields |-> <<>>, word |-> <<>>]
           /\ Reads(K, s)
  <1> DEFINE N == Len(s)
             S == [fields : Seq(Seq(T)), word : Seq(T)]
             e == [fields |-> <<>>, word |-> <<>>]
             Step(n, x) == IF s[n] \in Separators THEN [fields |-> Fields(x), word |-> <<>>]
                           ELSE [fields |-> x.fields, word |-> Append(x.word, s[n])]
             G == [n \in 1 .. N |-> [x \in S |-> Step(n, x)]]
             F(f) == [n \in 0 .. N |-> IF n = 0 THEN e ELSE Step(n, f[n - 1])]
             K == CHOOSE f : f = F(f)
  <1>1. N \in Nat /\ e \in S
    OBVIOUS
  <1>2. \A n \in 1 .. N, x \in S : Step(n, x) \in S
    <2> SUFFICES ASSUME NEW n \in 1 .. N, NEW x \in S PROVE Step(n, x) \in S
      OBVIOUS
    <2>1. x.fields \in Seq(Seq(T)) /\ x.word \in Seq(T) /\ s[n] \in T
      OBVIOUS
    <2>2. Append(x.word, s[n]) \in Seq(T)
      BY <2>1
    <2>3. Fields(x) \in Seq(Seq(T))
      BY <2>1 DEF Fields
    <2> QED BY <2>1, <2>2, <2>3
  <1> HIDE DEF N, S, e, Step
  <1>3. G \in [1 .. N -> [S -> S]] /\ \A n \in 1 .. N, x \in S : G[n][x] = Step(n, x)
    BY <1>2
  <1> HIDE DEF G
  <1>4. PICK f \in [0 .. N -> S] :
          /\ Runs(f, e, G, N)
          /\ \A g : RunsIn(S, g, e, G, N) => Agree(f, g, N)
    <2>1. G \in [1 .. N -> [S -> S]]
      BY <1>3
    <2> QED BY <1>1, <2>1, RunDefines, Zenon
  <1>5. f = F(f)
    <2>1. \A n \in 1 .. N : f[n - 1] \in S /\ f[n] = Step(n, f[n - 1])
      BY <1>1, <1>3, <1>4 DEF Runs
    <2> QED BY <1>1, <1>4, <2>1 DEF Runs
  <1>6. K = F(K)
    <2> HIDE DEF F
    <2> QED BY <1>5, Zenon
  <1> HIDE DEF K
  <1>7. K[0] = e /\ \A n \in 1 .. N : K[n] = Step(n, K[n - 1])
    BY <1>1, <1>6
  <1>8. \A n \in 0 .. N : K[n] = f[n]
    <2>1. RunsIn(S, K, e, G, N)
      BY <1>3, <1>7 DEF RunsIn
    <2> QED BY <1>4, <2>1, Zenon DEF Agree
  <1>9. K \in [0 .. N -> S]
    BY <1>4, <1>6, <1>8
  <1>10. FieldsFunc(s) = Fields(K[N])
    BY DEF FieldsFunc, K, N, e, Step
  <1> QED BY <1>7, <1>9, <1>10, Zenon DEF N, S, e, Step, Reads, Reading

\* U[n] is the first n words of ws as one text.
Writes(U, ws, sep) ==
  \A n \in 1 .. Len(ws) : U[n] = U[n - 1] \o <<sep>> \o ws[n]

LEMMA DelimitedSteps ==
  ASSUME NEW T, NEW ws \in Seq(Seq(T)), NEW sep \in T
  PROVE  \E K \in [0 .. Len(ws) -> Seq(T)] :
           /\ Delimited(ws, sep) = K[Len(ws)]
           /\ K[0] = <<>>
           /\ Writes(K, ws, sep)
  <1> DEFINE N == Len(ws)
             S == Seq(T)
             e == <<>>
             Step(n, x) == x \o <<sep>> \o ws[n]
             G == [n \in 1 .. N |-> [x \in S |-> Step(n, x)]]
             F(f) == [n \in 0 .. N |-> IF n = 0 THEN e ELSE Step(n, f[n - 1])]
             K == CHOOSE f : f = F(f)
  <1>1. N \in Nat /\ e \in S
    OBVIOUS
  <1>2. \A n \in 1 .. N, x \in S : Step(n, x) \in S
    <2> SUFFICES ASSUME NEW n \in 1 .. N, NEW x \in S PROVE Step(n, x) \in S
      OBVIOUS
    <2>1. ws[n] \in Seq(T) /\ x \o <<sep>> \in Seq(T)
      BY Extended
    <2> QED BY <2>1, Concat
  <1> HIDE DEF N, S, e, Step
  <1>3. G \in [1 .. N -> [S -> S]] /\ \A n \in 1 .. N, x \in S : G[n][x] = Step(n, x)
    BY <1>2
  <1> HIDE DEF G
  <1>4. PICK f \in [0 .. N -> S] :
          /\ Runs(f, e, G, N)
          /\ \A g : RunsIn(S, g, e, G, N) => Agree(f, g, N)
    <2>1. G \in [1 .. N -> [S -> S]]
      BY <1>3
    <2> QED BY <1>1, <2>1, RunDefines, Zenon
  <1>5. f = F(f)
    <2>1. \A n \in 1 .. N : f[n - 1] \in S /\ f[n] = Step(n, f[n - 1])
      BY <1>1, <1>3, <1>4 DEF Runs
    <2> QED BY <1>1, <1>4, <2>1 DEF Runs
  <1>6. K = F(K)
    <2> HIDE DEF F
    <2> QED BY <1>5, Zenon
  <1> HIDE DEF K
  <1>7. K[0] = e /\ \A n \in 1 .. N : K[n] = Step(n, K[n - 1])
    BY <1>1, <1>6
  <1>8. \A n \in 0 .. N : K[n] = f[n]
    <2>1. RunsIn(S, K, e, G, N)
      BY <1>3, <1>7 DEF RunsIn
    <2> QED BY <1>4, <2>1, Zenon DEF Agree
  <1>9. K \in [0 .. N -> S]
    BY <1>4, <1>6, <1>8
  <1>10. Delimited(ws, sep) = K[N]
    BY DEF Delimited, K, N, e, Step
  <1> QED BY <1>7, <1>9, <1>10, Zenon DEF N, S, e, Step, Writes

\* One symbol more of a word.
LEMMA OneMore ==
  ASSUME NEW T, NEW w \in Seq(T), NEW j \in 1 .. Len(w)
  PROVE  Append(SubSeq(w, 1, j - 1), w[j]) = SubSeq(w, 1, j)
  OBVIOUS

\* After its p-th symbol, s has a separator and the word w.
Spells(s, p, w) ==
  /\ p + 1 + Len(w) <= Len(s) /\ s[p + 1] \in Separators
  /\ \A j \in 1 .. Len(w) : s[p + 1 + j] = w[j]

\* What a word after a separator adds to the fields of a text.
LEMMA WordRead ==
  ASSUME NEW T, NEW s \in Seq(T), NEW R \in [0 .. Len(s) -> Reading(T)], Reads(R, s),
         NEW p \in Nat, NEW w \in Seq(T), Spells(s, p, w), Carried(w)
  PROVE  Fields(R[p + 1 + Len(w)]) =
           IF IsBlank(w) THEN Fields(R[p]) ELSE Append(Fields(R[p]), w)
  <1> DEFINE st(j) == [fields |-> Fields(R[p]), word |-> IF IsBlank(w) THEN <<>> ELSE SubSeq(w, 1, j)]
             Bad == {j \in 0 .. Len(w) : R[p + 1 + j] # st(j)}
  <1>1. /\ Len(s) \in Nat /\ Len(w) \in Nat /\ DOMAIN w = 1 .. Len(w)
        /\ p + 1 + Len(w) <= Len(s)
    BY DEF Spells
  <1>2. Bad = {}
    <2> SUFFICES ASSUME Bad # {} PROVE FALSE
      OBVIOUS
    <2>1. PICK j \in Bad : \A m \in Bad : j <= m
      <3>1. Bad \in SUBSET Nat
        OBVIOUS
      <3> HIDE DEF Bad
      <3> QED BY <3>1, Least
    <2>2. j \in 0 .. Len(w) /\ R[p + 1 + j] # st(j)
      OBVIOUS
    <2>3. CASE j = 0
      <3>1. R[p + 1] = [fields |-> Fields(R[p]), word |-> <<>>]
        <4>1. p + 1 \in 1 .. Len(s) /\ (p + 1) - 1 = p
          BY <1>1
        <4>2. s[p + 1] \in Separators
          BY DEF Spells
        <4> HIDE DEF Bad
        <4> QED BY <4>1, <4>2 DEF Reads
      <3>2. SubSeq(w, 1, 0) = <<>>
        OBVIOUS
      <3>3. p + 1 + j = p + 1
        BY <2>3
      <3> QED BY <2>2, <2>3, <3>1, <3>2, <3>3
    <2>4. CASE j # 0
      <3> DEFINE q == p + 1 + j
      <3>1. j \in 1 .. Len(w) /\ j - 1 \in 0 .. Len(w) /\ j - 1 \notin Bad
        <4>1. j \in 1 .. Len(w) /\ j - 1 \in 0 .. Len(w) /\ ~(j <= j - 1)
          BY <1>1, <2>2, <2>4
        <4> HIDE DEF Bad
        <4> QED BY <2>1, <4>1, Zenon
      <3>2. q \in 1 .. Len(s) /\ q - 1 = p + 1 + (j - 1) /\ s[q] = w[j]
        <4>1. \A x, m, l \in Nat : x + 1 + m <= l =>
                \A k \in 1 .. m : x + 1 + k \in 1 .. l /\ (x + 1 + k) - 1 = x + 1 + (k - 1)
          OBVIOUS
        <4> HIDE DEF Bad
        <4> QED BY <1>1, <3>1, <4>1 DEF Spells
      <3>3. R[q - 1] = st(j - 1)
        BY <3>1, <3>2
      <3>4. R[q] = IF w[j] \in Separators THEN [fields |-> Fields(R[q - 1]), word |-> <<>>]
                   ELSE [fields |-> R[q - 1].fields, word |-> Append(R[q - 1].word, w[j])]
        <4> HIDE DEF q
        <4> QED BY <3>2 DEF Reads
      <3>5. IsBlank(w) <=> w[j] \in Separators
        BY <1>1, <3>1 DEF Carried
      <3>6. CASE IsBlank(w)
        <4>1. R[q - 1] = [fields |-> Fields(R[p]), word |-> <<>>] /\ st(j) = R[q - 1]
          BY <3>3, <3>6
        <4>2. Fields(R[q - 1]) = Fields(R[p])
          BY <4>1 DEF Fields
        <4>3. R[q] = [fields |-> Fields(R[p]), word |-> <<>>]
          BY <3>4, <3>5, <3>6, <4>2
        <4> QED BY <2>2, <4>1, <4>3
      <3>7. CASE ~IsBlank(w)
        <4>1. R[q - 1].fields = Fields(R[p]) /\ R[q - 1].word = SubSeq(w, 1, j - 1)
          BY <3>3, <3>7
        <4>2. Append(SubSeq(w, 1, j - 1), w[j]) = SubSeq(w, 1, j)
          BY <3>1, OneMore
        <4>3. R[q] = [fields |-> Fields(R[p]), word |-> SubSeq(w, 1, j)]
          BY <3>4, <3>5, <3>7, <4>1, <4>2, Zenon
        <4> QED BY <2>2, <3>7, <4>3
      <3> QED BY <3>6, <3>7
    <2> QED BY <2>3, <2>4
  <1>3. R[p + 1 + Len(w)] = st(Len(w))
    <2>1. Len(w) \in 0 .. Len(w)
      BY <1>1
    <2> QED BY <1>2, <2>1, Zenon
  <1>4. CASE IsBlank(w)
    BY <1>3, <1>4 DEF Fields
  <1>5. CASE ~IsBlank(w)
    <2>1. SubSeq(w, 1, Len(w)) = w
      BY WholeSlice
    <2>2. w # <<>>
      <3>1. DOMAIN <<>> = {}
        OBVIOUS
      <3> QED BY <1>5, <3>1, Zenon DEF IsBlank
    <2>3. R[p + 1 + Len(w)] = [fields |-> Fields(R[p]), word |-> w]
      BY <1>3, <1>5, <2>1, Zenon
    <2>4. Fields([fields |-> Fields(R[p]), word |-> w]) = Append(Fields(R[p]), w)
      BY <2>2 DEF Fields
    <2> QED BY <1>5, <2>3, <2>4, Zenon
  <1> QED BY <1>4, <1>5

\* A text, a separator and a word.
LEMMA Written ==
  ASSUME NEW T, NEW a \in Seq(T), NEW sep \in T, NEW v \in Seq(T), NEW b, b = a \o <<sep>> \o v
  PROVE  /\ b \in Seq(T) /\ Len(a) \in Nat /\ Len(v) \in Nat
         /\ Len(b) = Len(a) + 1 + Len(v)
         /\ \A i \in 1 .. Len(a) : b[i] = a[i]
         /\ b[Len(a) + 1] = sep
         /\ \A j \in 1 .. Len(v) : b[Len(a) + 1 + j] = v[j]
  <1>1. /\ a \o <<sep>> \in Seq(T) /\ Len(a) \in Nat /\ Len(a \o <<sep>>) = Len(a) + 1
        /\ (a \o <<sep>>)[Len(a) + 1] = sep
        /\ \A i \in 1 .. Len(a) : (a \o <<sep>>)[i] = a[i]
    BY Extended
  <1>2. PICK c \in Seq(T) : c = a \o <<sep>>
    BY <1>1
  <1>3. b = c \o v
    BY <1>2, Zenon
  <1>4. /\ Len(c) = Len(a) + 1 /\ Len(a) \in Nat /\ Len(v) \in Nat
        /\ c[Len(a) + 1] = sep /\ \A i \in 1 .. Len(a) : c[i] = a[i]
    <2>1. Len(v) \in Nat
      OBVIOUS
    <2> QED BY <1>1, <1>2, <2>1, Zenon
  <1>5. /\ b \in Seq(T) /\ Len(b) = Len(c) + Len(v)
        /\ \A i \in 1 .. Len(c) : b[i] = c[i]
        /\ \A i \in 1 .. Len(v) : b[Len(c) + i] = v[i]
    <2>1. /\ c \o v \in Seq(T) /\ Len(c \o v) = Len(c) + Len(v)
          /\ \A i \in 1 .. Len(c) : (c \o v)[i] = c[i]
          /\ \A i \in 1 .. Len(v) : (c \o v)[Len(c) + i] = v[i]
      BY Concat
    <2> QED BY <1>3, <2>1, Zenon
  <1>6. \A i \in 1 .. Len(a) : i \in 1 .. Len(c)
    BY <1>4
  <1>7. Len(a) + 1 \in 1 .. Len(c)
    BY <1>4
  <1> QED BY <1>4, <1>5, <1>6, <1>7, Zenon

\* Words written after one another are where they were written.
LEMMA WordsSpelt ==
  ASSUME NEW T, NEW ws \in Seq(Seq(T)), NEW sep \in T, sep \in Separators,
         NEW U \in [0 .. Len(ws) -> Seq(T)],
         Writes(U, ws, sep),
         NEW k \in 1 .. Len(ws)
  PROVE  /\ Spells(U[Len(ws)], Len(U[k - 1]), ws[k])
         /\ Len(U[k]) = Len(U[k - 1]) + 1 + Len(ws[k])
  <1> DEFINE N == Len(ws)
             p == Len(U[k - 1])
             w == ws[k]
             Kept(m) == Len(U[k]) <= Len(U[m]) /\ \A i \in 1 .. Len(U[k]) : U[m][i] = U[k][i]
             Bad == {m \in k .. N : ~Kept(m)}
  <1>1. ASSUME NEW n \in 1 .. N
        PROVE  /\ U[n - 1] \in Seq(T) /\ U[n] \in Seq(T) /\ ws[n] \in Seq(T)
               /\ Len(U[n - 1]) \in Nat /\ Len(ws[n]) \in Nat
               /\ Len(U[n]) = Len(U[n - 1]) + 1 + Len(ws[n])
               /\ \A i \in 1 .. Len(U[n - 1]) : U[n][i] = U[n - 1][i]
               /\ U[n][Len(U[n - 1]) + 1] = sep
               /\ \A j \in 1 .. Len(ws[n]) : U[n][Len(U[n - 1]) + 1 + j] = ws[n][j]
    <2>1. n - 1 \in 0 .. N /\ n \in 0 .. N
      OBVIOUS
    <2>2. U[n - 1] \in Seq(T) /\ U[n] \in Seq(T) /\ ws[n] \in Seq(T)
      <3>1. ws[n] \in Seq(T)
        OBVIOUS
      <3> QED BY <2>1, <3>1, Zenon
    <2>3. U[n] = U[n - 1] \o <<sep>> \o ws[n]
      BY Zenon DEF Writes
    <2>4. PICK a, v, b \in Seq(T) : a = U[n - 1] /\ v = ws[n] /\ b = U[n]
      BY <2>2
    <2>5. b = a \o <<sep>> \o v
      BY <2>3, <2>4, Zenon
    <2>6. /\ b \in Seq(T) /\ Len(a) \in Nat /\ Len(v) \in Nat
          /\ Len(b) = Len(a) + 1 + Len(v)
          /\ \A i \in 1 .. Len(a) : b[i] = a[i]
          /\ b[Len(a) + 1] = sep
          /\ \A j \in 1 .. Len(v) : b[Len(a) + 1 + j] = v[j]
      BY <2>5, Written
    <2> QED BY <2>2, <2>4, <2>6, Zenon
  <1>2. N \in Nat /\ k \in 1 .. N
    OBVIOUS
  <1>3. Kept(k)
    BY <1>1
  <1>4. ASSUME NEW m \in k + 1 .. N, Kept(m - 1) PROVE Kept(m)
    <2>1. m \in 1 .. N
      BY <1>2
    <2> HIDE DEF N
    <2>0. \A x, y \in Nat : x <= x + 1 + y /\ x + 1 + y \in Nat
      OBVIOUS
    <2>2. /\ Len(U[m - 1]) <= Len(U[m]) /\ Len(U[m - 1]) \in Nat /\ Len(U[m]) \in Nat
          /\ \A i \in 1 .. Len(U[m - 1]) : U[m][i] = U[m - 1][i]
      BY <1>1, <2>0, <2>1, Zenon
    <2>3. Len(U[k]) \in Nat
      BY <1>1
    <2> QED BY <1>4, <2>2, <2>3
  <1> HIDE DEF Kept
  <1>5. Bad = {}
    <2> SUFFICES ASSUME Bad # {} PROVE FALSE
      OBVIOUS
    <2>1. PICK m \in Bad : \A n \in Bad : m <= n
      <3>1. Bad \in SUBSET Nat
        BY <1>2
      <3> HIDE DEF Bad
      <3> QED BY <3>1, Least
    <2>2. m \in k + 1 .. N /\ m - 1 \in k .. N /\ ~(m <= m - 1)
      BY <1>2, <1>3
    <2>3. Kept(m - 1) /\ ~Kept(m)
      BY <2>1, <2>2
    <2> QED BY <1>4, <2>2, <2>3
  <1>6. Kept(N)
    <2>1. N \in k .. N
      BY <1>2
    <2> QED BY <1>5, <2>1, Zenon
  <1>7. /\ p \in Nat /\ Len(w) \in Nat /\ Len(U[k]) = p + 1 + Len(w)
        /\ U[k][p + 1] = sep /\ \A j \in 1 .. Len(w) : U[k][p + 1 + j] = w[j]
    BY <1>1, <1>2
  <1>8. Spells(U[N], p, w)
    <2>1. /\ p + 1 + Len(w) <= Len(U[N])
          /\ \A i \in 1 .. p + 1 + Len(w) : U[N][i] = U[k][i]
      BY <1>6, <1>7 DEF Kept
    <2> HIDE DEF p, w, N
    <2>2. /\ p + 1 \in 1 .. p + 1 + Len(w)
          /\ \A j \in 1 .. Len(w) : p + 1 + j \in 1 .. p + 1 + Len(w)
      BY <1>7
    <2> QED BY <1>7, <2>1, <2>2 DEF Spells
  <1> QED BY <1>7, <1>8

\* Written as one text, a list is read as the loop over the list reads it.
LEMMA ListAsText ==
  ASSUME NEW T, NEW ws \in Seq(Seq(T)), NEW sep \in T, sep \in Separators,
         \A n \in DOMAIN ws : Carried(ws[n])
  PROVE  FieldsFunc(Delimited(ws, sep)) = NonBlank(ws)
  <1> DEFINE N == Len(ws)
  <1>1. N \in Nat /\ DOMAIN ws = 1 .. N /\ \A n \in 1 .. N : ws[n] \in Seq(T)
    OBVIOUS
  <1>2. PICK K \in [0 .. N -> Seq(Seq(T))] :
          NonBlank(ws) = K[N] /\ K[0] = <<>> /\ Keeps(K, ws)
    BY KeptSteps
  <1>3. PICK U \in [0 .. N -> Seq(T)] :
          Delimited(ws, sep) = U[N] /\ U[0] = <<>> /\ Writes(U, ws, sep)
    BY DelimitedSteps
  <1> DEFINE s == U[N]
  <1>4. s \in Seq(T)
    BY <1>1, <1>3
  <1>5. PICK R \in [0 .. Len(s) -> Reading(T)] :
          /\ FieldsFunc(s) = Fields(R[Len(s)])
          /\ R[0] = [fields |-> <<>>, word |-> <<>>] /\ Reads(R, s)
    BY <1>4, FieldSteps
  <1>6. \A k \in 1 .. N : /\ Spells(s, Len(U[k - 1]), ws[k])
                          /\ Len(U[k]) = Len(U[k - 1]) + 1 + Len(ws[k])
                          /\ Len(U[k - 1]) \in Nat
    <2> SUFFICES ASSUME NEW k \in 1 .. N
                 PROVE  /\ Spells(s, Len(U[k - 1]), ws[k])
                        /\ Len(U[k]) = Len(U[k - 1]) + 1 + Len(ws[k])
                        /\ Len(U[k - 1]) \in Nat
      OBVIOUS
    <2>1. k - 1 \in 0 .. N
      BY <1>1
    <2>2. U[k - 1] \in Seq(T) /\ Len(U[k - 1]) \in Nat
      <3>1. U[k - 1] \in Seq(T)
        BY <2>1, Zenon
      <3>2. \A t \in Seq(T) : Len(t) \in Nat
        OBVIOUS
      <3> QED BY <3>1, <3>2, Zenon
    <2> QED BY <1>3, <2>2, WordsSpelt, Zenon
  <1> HIDE DEF N, s
  <1> DEFINE Bad == {k \in 0 .. N : Fields(R[Len(U[k])]) # K[k]}
  <1>7. Fields(R[Len(U[0])]) = K[0]
    <2>1. Len(U[0]) = 0
      BY <1>3
    <2> QED BY <1>2, <1>5, <2>1 DEF Fields
  <1>8. ASSUME NEW k \in 1 .. N, Fields(R[Len(U[k - 1])]) = K[k - 1]
        PROVE  Fields(R[Len(U[k])]) = K[k]
    <2>1. Carried(ws[k]) /\ ws[k] \in Seq(T)
      BY <1>1
    <2>2. PICK p \in Nat, w \in Seq(T) : p = Len(U[k - 1]) /\ w = ws[k]
      BY <1>6, <2>1
    <2>3. Fields(R[p + 1 + Len(w)]) =
            IF IsBlank(w) THEN Fields(R[p]) ELSE Append(Fields(R[p]), w)
      <3>1. Spells(s, p, w) /\ Carried(w)
        BY <1>6, <2>1, <2>2
      <3> QED BY <1>4, <1>5, <3>1, WordRead
    <2>4. K[k] = IF IsBlank(w) THEN K[k - 1] ELSE Append(K[k - 1], w)
      BY <1>2, <2>2 DEF Keeps, N
    <2> QED BY <1>6, <1>8, <2>2, <2>3, <2>4, Zenon
  <1>9. Bad = {}
    <2> SUFFICES ASSUME Bad # {} PROVE FALSE
      OBVIOUS
    <2>1. PICK k \in Bad : \A m \in Bad : k <= m
      <3>1. Bad \in SUBSET Nat
        BY <1>1
      <3> HIDE DEF Bad
      <3> QED BY <3>1, Least
    <2>2. k \in 1 .. N /\ k - 1 \in 0 .. N /\ ~(k <= k - 1)
      BY <1>1, <1>7
    <2>3. k - 1 \notin Bad
      <3> HIDE DEF Bad
      <3> QED BY <2>1, <2>2, Zenon
    <2> QED BY <1>8, <2>1, <2>2, <2>3, Zenon
  <1>10. Fields(R[Len(s)]) = K[N]
    <2>1. N \in 0 .. N
      BY <1>1
    <2> QED BY <1>9, <2>1, Zenon DEF s
  <1> QED BY <1>2, <1>3, <1>5, <1>10, Zenon DEF s

\* STRING, with the separators named.
Letter == STRING \cup Separators

\* A claim is read as one text as it is read in its own shape.
LEMMA SameReading ==
  ASSUME NEW c \in Claims, Delimitable(c), NEW sep \in Separators
  PROVE  stringOrList(InOneText(c, sep)) = stringOrList(c)
  <1>1. CASE c.shape # "list"
    BY <1>1 DEF InOneText
  <1>2. CASE c.shape = "list"
    <2>1. c.list \in Seq(Seq(STRING))
      BY <1>2, ClaimsAssumption DEF Absent, Unreadable
    <2>2. PICK T : T = Letter
      OBVIOUS
    <2>3. c.list \in Seq(Seq(T)) /\ sep \in T
      <3>1. STRING \subseteq T /\ sep \in T
        BY <2>2 DEF Letter
      <3>2. ASSUME NEW S_1, NEW S_2, S_1 \subseteq S_2 PROVE Seq(S_1) \subseteq Seq(S_2)
        <4> SUFFICES ASSUME NEW s \in Seq(S_1) PROVE s \in Seq(S_2)
          OBVIOUS
        <4> QED BY <3>2
      <3> QED BY <2>1, <3>1, <3>2, Zenon
    <2>4. FieldsFunc(Delimited(c.list, sep)) = NonBlank(c.list)
      <3>1. \A n \in DOMAIN c.list : Carried(c.list[n])
        BY <1>2 DEF Delimitable
      <3> QED BY <2>3, <3>1, ListAsText
    <2>5. stringOrList(c) = [ok |-> TRUE, list |-> NonBlank(c.list)]
      BY <1>2 DEF stringOrList
    <2>6. stringOrList(Text(Delimited(c.list, sep))) =
            [ok |-> TRUE, list |-> FieldsFunc(Delimited(c.list, sep))]
      BY DEF stringOrList, Text
    <2> QED BY <1>2, <2>4, <2>5, <2>6 DEF InOneText
  <1> QED BY <1>1, <1>2

ClaimInv ==
  at = "claims" => \E groups, scope \in Claims :
    input = [groups |-> groups, scope |-> scope] /\ output = MapClaims(groups, scope)

(***************************************************************************)
(* Groups and scopes are the same whether the provider sends them as a     *)
(* list or as one delimited text: for lists and words of every length,     *)
(* with blank entries anywhere, FieldsFunc finds in the text exactly the   *)
(* entries that the loop keeps, in their order (claimsmap.go,              *)
(* stringOrList).                                                          *)
(***************************************************************************)
THEOREM Shaping == Spec => []ShapesAgree
  <1>1. Init => ClaimInv
    BY DEF Init, ClaimInv
  <1>2. ClaimInv /\ [Next]_vars => ClaimInv'
    <2> SUFFICES ASSUME ClaimInv, [Next]_vars PROVE ClaimInv'
      OBVIOUS
    <2>1. ASSUME NEW groups \in Claims, NEW scope \in Claims, ReadClaims(groups, scope)
          PROVE  ClaimInv'
      BY <2>1 DEF ReadClaims, Convert, ClaimInv
    <2>2. CASE at' # "claims"
      BY <2>2 DEF ClaimInv
    <2>3. CASE UNCHANGED <<at, input, output>>
      BY <2>3 DEF ClaimInv
    <2> QED BY <2>1, <2>2, <2>3 DEF Next, vars, Put, Get, Frame, SendName, ParseSID, Again, Convert
  <1>3. ClaimInv => ShapesAgree
    <2> SUFFICES ASSUME ClaimInv, at = "claims", Delimitable(input.groups), Delimitable(input.scope),
                        NEW sep \in Separators
                 PROVE  output = MapClaims(InOneText(input.groups, sep), InOneText(input.scope, sep))
      BY DEF ShapesAgree
    <2>1. PICK groups, scope \in Claims :
            input = [groups |-> groups, scope |-> scope] /\ output = MapClaims(groups, scope)
      BY DEF ClaimInv
    <2>2. input.groups = groups /\ input.scope = scope
      BY <2>1
    <2>3. /\ stringOrList(InOneText(groups, sep)) = stringOrList(groups)
          /\ stringOrList(InOneText(scope, sep)) = stringOrList(scope)
      BY <2>2, SameReading, Zenon
    <2>4. MapClaims(InOneText(groups, sep), InOneText(scope, sep)) = MapClaims(groups, scope)
      BY <2>3, Zenon DEF MapClaims
    <2> QED BY <2>1, <2>2, <2>4, Zenon
  <1> QED BY <1>1, <1>2, <1>3, PTL DEF Spec
=============================================================================
