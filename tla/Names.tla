------------------------------- MODULE Names -------------------------------
(***************************************************************************)
(* The conversions between text and structure: service principals, cache   *)
(* keys and claims.  A text is a sequence of symbols; only the symbols     *)
(* that a conversion looks at matter, every other one is a letter.         *)
(***************************************************************************)
EXTENDS Integers, Sequences, FiniteSets

NUL == "NUL"
Tab == "TAB"

\* strings.IndexByte: the first position of symbol c, 0 if there is none.
IndexByte(s, c) ==
  LET at == {n \in DOMAIN s : s[n] = c} IN
  IF at = {} THEN 0 ELSE CHOOSE n \in at : \A m \in at : n <= m

Before(s, n) == SubSeq(s, 1, n - 1)
After(s, n)  == SubSeq(s, n + 1, Len(s))

---------------------------------------------------------------------------
Malformed == [ok |-> FALSE]
Principal(service, host, realm) ==
  [ok |-> TRUE, service |-> service, host |-> host, realm |-> realm]

\* A realm is cut off at the first @; the host must not hold another /.
ParseServicePrincipal(s) ==
  LET at      == IndexByte(s, "@")
      body    == IF at = 0 THEN s ELSE Before(s, at)
      realm   == IF at = 0 THEN <<>> ELSE After(s, at)
      slash   == IndexByte(body, "/")
      service == Before(body, slash)
      host    == After(body, slash)
  IN IF slash = 0 \/ service = <<>> \/ host = <<>> \/ IndexByte(host, "/") # 0
     THEN Malformed
     ELSE Principal(service, host, realm)

\* Fault: the realm is not rendered.
String_NoRealm(p) == p.service \o <<"/">> \o p.host

\* ServicePrincipal.String
String(p) ==
  p.service \o <<"/">> \o p.host
    \o (IF p.realm = <<>> THEN <<>> ELSE <<"@">> \o p.realm)

\* Fault: the parts are joined without separators.
CacheKeyText_Joined(subject, spn, output) == subject \o String(spn) \o <<output>>

\* CacheKey; the name of an output type is one symbol.
CacheKeyText(subject, spn, output) ==
  subject \o <<NUL>> \o String(spn) \o <<NUL>> \o <<output>>

---------------------------------------------------------------------------
(***************************************************************************)
(* A claim is absent, a list of texts (null counts as one), one text, or   *)
(* something else.  Nothing is the nil slice.                              *)
(***************************************************************************)
Nothing == <<>>
Absent == [shape |-> "absent"]
List(ws) == [shape |-> "list", list |-> ws]
Text(s) == [shape |-> "text", text |-> s]
Unreadable == [shape |-> "other"]

Separators == {" ", ","}

\* strings.TrimSpace(s) == "".
IsBlank(s) == \A n \in DOMAIN s : s[n] \in {" ", Tab}

\* Fields read so far, the word under way included.
Fields(st) == IF st.word = <<>> THEN st.fields ELSE Append(st.fields, st.word)

\* strings.FieldsFunc: a separator ends the word under way, if there is one.
FieldsFunc(s) ==
  LET Read[n \in 0 .. Len(s)] ==
        IF n = 0 THEN [fields |-> <<>>, word |-> <<>>]
        ELSE IF s[n] \in Separators THEN [fields |-> Fields(Read[n - 1]), word |-> <<>>]
        ELSE [fields |-> Read[n - 1].fields, word |-> Append(Read[n - 1].word, s[n])]
  IN Fields(Read[Len(s)])

\* The loop over a list: the entries that TrimSpace leaves something of.
NonBlank(ws) ==
  LET Kept[n \in 0 .. Len(ws)] ==
        IF n = 0 THEN <<>>
        ELSE IF IsBlank(ws[n]) THEN Kept[n - 1] ELSE Append(Kept[n - 1], ws[n])
  IN Kept[Len(ws)]

\* Fault: blank entries of a list are kept.
stringOrList_Blank(raw) ==
  [ok   |-> raw.shape # "other",
   list |-> IF raw.shape = "list" THEN raw.list
            ELSE IF raw.shape = "text" THEN FieldsFunc(raw.text)
            ELSE Nothing]

\* Claims are read as [ok, list]; a claim of another shape is an error.
stringOrList(raw) ==
  [ok   |-> raw.shape # "other",
   list |-> IF raw.shape = "list" THEN NonBlank(raw.list)
            ELSE IF raw.shape = "text" THEN FieldsFunc(raw.text)
            ELSE Nothing]

(***************************************************************************)
(* DefaultClaimsMapper.Map on the groups and the scope claim; either of    *)
(* them unreadable fails it.                                               *)
(***************************************************************************)
MapClaims(groups, scope) ==
  LET g == stringOrList(groups)
      s == stringOrList(scope)
  IN IF g.ok /\ s.ok THEN [ok |-> TRUE, groups |-> g.list, scopes |-> s.list]
                     ELSE [ok |-> FALSE]
=============================================================================
