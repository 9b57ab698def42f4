-------------------------- MODULE PacGroupsProofs --------------------------
(***************************************************************************)
(* Proofs about PacGroups for group and scope lists of every length, every *)
(* hash function, every override map and every scope policy.               *)
(***************************************************************************)
EXTENDS PacGroups, TLAPS

Filtered == {"list", "rids", "done"}

\* Loop 1: admitted is what the scopes before i list.
ScopesLoop ==
  pc = "scopes" =>
    /\ i <= Len(granted) + 1
    /\ \A g \in STRING : g \in admitted <=> \E j \in 1 .. i - 1 : g \in Admits(granted[j])

\* Loop 2: out holds the candidates before i that are in the map.
FilterLoop ==
  pc = "filter" =>
    /\ i <= Len(names) + 1
    /\ \A g \in STRING : g \in admitted <=> \E j \in DOMAIN granted : g \in Admits(granted[j])
    /\ \A g \in STRING : g \in Elements(out) <=>
         g \in admitted /\ \E j \in 1 .. i - 1 : names[j] = g

\* After the filter: out has exactly the groups that may be listed.
FilterResult ==
  pc \in Filtered => \A g \in STRING : g \in Elements(out) <=> MayList(g)

\* Loop 3: the RIDs listed are the primary one and those of out before i.
RidsLoop ==
  /\ pc = "list" => i = 1
  /\ pc \in {"rids", "done"} =>
       /\ i <= Len(out) + 1
       /\ pc = "done" => i = Len(out) + 1
       /\ groupIDs # <<>>
       /\ \A x : x \in seen <=>
            x = PrimaryRID \/ \E j \in 1 .. i - 1 : x = groupRID(out[j])
  /\ pc \notin {"rids", "done"} => groupIDs = <<>> /\ seen = {}

Starts == /\ i >= 1
          /\ pc = "map" => i = 1 /\ admitted = {} /\ out = <<>>
          /\ pc = "scopes" => out = <<>>
          /\ pc \in {"scopes", "filter"} => WithFilter

IInv == /\ TypeOK /\ Starts /\ ScopesLoop /\ FilterLoop /\ FilterResult
        /\ RidsLoop /\ RidsListedOnce

---------------------------------------------------------------------------
\* A sequence after Append: its type, and its elements.
LEMMA ElementsAppend ==
  ASSUME NEW S, NEW s \in Seq(S), NEW e \in S
  PROVE  /\ Append(s, e) \in Seq(S)
         /\ Append(s, e) # <<>>
         /\ Elements(Append(s, e)) = Elements(s) \cup {e}
  <1>1. /\ Append(s, e) \in Seq(S)
        /\ Len(Append(s, e)) = Len(s) + 1
        /\ \A n \in 1 .. Len(s) : Append(s, e)[n] = s[n]
        /\ Append(s, e)[Len(s) + 1] = e
    OBVIOUS
  <1>2. DOMAIN s = 1 .. Len(s) /\ DOMAIN Append(s, e) = 1 .. Len(s) + 1
    OBVIOUS
  <1>3. Append(s, e) # <<>>
    <2>1. Len(Append(s, e)) # 0
      BY <1>1
    <2>2. Len(<<>>) = 0
      OBVIOUS
    <2> QED BY <2>1, <2>2
  <1>4. Elements(Append(s, e)) = Elements(s) \cup {e}
    BY <1>1, <1>2 DEF Elements
  <1> QED BY <1>1, <1>3, <1>4

\* A claim group's RID is an override or lies in the synthetic range.
LEMMA RidType ==
  ASSUME NEW l \in GroupLists, NEW g \in Elements(l)
  PROVE  groupRID(g) \in Nat /\ IsRid(groupRID(g))
  <1>1. FNV32a[g] \in Nat
    BY RidsAssumption DEF Elements
  <1>2. ridFromName(g) \in 1000 .. (1000 + ridSynthSpace - 1) /\ ridFromName(g) \in Nat
    <2>1. ridSynthSpace \in Nat \ {0}
      BY SMT DEF ridSynthSpace
    <2>2. FNV32a[g] % ridSynthSpace \in 0 .. ridSynthSpace - 1
      BY <1>1, <2>1
    <2> QED BY <2>1, <2>2 DEF ridFromName
  <1> QED BY <1>2, RidsAssumption DEF groupRID, IsRid

\* The current lists are sequences of strings.
LEMMA ListTypes ==
  ASSUME TypeOK
  PROVE  /\ names \in Seq(STRING) /\ granted \in Seq(STRING)
         /\ Elements(out) \subseteq STRING
         /\ Elements(names) \subseteq STRING
  <1>1. names \in Seq(STRING) /\ granted \in Seq(STRING) /\ out \in Seq(STRING)
    <2>1. <<>> \in Seq(STRING)
      OBVIOUS
    <2> QED BY <2>1, ListsAssumption DEF TypeOK
  <1>2. ASSUME NEW s \in Seq(STRING) PROVE Elements(s) \subseteq STRING
    BY DEF Elements
  <1> QED BY <1>1, <1>2

\* The loop invariants hold before Build starts.
LEMMA InitIInv == Init => IInv
  BY RidsAssumption
  DEF Init, IInv, TypeOK, Starts, ScopesLoop, FilterLoop, FilterResult, RidsLoop,
      RidsListedOnce, Filtered, Elements

\* Every iteration keeps them: one step per loop action.
LEMMA NextIInv == IInv /\ [Next]_vars => IInv'
  <1> SUFFICES ASSUME IInv, [Next]_vars PROVE IInv'
    OBVIOUS
  <1>t. /\ TypeOK /\ Starts /\ ScopesLoop /\ FilterLoop /\ FilterResult
        /\ RidsLoop /\ RidsListedOnce
    BY DEF IInv
  <1>l. /\ names \in Seq(STRING) /\ granted \in Seq(STRING) /\ out \in Seq(STRING)
        /\ Elements(out) \subseteq STRING /\ Elements(names) \subseteq STRING
        /\ groupIDs \in Seq(Nat)
    BY <1>t, ListTypes DEF TypeOK
  <1>i. i \in Nat /\ i >= 1
    BY <1>t DEF TypeOK, Starts
  <1>a. admitted \in SUBSET STRING /\ seen \in SUBSET Nat
    BY <1>t DEF TypeOK
  <1>1. ASSUME NEW ns \in GroupLists, NEW ss \in ScopeLists, MapClaims(ns, ss)
        PROVE  IInv'
    <2>1. ns \in Seq(STRING) /\ ss \in Seq(STRING)
      BY ListsAssumption
    <2>2. TypeOK' /\ Starts' /\ RidsListedOnce'
      BY <1>1, <1>t, <2>1 DEF MapClaims, TypeOK, Starts, RidsListedOnce, Elements, RidsLoop
    <2>3. ScopesLoop' /\ FilterLoop'
      BY <1>1, <1>t, <2>1 DEF MapClaims, TypeOK, Starts, ScopesLoop, FilterLoop
    <2>4. FilterResult'
      BY <1>1, <1>t, <2>1 DEF MapClaims, TypeOK, FilterResult, Filtered, MayList, Elements
    <2>5. RidsLoop'
      BY <1>1, <1>t DEF MapClaims, TypeOK, Starts, RidsLoop
    <2> QED BY <2>2, <2>3, <2>4, <2>5 DEF IInv
  <1>2. CASE MapFails
    BY <1>2, <1>t
    DEF MapFails, IInv, TypeOK, Starts, ScopesLoop, FilterLoop, FilterResult,
        Filtered, RidsLoop, RidsListedOnce
  <1>3. CASE AdmitScope
    <2>1. i' \in Nat /\ i' >= 1 /\ i' - 1 = i
      BY <1>3, <1>i DEF AdmitScope
    <2>2. admitted' \in SUBSET STRING
      <3>1. Admits(granted[i]) \subseteq STRING
        BY ListsAssumption DEF Admits
      <3> QED BY <1>3, <1>a, <3>1 DEF AdmitScope
    <2>3. TypeOK' /\ Starts'
      BY <1>3, <1>t, <2>1, <2>2 DEF AdmitScope, TypeOK, Starts
    <2>4. ScopesLoop'
      <3>1. i' <= Len(granted') + 1
        BY <1>3, <1>i, <1>l DEF AdmitScope
      <3>2. ASSUME NEW g \in STRING
            PROVE  g \in admitted' <=> \E j \in 1 .. i : g \in Admits(granted[j])
        <4>1. g \in admitted' <=> g \in admitted \/ g \in Admits(granted[i])
          BY <1>3 DEF AdmitScope
        <4>2. g \in admitted <=> \E j \in 1 .. i - 1 : g \in Admits(granted[j])
          BY <1>3, <1>t DEF AdmitScope, ScopesLoop
        <4> DEFINE P(j) == g \in Admits(granted[j])
        <4>3. (\E j \in 1 .. i : P(j)) <=> (\E j \in 1 .. i - 1 : P(j)) \/ P(i)
          <5> HIDE DEF P
          <5> QED BY <1>i
        <4> QED BY <4>1, <4>2, <4>3
      <3> QED BY <1>3, <2>1, <3>1, <3>2 DEF AdmitScope, ScopesLoop
    <2>5. FilterLoop' /\ FilterResult' /\ RidsLoop' /\ RidsListedOnce'
      BY <1>3, <1>t DEF AdmitScope, FilterLoop, FilterResult, Filtered, RidsLoop, RidsListedOnce
    <2> QED BY <2>3, <2>4, <2>5 DEF IInv
  <1>4. CASE ScopesEnd
    <2>1. TypeOK' /\ Starts' /\ ScopesLoop' /\ FilterResult' /\ RidsListedOnce' /\ RidsLoop'
      BY <1>4, <1>t
      DEF ScopesEnd, TypeOK, Starts, ScopesLoop, FilterResult, Filtered,
          RidsListedOnce, RidsLoop
    <2>2. FilterLoop'
      <3>1. DOMAIN granted = 1 .. i - 1
        <4>1. Len(granted) \in Nat /\ DOMAIN granted = 1 .. Len(granted) /\ Len(names) \in Nat
          BY <1>l
        <4> QED BY <1>4, <1>t, <1>i, <4>1 DEF ScopesEnd, ScopesLoop
      <3>2. Elements(out) = {} /\ Elements(out') = {}
        BY <1>4, <1>t DEF ScopesEnd, Starts, Elements
      <3>3. i' = 1 /\ 1 <= Len(names') + 1 /\ 1 .. i' - 1 = {}
        BY <1>4, <1>l DEF ScopesEnd
      <3>4. \A g \in STRING :
              g \in admitted' <=> \E j \in DOMAIN granted' : g \in Admits(granted'[j])
        BY <1>4, <1>t, <3>1 DEF ScopesEnd, ScopesLoop
      <3> QED BY <3>2, <3>3, <3>4 DEF FilterLoop
    <2> QED BY <2>1, <2>2 DEF IInv
  <1>5. CASE KeepCandidate
    <2>1. i' \in Nat /\ i' >= 1 /\ i' - 1 = i /\ i \in 1 .. Len(names)
      BY <1>5, <1>i, <1>l DEF KeepCandidate
    <2>2. names[i] \in STRING
      BY <1>l, <2>1
    <2>3. /\ out' \in Seq(STRING)
          /\ Elements(out') = IF names[i] \in admitted THEN Elements(out) \cup {names[i]}
                                                       ELSE Elements(out)
      <3>1. /\ Append(out, names[i]) \in Seq(STRING)
            /\ Elements(Append(out, names[i])) = Elements(out) \cup {names[i]}
        BY <1>l, <2>2, ElementsAppend
      <3> QED BY <1>5, <1>l, <3>1 DEF KeepCandidate
    <2>4. TypeOK' /\ Starts'
      BY <1>5, <1>t, <2>1, <2>3 DEF KeepCandidate, TypeOK, Starts
    <2>5. FilterLoop'
      <3>1. i' <= Len(names') + 1
        BY <1>5, <1>i, <1>l DEF KeepCandidate
      <3>2. ASSUME NEW g \in STRING
            PROVE  g \in Elements(out') <=>
                     g \in admitted /\ \E j \in 1 .. i : names[j] = g
        <4>1. g \in Elements(out) <=> g \in admitted /\ \E j \in 1 .. i - 1 : names[j] = g
          BY <1>5, <1>t DEF KeepCandidate, FilterLoop
        <4> DEFINE P(j) == names[j] = g
        <4>2. (\E j \in 1 .. i : P(j)) <=> (\E j \in 1 .. i - 1 : P(j)) \/ P(i)
          <5> HIDE DEF P
          <5> QED BY <1>i
        <4> QED BY <4>1, <4>2, <2>3
      <3> QED BY <1>5, <1>t, <2>1, <3>1, <3>2 DEF KeepCandidate, FilterLoop, Elements
    <2>6. ScopesLoop' /\ FilterResult' /\ RidsLoop' /\ RidsListedOnce'
      BY <1>5, <1>t DEF KeepCandidate, ScopesLoop, FilterResult, Filtered, RidsLoop,
                        RidsListedOnce
    <2> QED BY <2>4, <2>5, <2>6 DEF IInv
  <1>6. CASE FilterEnds
    <2>1. TypeOK' /\ Starts' /\ ScopesLoop' /\ FilterLoop' /\ RidsListedOnce' /\ RidsLoop'
      BY <1>6, <1>t
      DEF FilterEnds, TypeOK, Starts, ScopesLoop, FilterLoop, RidsListedOnce, RidsLoop
    <2>2. FilterResult'
      <3>1. DOMAIN names = 1 .. i - 1
        <4>1. Len(names) \in Nat /\ DOMAIN names = 1 .. Len(names)
          BY <1>l
        <4> QED BY <1>6, <1>t, <1>i, <4>1 DEF FilterEnds, FilterLoop
      <3>2. WithFilter
        BY <1>6, <1>t DEF FilterEnds, Starts
      <3>3. \A g \in STRING : g \in Elements(out) <=> MayList(g)
        BY <1>6, <1>t, <3>1, <3>2 DEF FilterEnds, FilterLoop, MayList, Elements
      <3> QED BY <1>6, <3>3 DEF FilterEnds, FilterResult, MayList, Elements
    <2> QED BY <2>1, <2>2 DEF IInv
  <1>7. CASE ListPrimary
    <2>1. TypeOK' /\ Starts' /\ ScopesLoop' /\ FilterLoop'
      <3>1. groupIDs' \in Seq(Nat) /\ seen' \in SUBSET Nat
        BY <1>7, RidsAssumption DEF ListPrimary
      <3>2. \A x \in seen' : IsRid(x)
        BY <1>7 DEF ListPrimary, IsRid
      <3> QED BY <1>7, <1>t, <3>1, <3>2 DEF ListPrimary, TypeOK, Starts, ScopesLoop, FilterLoop
    <2>2. FilterResult'
      BY <1>7, <1>t DEF ListPrimary, FilterResult, Filtered, MayList, Elements
    <2>3. RidsLoop'
      <3>1. i = 1 /\ i' = 1 /\ 1 .. i' - 1 = {}
        BY <1>7, <1>t DEF ListPrimary, RidsLoop
      <3>2. 1 <= Len(out') + 1
        BY <1>7, <1>l DEF ListPrimary
      <3>3. \A x : x \in seen' <=> x = PrimaryRID
        BY <1>7 DEF ListPrimary
      <3>4. groupIDs' # <<>> /\ pc' = "rids"
        BY <1>7 DEF ListPrimary
      <3> QED BY <3>1, <3>2, <3>3, <3>4 DEF RidsLoop
    <2>4. RidsListedOnce'
      BY <1>7 DEF ListPrimary, RidsListedOnce, Elements
    <2> QED BY <2>1, <2>2, <2>3, <2>4 DEF IInv
  <1>8. CASE ListGroup
    <2> DEFINE rid == groupRID(out[i])
    <2>1. pc = "rids" /\ i \in 1 .. Len(out)
      BY <1>8, <1>i, <1>l DEF ListGroup
    <2>2. rid \in Nat /\ IsRid(rid)
      <3>1. out[i] \in Elements(out) /\ out[i] \in STRING
        BY <2>1, <1>l DEF Elements
      <3>2. out[i] \in Elements(names)
        BY <2>1, <3>1, <1>t DEF FilterResult, Filtered, MayList
      <3>3. names \in GroupLists
        BY <3>2, <1>t DEF TypeOK, Elements
      <3> QED BY <3>2, <3>3, RidType
    <2>3. /\ i' = i + 1
          /\ UNCHANGED <<pc, names, granted, admitted, out>>
          /\ \/ rid \in seen /\ UNCHANGED <<seen, groupIDs>>
             \/ /\ rid \notin seen
                /\ seen' = seen \cup {rid}
                /\ groupIDs' = Append(groupIDs, rid)
      BY <1>8 DEF ListGroup
    <2>4. \A x : x \in seen' <=> x \in seen \/ x = rid
      BY <2>3
    <2>5. i' \in Nat /\ i' >= 1 /\ i' - 1 = i
      BY <2>3, <1>i
    <2>6. \A x : x \in seen' <=> x = PrimaryRID \/ \E j \in 1 .. i : x = groupRID(out[j])
      <3> SUFFICES ASSUME NEW x
                   PROVE  x \in seen' <=> x = PrimaryRID \/ \E j \in 1 .. i : x = groupRID(out[j])
        OBVIOUS
      <3> DEFINE P(j) == x = groupRID(out[j])
      <3>1. x \in seen <=> x = PrimaryRID \/ \E j \in 1 .. i - 1 : P(j)
        BY <2>1, <1>t DEF RidsLoop
      <3>2. (\E j \in 1 .. i : P(j)) <=> (\E j \in 1 .. i - 1 : P(j)) \/ P(i)
        <4> HIDE DEF P
        <4> QED BY <1>i
      <3> QED BY <2>4, <3>1, <3>2
    <2> HIDE DEF rid
    <2>7. TypeOK' /\ Starts' /\ ScopesLoop' /\ FilterLoop'
      <3>1. seen' \in SUBSET Nat
        BY <2>2, <2>3, <1>a
      <3>2. groupIDs' \in Seq(Nat)
        <4>1. Append(groupIDs, rid) \in Seq(Nat)
          BY <2>2, <1>l, ElementsAppend
        <4> QED BY <2>3, <4>1, <1>l
      <3>3. \A x \in seen' : IsRid(x)
        BY <2>2, <2>4, <1>t DEF TypeOK
      <3> QED BY <2>1, <2>3, <2>5, <3>1, <3>2, <3>3, <1>t DEF TypeOK, Starts, ScopesLoop, FilterLoop
    <2>8. FilterResult'
      BY <2>3, <1>t DEF FilterResult, Filtered, MayList, Elements
    <2>9. RidsLoop'
      <3>1. groupIDs' # <<>>
        <4>1. Append(groupIDs, rid) # <<>>
          <5>1. groupIDs \in Seq(Nat)
            BY <1>l
          <5> QED BY <2>2, <5>1, ElementsAppend
        <4> QED BY <2>1, <2>3, <4>1, <1>t DEF RidsLoop
      <3>2. i' <= Len(out') + 1
        BY <2>1, <2>3, <1>l
      <3> QED BY <2>1, <2>3, <2>5, <2>6, <3>1, <3>2 DEF RidsLoop
    <2>10. RidsListedOnce'
      <3>1. CASE rid \in seen
        BY <3>1, <2>3, <1>t DEF RidsListedOnce, Elements
      <3>2. CASE rid \notin seen
        <4>1. Elements(groupIDs') = Elements(groupIDs) \cup {rid}
          <5>1. Elements(Append(groupIDs, rid)) = Elements(groupIDs) \cup {rid}
            BY <2>2, <1>l, ElementsAppend
          <5> QED BY <3>2, <2>3, <5>1
        <4>2. \A n \in DOMAIN groupIDs : groupIDs[n] # rid
          BY <3>2, <1>t DEF RidsListedOnce, Elements
        <4>3. /\ DOMAIN groupIDs' = 1 .. Len(groupIDs) + 1
              /\ DOMAIN groupIDs = 1 .. Len(groupIDs)
              /\ \A n \in 1 .. Len(groupIDs) : groupIDs'[n] = groupIDs[n]
              /\ groupIDs'[Len(groupIDs) + 1] = rid
          <5>1. groupIDs' = Append(groupIDs, rid) /\ groupIDs \in Seq(Nat)
            BY <3>2, <2>3, <1>l
          <5> QED BY <5>1, <2>2
        <4>4. \A m, n \in DOMAIN groupIDs' : groupIDs'[m] = groupIDs'[n] => m = n
          <5>1. \A m, n \in DOMAIN groupIDs : groupIDs[m] = groupIDs[n] => m = n
            BY <1>t DEF RidsListedOnce
          <5>2. Len(groupIDs) \in Nat
            BY <1>l
          <5> QED BY <4>2, <4>3, <5>1, <5>2
        <4>5. groupIDs'[1] = PrimaryRID
          <5>1. groupIDs # <<>> /\ groupIDs[1] = PrimaryRID
            BY <2>1, <1>t DEF RidsListedOnce, RidsLoop
          <5>2. 1 \in 1 .. Len(groupIDs)
            BY <5>1, <1>l
          <5> QED BY <4>3, <5>1, <5>2
        <4>6. seen' = Elements(groupIDs')
          BY <3>2, <2>3, <4>1, <1>t DEF RidsListedOnce
        <4> QED BY <4>4, <4>5, <4>6 DEF RidsListedOnce, Elements
      <3> QED BY <3>1, <3>2
    <2> QED BY <2>7, <2>8, <2>9, <2>10 DEF IInv
  <1>9. CASE BuildEnds
    BY <1>9, <1>t, <1>l
    DEF BuildEnds, IInv, TypeOK, Starts, ScopesLoop, FilterLoop, FilterResult,
        Filtered, MayList, Elements, RidsLoop, RidsListedOnce
  <1>10. CASE UNCHANGED vars
    BY <1>10, <1>t
    DEF vars, IInv, TypeOK, Starts, ScopesLoop, FilterLoop, FilterResult,
        Filtered, MayList, Elements, RidsLoop, RidsListedOnce
  <1> QED
    BY <1>1, <1>2, <1>3, <1>4, <1>5, <1>6, <1>7, <1>8, <1>9, <1>10
    DEF Next, Build, Ended

\* The loop invariants hold throughout Build (pacbuilder.go, scopefilter.go).
THEOREM Invariance == Spec => []IInv
  BY InitIInv, NextIInv, PTL DEF Spec

---------------------------------------------------------------------------
\* Build's variables keep their types (pacbuilder.go).
THEOREM TypeCorrect == Spec => []TypeOK
  <1>1. IInv => TypeOK
    BY DEF IInv
  <1> QED BY <1>1, Invariance, PTL

\* No RID is ever listed twice and the primary group is first (pacbuilder.go).
THEOREM ListingOnce == Spec => []RidsListedOnce
  <1>1. IInv => RidsListedOnce
    BY DEF IInv
  <1> QED BY <1>1, Invariance, PTL

(***************************************************************************)
(* The finished PAC lists the primary group and the admitted claim groups, *)
(* no more and no fewer (pacbuilder.go, scopefilter.go).                   *)
(***************************************************************************)
THEOREM ListingExactly == Spec => []ListsExactlyAdmitted
  <1>1. IInv => ListsExactlyAdmitted
    <2> SUFFICES ASSUME IInv, pc = "done"
                 PROVE  Elements(groupIDs) =
                          {PrimaryRID} \cup {groupRID(g) : g \in {h \in Elements(names) : MayList(h)}}
      BY DEF ListsExactlyAdmitted
    <2>1. TypeOK /\ Elements(names) \subseteq STRING /\ out \in Seq(STRING)
      BY ListTypes DEF IInv, TypeOK
    <2>2. \A g : g \in Elements(out) <=> g \in Elements(names) /\ MayList(g)
      BY <2>1, ListTypes DEF IInv, FilterResult, Filtered, MayList
    <2>3. \A x : x \in Elements(groupIDs) <=>
            x = PrimaryRID \/ \E j \in DOMAIN out : x = groupRID(out[j])
      BY <2>1 DEF IInv, RidsLoop, RidsListedOnce
    <2>4. \A x : (\E j \in DOMAIN out : x = groupRID(out[j]))
                   <=> \E g \in Elements(out) : x = groupRID(g)
      BY DEF Elements
    <2> QED BY <2>2, <2>3, <2>4
  <1> QED BY <1>1, Invariance, PTL

---------------------------------------------------------------------------
(***************************************************************************)
(* The order of the candidates.  InOrder(n) says that the kept candidates  *)
(* are the admitted ones among the first n, in their order; the filter     *)
(* loop extends the map of positions by one pair at a time.                *)
(***************************************************************************)
OrderLoop ==
  /\ pc = "filter" => InOrder(i - 1)
  /\ pc \in Filtered => InOrder(Len(names))

\* InOrder depends on the claims and on out alone.
LEMMA InOrderFrame ==
  ASSUME NEW n, InOrder(n), UNCHANGED <<names, granted, out>>
  PROVE  InOrder(n)'
  BY DEF InOrder, Listed, MayList

\* A candidate that may not be listed is passed over.
LEMMA InOrderSkips ==
  ASSUME NEW n \in Nat, InOrder(n), ~MayList(names[n + 1]),
         UNCHANGED <<names, granted, out>>
  PROVE  InOrder(n + 1)'
  <1>1. Listed(n + 1) = Listed(n)
    <2> DEFINE P(m) == MayList(names[m])
    <2>1. {m \in 1 .. n + 1 : P(m)} = {m \in 1 .. n : P(m)}
      <3>1. ~P(n + 1)
        OBVIOUS
      <3> HIDE DEF P
      <3> QED BY <3>1
    <2> QED BY <2>1 DEF Listed
  <1>2. InOrder(n + 1)
    BY <1>1 DEF InOrder
  <1> QED BY <1>2, InOrderFrame

\* One that may be listed goes to the end of out.
LEMMA InOrderKeeps ==
  ASSUME NEW n \in Nat, out \in Seq(STRING), names[n + 1] \in STRING, InOrder(n),
         MayList(names[n + 1]), UNCHANGED <<names, granted>>,
         out' = Append(out, names[n + 1])
  PROVE  InOrder(n + 1)'
  <1> DEFINE K == Len(out)
             L == Listed(n + 1)
  <1>1. /\ K \in Nat /\ DOMAIN out = 1 .. K /\ DOMAIN out' = 1 .. K + 1
        /\ out'[K + 1] = names[n + 1] /\ \A k \in 1 .. K : out'[k] = out[k]
    OBVIOUS
  <1>2. L = Listed(n) \cup {n + 1} /\ Listed(n) \subseteq 1 .. n
    <2> DEFINE P(m) == MayList(names[m])
    <2>1. {m \in 1 .. n + 1 : P(m)} = {m \in 1 .. n : P(m)} \cup {n + 1}
      <3>1. P(n + 1)
        OBVIOUS
      <3> HIDE DEF P
      <3> QED BY <3>1
    <2> QED BY <2>1 DEF Listed
  <1>3. PICK f \in [DOMAIN out -> Listed(n)] :
          /\ \A k, l \in DOMAIN out : k < l => f[k] < f[l]
          /\ \A k \in DOMAIN out : out[k] = names[f[k]]
          /\ \A m \in Listed(n) : \E k \in DOMAIN out : out[k] = names[m]
    BY DEF InOrder
  <1> DEFINE g == [k \in 1 .. K + 1 |-> IF k = K + 1 THEN n + 1 ELSE f[k]]
  <1>a. \A k \in 1 .. K : f[k] \in Listed(n) /\ f[k] \in 1 .. n
    BY <1>1, <1>2, <1>3
  <1> HIDE DEF K, L
  <1>4. /\ g[K + 1] = n + 1
        /\ \A k \in 1 .. K : g[k] = f[k] /\ f[k] \in 1 .. n /\ f[k] \in Listed(n)
    <2>1. K + 1 \in 1 .. K + 1 /\ \A k \in 1 .. K : k \in 1 .. K + 1 /\ k # K + 1
      BY <1>1
    <2> QED BY <1>a, <2>1
  <1>5. g \in [1 .. K + 1 -> L]
    <2>1. \A k \in 1 .. K + 1 : k = K + 1 \/ k \in 1 .. K
      BY <1>1
    <2> QED BY <1>2, <1>a, <2>1
  <1> HIDE DEF g
  <1>6. \A m \in L : \E k \in 1 .. K + 1 : out'[k] = names[m]
    <2> SUFFICES ASSUME NEW m \in L PROVE \E k \in 1 .. K + 1 : out'[k] = names[m]
      OBVIOUS
    <2>1. CASE m = n + 1
      <3>1. K + 1 \in 1 .. K + 1
        BY <1>1
      <3> QED BY <1>1, <2>1, <3>1
    <2>2. CASE m \in Listed(n)
      <3>1. PICK k \in 1 .. K : out[k] = names[m]
        BY <1>1, <1>3, <2>2
      <3>2. k \in 1 .. K + 1
        BY <1>1
      <3> QED BY <1>1, <3>1, <3>2
    <2> QED BY <1>2, <2>1, <2>2
  <1>7. \A k, l \in 1 .. K + 1 : k < l => g[k] < g[l]
    <2> SUFFICES ASSUME NEW k \in 1 .. K + 1, NEW l \in 1 .. K + 1, k < l PROVE g[k] < g[l]
      OBVIOUS
    <2>1. k \in 1 .. K /\ g[k] = f[k] /\ f[k] \in 1 .. n
      BY <1>1, <1>4
    <2>2. CASE l = K + 1
      BY <1>4, <2>1, <2>2
    <2>3. CASE l # K + 1
      <3>1. l \in 1 .. K
        BY <1>1, <2>3
      <3> QED BY <1>1, <1>3, <1>4, <2>1, <3>1
    <2> QED BY <2>2, <2>3
  <1>8. \A k \in 1 .. K + 1 : out'[k] = names[g[k]]
    <2> SUFFICES ASSUME NEW k \in 1 .. K + 1 PROVE out'[k] = names[g[k]]
      OBVIOUS
    <2>1. CASE k = K + 1
      BY <1>1, <1>4, <2>1
    <2>2. CASE k # K + 1
      <3>1. k \in 1 .. K
        BY <1>1, <2>2
      <3> QED BY <1>1, <1>3, <1>4, <3>1
    <2> QED BY <2>1, <2>2
  <1>9. Listed(n + 1)' = L /\ names' = names
    BY DEF Listed, MayList, L
  <1>10. /\ g \in [DOMAIN out' -> Listed(n + 1)']
         /\ \A k, l \in DOMAIN out' : k < l => g[k] < g[l]
         /\ \A k \in DOMAIN out' : out'[k] = names'[g[k]]
         /\ \A m \in Listed(n + 1)' : \E k \in DOMAIN out' : out'[k] = names'[m]
    <2>1. DOMAIN out' = 1 .. K + 1
      BY <1>1
    <2> QED BY <1>5, <1>6, <1>7, <1>8, <1>9, <2>1
  <1> QED BY <1>10 DEF InOrder

LEMMA NextOrderLoop == IInv /\ OrderLoop /\ [Next]_vars => OrderLoop'
  <1> SUFFICES ASSUME IInv, OrderLoop, [Next]_vars PROVE OrderLoop'
    OBVIOUS
  <1>t. /\ TypeOK /\ names \in Seq(STRING) /\ out \in Seq(STRING) /\ i \in Nat /\ i >= 1
        /\ Len(names) \in Nat
    BY ListTypes DEF IInv, TypeOK, Starts
  <1>1. ASSUME NEW ns \in GroupLists, NEW ss \in ScopeLists, MapClaims(ns, ss)
        PROVE  OrderLoop'
    <2>1. CASE WithFilter
      BY <1>1, <2>1 DEF MapClaims, OrderLoop, Filtered
    <2>2. CASE ~WithFilter
      <3>1. /\ pc' = "list" /\ names' = ns /\ out' = ns /\ ns \in Seq(STRING)
            /\ Len(ns) \in Nat /\ DOMAIN ns = 1 .. Len(ns)
        BY <1>1, <2>2, ListsAssumption DEF MapClaims
      <3>2. Listed(Len(ns))' = 1 .. Len(ns)
        BY <2>2, <3>1 DEF Listed, MayList, Elements
      <3> DEFINE f == [k \in 1 .. Len(ns) |-> k]
      <3>3. f \in [1 .. Len(ns) -> 1 .. Len(ns)] /\ \A k \in 1 .. Len(ns) : f[k] = k
        OBVIOUS
      <3> HIDE DEF f
      <3>4. InOrder(Len(ns))'
        BY <3>1, <3>2, <3>3 DEF InOrder
      <3> QED BY <3>1, <3>4 DEF OrderLoop
    <2> QED BY <2>1, <2>2
  <1>2. CASE MapFails \/ AdmitScope
    BY <1>2 DEF MapFails, AdmitScope, OrderLoop, Filtered
  <1>3. CASE ScopesEnd
    <2>1. out' = <<>> /\ i' = 1 /\ pc' = "filter"
      BY <1>3 DEF ScopesEnd, IInv, Starts
    <2>2. Listed(0)' = {} /\ DOMAIN out' = {}
      BY <2>1 DEF Listed
    <2>3. InOrder(0)'
      <3>1. <<>> \in [{} -> {}]
        OBVIOUS
      <3> QED BY <2>2, <3>1 DEF InOrder
    <2> QED BY <2>1, <2>3 DEF OrderLoop, Filtered
  <1>4. CASE KeepCandidate
    <2>1. /\ i \in 1 .. Len(names) /\ names[i] \in STRING /\ (i - 1) \in Nat
          /\ (i - 1) + 1 = i /\ i' - 1 = i /\ pc = "filter" /\ pc' = "filter"
          /\ UNCHANGED <<names, granted>>
          /\ out' = IF names[i] \in admitted THEN Append(out, names[i]) ELSE out
      BY <1>4, <1>t DEF KeepCandidate
    <2>2. InOrder(i - 1)
      BY <2>1 DEF OrderLoop
    <2>3. names[i] \in admitted <=> MayList(names[i])
      <3>1. WithFilter /\ names[i] \in Elements(names)
        BY <2>1, <1>t DEF IInv, Starts, Elements
      <3>2. names[i] \in admitted <=> \E j \in DOMAIN granted : names[i] \in Admits(granted[j])
        BY <2>1 DEF IInv, FilterLoop
      <3>3. (\E s \in Elements(granted) : names[i] \in Admits(s))
              <=> \E j \in DOMAIN granted : names[i] \in Admits(granted[j])
        BY DEF Elements
      <3> QED BY <3>1, <3>2, <3>3 DEF MayList
    <2>4. PICK n \in Nat : n = i - 1
      BY <2>1
    <2>5. i = n + 1 /\ i' = i + 1
      BY <2>1, <2>4, <1>t, <1>4 DEF KeepCandidate
    <2>6. InOrder(n + 1)'
      <3>1. InOrder(n) /\ names[n + 1] \in STRING
        BY <2>1, <2>2, <2>4, <2>5
      <3>2. CASE MayList(names[n + 1])
        <4>1. out' = Append(out, names[n + 1])
          BY <2>1, <2>3, <2>5, <3>2
        <4> QED BY <1>t, <2>1, <3>1, <3>2, <4>1, InOrderKeeps
      <3>3. CASE ~MayList(names[n + 1])
        <4>1. out' = out
          BY <2>1, <2>3, <2>5, <3>3
        <4> QED BY <2>1, <3>1, <3>3, <4>1, InOrderSkips
      <3> QED BY <3>2, <3>3
    <2>7. i' - 1 = n + 1
      BY <2>4, <2>5, <1>t
    <2>8. InOrder(i - 1)'
      BY <2>6, <2>7
    <2> QED BY <2>1, <2>8 DEF OrderLoop, Filtered
  <1>5. CASE FilterEnds
    <2>1. /\ i - 1 = Len(names) /\ pc = "filter" /\ pc' = "list"
          /\ UNCHANGED <<names, granted, out>>
      BY <1>5, <1>t DEF FilterEnds, IInv, FilterLoop
    <2>2. InOrder(Len(names))'
      BY <2>1, InOrderFrame DEF OrderLoop
    <2> QED BY <2>1, <2>2 DEF OrderLoop
  <1>6. CASE ListPrimary \/ ListGroup \/ BuildEnds \/ UNCHANGED vars
    <2>1. /\ UNCHANGED <<names, granted, out>>
          /\ pc' = "filter" => pc = "filter" /\ i' = i
          /\ pc' \in Filtered => pc \in Filtered
      BY <1>6 DEF ListPrimary, ListGroup, BuildEnds, vars, Filtered
    <2>2. \A n : InOrder(n) => InOrder(n)'
      BY <2>1, InOrderFrame
    <2> QED BY <2>1, <2>2 DEF OrderLoop
  <1> QED BY <1>1, <1>2, <1>3, <1>4, <1>5, <1>6 DEF Next, Build, Ended

(***************************************************************************)
(* Admit returns the admitted candidates, all of them and no others, in    *)
(* the claim's order, for claims and policies of any size (scopefilter.go, *)
(* Admit).                                                                 *)
(***************************************************************************)
THEOREM Ordering == Spec => []OrderPreserved
  <1>1. Init => OrderLoop
    BY DEF Init, OrderLoop, Filtered
  <1>2. OrderLoop => OrderPreserved
    BY DEF OrderLoop, OrderPreserved, Filtered
  <1> QED BY <1>1, <1>2, NextOrderLoop, Invariance, PTL DEF Spec

(***************************************************************************)
(* "Each admitted group at most once" (scopefilter.go, Admit) holds for    *)
(* claims that name no group twice, and Admit itself then needs no map of  *)
(* what it returned: the repetitions that a run finds are the claim's.     *)
(***************************************************************************)
THEOREM AdmittingOnce ==
  ASSUME \A l \in GroupLists : \A m, n \in DOMAIN l : l[m] = l[n] => m = n
  PROVE  Spec => []AdmittedOnce
  <1>1. TypeOK /\ OrderPreserved => AdmittedOnce
    <2> SUFFICES ASSUME TypeOK, OrderPreserved, pc \in {"list", "rids", "done"},
                        NEW k \in DOMAIN out, NEW l \in DOMAIN out, out[k] = out[l]
                 PROVE  k = l
      BY DEF AdmittedOnce
    <2>1. PICK f \in [DOMAIN out -> Listed(Len(names))] :
            /\ \A m, n \in DOMAIN out : m < n => f[m] < f[n]
            /\ \A m \in DOMAIN out : out[m] = names[f[m]]
      BY DEF OrderPreserved, InOrder
    <2>2. names \in Seq(STRING) /\ out \in Seq(STRING)
      BY ListTypes DEF TypeOK
    <2>3. f[k] \in 1 .. Len(names) /\ f[l] \in 1 .. Len(names)
      BY <2>1 DEF Listed
    <2>4. f[k] \in DOMAIN names /\ f[l] \in DOMAIN names
      BY <2>2, <2>3
    <2>5. names \in GroupLists
      BY <2>4 DEF TypeOK
    <2>6. f[k] = f[l]
      BY <2>1, <2>4, <2>5
    <2>7. k \in Nat /\ l \in Nat
      BY <2>2
    <2>8. ~(k < l) /\ ~(l < k)
      BY <2>1, <2>3, <2>6
    <2> QED BY <2>7, <2>8
  <1> QED BY <1>1, TypeCorrect, Ordering, PTL
=============================================================================
