----------------------------- MODULE PacGroups -----------------------------
(***************************************************************************)
(* How SyntheticPACBuilder.Build turns the groups and scopes of a token    *)
(* into the GroupIDs of the PAC: the mapper reads the claims, the scope    *)
(* filter narrows the groups, and each admitted group becomes a RID that   *)
(* is listed once.  One action per loop iteration, so that the loop        *)
(* invariants can be stated and proved for lists of every length.          *)
(*                                                                         *)
(* A RID is the number below the domain SID.  The FNV-32a hash is an       *)
(* arbitrary function: collisions are ordinary inputs here.                *)
(***************************************************************************)
EXTENDS Integers, Sequences

CONSTANTS
  GroupLists,     \* the group lists a ClaimsMapper may find
  ScopeLists,     \* the scope lists it may find
  WithFilter,     \* TRUE iff ScopeFilter is set
  ScopeGroups,    \* ConfigMapFilter.ScopeGroups: scope -> set of groups
  FNV32a,         \* hash/fnv: name -> 32-bit hash
  GroupOverrides, \* name -> RID
  PrimaryRID      \* DefaultPrimaryGroupRID

VARIABLES
  pc,        \* which loop Build is in
  names,     \* groupNames
  granted,   \* grantedScopes
  i,         \* position in the list the loop runs over
  admitted,  \* Admit: the map of groups that a granted scope lists
  out,       \* Admit: the candidates kept so far; then Build's "admitted"
  seen,      \* RIDs listed so far
  groupIDs   \* the PAC's list of RIDs

vars == <<pc, names, granted, i, admitted, out, seen, groupIDs>>

ridSynthSpace == 536870912  \* 0x20000000

ASSUME ListsAssumption ==
  /\ GroupLists \subseteq Seq(STRING)
  /\ ScopeLists \subseteq Seq(STRING)
  /\ WithFilter \in BOOLEAN
  /\ \A s \in DOMAIN ScopeGroups : ScopeGroups[s] \subseteq STRING

ASSUME RidsAssumption ==
  /\ \A l \in GroupLists : \A n \in DOMAIN l : l[n] \in DOMAIN FNV32a
  /\ \A g \in DOMAIN FNV32a : FNV32a[g] \in Nat
  /\ \A g \in DOMAIN GroupOverrides : GroupOverrides[g] \in Nat
  /\ PrimaryRID \in Nat

---------------------------------------------------------------------------
\* Fault: the hash is not folded.
ridFromName_Unfolded(name) == 1000 + FNV32a[name]

\* ridFromName: fold the hash into [1000, 1000 + ridSynthSpace).
ridFromName(name) == 1000 + (FNV32a[name] % ridSynthSpace)

\* groupRID: the override if there is one.
groupRID(name) ==
  IF name \in DOMAIN GroupOverrides THEN GroupOverrides[name] ELSE ridFromName(name)

\* Groups the scope admits; none for a scope the policy does not know.
Admits(scope) == IF scope \in DOMAIN ScopeGroups THEN ScopeGroups[scope] ELSE {}

Init ==
  /\ pc = "map"
  /\ names = <<>> /\ granted = <<>>
  /\ i = 1
  /\ admitted = {} /\ out = <<>>
  /\ seen = {} /\ groupIDs = <<>>

\* mapper.Map: the claims are read, or are malformed and Build fails.
MapClaims(ns, ss) ==
  /\ pc = "map"
  /\ pc' = IF WithFilter THEN "scopes" ELSE "list"
  /\ names' = ns
  /\ granted' = ss
  /\ out' = IF WithFilter THEN <<>> ELSE ns
  /\ UNCHANGED <<i, admitted, seen, groupIDs>>

MapFails ==
  /\ pc = "map"
  /\ pc' = "failed"
  /\ UNCHANGED <<names, granted, i, admitted, out, seen, groupIDs>>

\* Admit, first loop: collect what the next granted scope lists.
AdmitScope ==
  /\ pc = "scopes" /\ i <= Len(granted)
  /\ admitted' = admitted \cup Admits(granted[i])
  /\ i' = i + 1
  /\ UNCHANGED <<pc, names, granted, out, seen, groupIDs>>

ScopesEnd ==
  /\ pc = "scopes" /\ i > Len(granted)
  /\ pc' = "filter" /\ i' = 1
  /\ UNCHANGED <<names, granted, admitted, out, seen, groupIDs>>

\* Fault: the kept candidates come out in reverse.
KeepCandidate_Prepends ==
  /\ pc = "filter" /\ i <= Len(names)
  /\ out' = IF names[i] \in admitted THEN <<names[i]>> \o out ELSE out
  /\ i' = i + 1
  /\ UNCHANGED <<pc, names, granted, admitted, seen, groupIDs>>

\* Admit, second loop: keep the next candidate if it is in the map.
KeepCandidate ==
  /\ pc = "filter" /\ i <= Len(names)
  /\ out' = IF names[i] \in admitted THEN Append(out, names[i]) ELSE out
  /\ i' = i + 1
  /\ UNCHANGED <<pc, names, granted, admitted, seen, groupIDs>>

FilterEnds ==
  /\ pc = "filter" /\ i > Len(names)
  /\ pc' = "list" /\ i' = 1
  /\ UNCHANGED <<names, granted, admitted, out, seen, groupIDs>>

\* Build starts the list with the primary group.
ListPrimary ==
  /\ pc = "list"
  /\ pc' = "rids"
  /\ groupIDs' = <<PrimaryRID>>
  /\ seen' = {PrimaryRID}
  /\ UNCHANGED <<names, granted, i, admitted, out>>

\* Fault: a listed RID is not remembered.
ListGroup_Forgets ==
  LET rid == groupRID(out[i]) IN
  /\ pc = "rids" /\ i <= Len(out)
  /\ i' = i + 1
  /\ groupIDs' = IF rid \in seen THEN groupIDs ELSE Append(groupIDs, rid)
  /\ UNCHANGED <<pc, names, granted, admitted, out, seen>>

\* Fault: the loop stops at the first RID that is already listed.
ListGroup_Breaks ==
  LET rid == groupRID(out[i]) IN
  /\ pc = "rids" /\ i <= Len(out)
  /\ \/ /\ rid \in seen
        /\ i' = Len(out) + 1
        /\ UNCHANGED <<seen, groupIDs>>
     \/ /\ rid \notin seen
        /\ i' = i + 1
        /\ seen' = seen \cup {rid}
        /\ groupIDs' = Append(groupIDs, rid)
  /\ UNCHANGED <<pc, names, granted, admitted, out>>

\* Build's loop: list the next group's RID unless it is listed already.
ListGroup ==
  LET rid == groupRID(out[i]) IN
  /\ pc = "rids" /\ i <= Len(out)
  /\ i' = i + 1
  /\ \/ /\ rid \in seen
        /\ UNCHANGED <<seen, groupIDs>>
     \/ /\ rid \notin seen
        /\ seen' = seen \cup {rid}
        /\ groupIDs' = Append(groupIDs, rid)
  /\ UNCHANGED <<pc, names, granted, admitted, out>>

BuildEnds ==
  /\ pc = "rids" /\ i > Len(out)
  /\ pc' = "done"
  /\ UNCHANGED <<names, granted, i, admitted, out, seen, groupIDs>>

Ended == pc \in {"done", "failed"} /\ UNCHANGED vars

Build ==
  \/ \E ns \in GroupLists, ss \in ScopeLists : MapClaims(ns, ss)
  \/ MapFails
  \/ AdmitScope \/ ScopesEnd \/ KeepCandidate \/ FilterEnds
  \/ ListPrimary \/ ListGroup \/ BuildEnds

Next == Build \/ Ended

Spec == Init /\ [][Next]_vars

---------------------------------------------------------------------------
(***************************************************************************)
(* What is checked.                                                        *)
(***************************************************************************)
Elements(s) == {s[n] : n \in DOMAIN s}

(***************************************************************************)
(* A RID is the primary one, one that the operator chose, or a synthetic   *)
(* one: clear of the well-known range and dense enough for SSSD.           *)
(***************************************************************************)
IsRid(x) ==
  \/ x \in 1000 .. (1000 + ridSynthSpace - 1)
  \/ x = PrimaryRID
  \/ \E g \in DOMAIN GroupOverrides : x = GroupOverrides[g]

\* Types; every listed number is a RID (pacbuilder.go, ridFromName).
TypeOK ==
  /\ pc \in {"map", "scopes", "filter", "list", "rids", "done", "failed"}
  /\ names \in GroupLists \cup {<<>>}
  /\ granted \in ScopeLists \cup {<<>>}
  /\ i \in Nat
  /\ admitted \in SUBSET STRING
  /\ out \in Seq(STRING)
  /\ seen \in SUBSET Nat
  /\ \A x \in seen : IsRid(x)
  /\ groupIDs \in Seq(Nat)

\* The groups that should be in the PAC, said without loops.
MayList(g) ==
  /\ g \in Elements(names)
  /\ WithFilter => \E s \in Elements(granted) : g \in Admits(s)

(***************************************************************************)
(* The finished PAC lists exactly the primary group and the RIDs of the    *)
(* claim groups that some granted scope admits: skipping duplicates loses  *)
(* no group and the filter lets none through (pacbuilder.go, scopefilter). *)
(***************************************************************************)
ListsExactlyAdmitted ==
  pc = "done" =>
    Elements(groupIDs) = {PrimaryRID} \cup {groupRID(g) : g \in {h \in Elements(names) : MayList(h)}}

(***************************************************************************)
(* At every moment no RID is listed twice, the primary group is first, and *)
(* seen is what is listed, whatever the hash collides with, whatever the   *)
(* overrides name and however often a claim repeats a group (pacbuilder).  *)
(***************************************************************************)
RidsListedOnce ==
  /\ \A m, n \in DOMAIN groupIDs : groupIDs[m] = groupIDs[n] => m = n
  /\ groupIDs # <<>> => groupIDs[1] = PrimaryRID
  /\ seen = Elements(groupIDs)

\* The positions up to n in the claim whose group may be listed.
Listed(n) == {m \in 1 .. n : MayList(names[m])}

(***************************************************************************)
(* out runs through some of those positions in their order, and every      *)
(* group that stands at one of them is in out.                             *)
(***************************************************************************)
InOrder(n) ==
  \E f \in [DOMAIN out -> Listed(n)] :
    /\ \A k, l \in DOMAIN out : k < l => f[k] < f[l]
    /\ \A k \in DOMAIN out : out[k] = names[f[k]]
    /\ \A m \in Listed(n) : \E k \in DOMAIN out : out[k] = names[m]

(***************************************************************************)
(* What Admit returns, or the claim itself without a filter, has no group  *)
(* but the admitted candidates, has all of them, and has them in the order *)
(* of the claim: "The result preserves candidateGroups order"              *)
(* (scopefilter.go).                                                       *)
(***************************************************************************)
OrderPreserved == pc \in {"list", "rids", "done"} => InOrder(Len(names))

---------------------------------------------------------------------------
(***************************************************************************)
(* A statement of the source, taken literally.  scopefilter.go, on Admit:  *)
(* the result "contains each admitted group at most once".                 *)
(***************************************************************************)
AdmittedOnce ==
  WithFilter /\ pc \in {"list", "rids", "done"} =>
    \A k, l \in DOMAIN out : out[k] = out[l] => k = l
=============================================================================
