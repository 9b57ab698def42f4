----------------------------- MODULE Encodings -----------------------------
(***************************************************************************)
(* The encodings that can go wrong at a width or a boundary: the frame of  *)
(* a GSSAPI token and the domain SID.  The AP-REQ inside the frame is its  *)
(* length.                                                                 *)
(***************************************************************************)
EXTENDS Integers, Sequences

\* The bytes that n > 0 takes.  Four are enough for every length below 2^31.
nBytes(n) == CHOOSE k \in 1 .. 4 : n \div 256 ^ (k - 1) \in 1 .. 255

LongForm(n) ==
  <<128 + nBytes(n)>>
    \o [i \in 1 .. nBytes(n) |-> (n \div 256 ^ (nBytes(n) - i)) % 256]

\* Fault: 0x80 still gets the short form.
derLength_OffByOne(n) == IF n <= 128 THEN <<n>> ELSE LongForm(n)

derLength(n) == IF n < 128 THEN <<n>> ELSE LongForm(n)

lenDERLen(n) == IF n < 128 THEN 1 ELSE 1 + nBytes(n)

(***************************************************************************)
(* MarshalAPReqToken on an AP-REQ of n bytes: the tag and the length, what *)
(* follows them (an 11-byte OID, a 2-byte token id and the AP-REQ), and    *)
(* the capacity that the token is allocated with.                          *)
(***************************************************************************)
MarshalAPReqToken(n) ==
  LET inner == 11 + 2 + n IN
  [head     |-> <<96>> \o derLength(inner),
   inner    |-> inner,
   capacity |-> 1 + lenDERLen(inner) + inner]

---------------------------------------------------------------------------
(***************************************************************************)
(* The parts of a SID text between its dashes: a number, the letter S, or  *)
(* anything that strconv.ParseUint refuses (Junk), a number too wide for   *)
(* its place included.                                                     *)
(***************************************************************************)
LetterS == -1
Junk == -2
NoSID == [ok |-> FALSE]

\* Fault: the authority is cut to its low byte.
AuthorityByte_Truncates(authVal) == [ok |-> authVal >= 0, byte |-> authVal % 256]

\* The identifier authority: only its low byte is kept.
AuthorityByte(authVal) == [ok |-> authVal \in 0 .. 255, byte |-> authVal % 256]

parseDomainSID(parts) ==
  LET subs == SubSeq(parts, 4, Len(parts)) IN
  IF /\ Len(parts) >= 7 /\ parts[1] = LetterS /\ parts[2] = 1
     /\ AuthorityByte(parts[3]).ok
     /\ \A i \in DOMAIN subs : subs[i] >= 0
  THEN [ok |-> TRUE, Revision |-> 1, SubAuthorityCount |-> Len(subs) % 256,
        IdentifierAuthority |-> AuthorityByte(parts[3]).byte, SubAuthority |-> subs]
  ELSE NoSID
=============================================================================
