--------------------------- MODULE MCConversions ---------------------------
(***************************************************************************)
(* Inputs for module Conversions: every name over the two separators and a *)
(* letter up to small lengths, and numbers around every boundary.          *)
(***************************************************************************)
EXTENDS Conversions

Texts(A, n) == UNION {[1 .. k -> A] : k \in 0 .. n}

\* Two principals whose text holds a NUL, and two subjects that do; the first
\* subject ends as the first principal begins.
NULNames == {Principal(<<"a">>, <<"a">>, <<NUL, "a", "/", "a">>),
             Principal(<<"a">>, <<NUL>>, <<>>)}
NULSubjects == {<<NUL, "a", "/", "a", "@">>, <<"a", NUL>>}

\* Every part may hold a separator, or be empty.
MCNames == {Principal(s, h, r) : s, h \in Texts({"a", "/", "@"}, 2),
                                 r \in Texts({"a", "/", "@"}, 1)} \cup NULNames
MCSubjects == Texts({"a", "/"}, 2) \cup NULSubjects
MCOutputs == {"apreq", "ccache"}

\* Entries that a delimited text can carry, and two that it cannot.
Words == {<<>>, <<" ">>, <<"a">>, <<"a", "b">>}
Awkward == {<<Tab>>, <<"a", " ">>}
MCClaims == {Absent, Unreadable} \cup {List(ws) : ws \in Texts(Words, 3) \cup Texts(Awkward, 1)}
              \cup {Text(s) : s \in Texts({"a", " ", ",", Tab}, 3)}

\* A SID with n sub-authorities; the count byte wraps at 256.
LongSID(n) == <<LetterS, 1, 5>> \o [i \in 1 .. n |-> i]
MCSIDs == {<<s, revision, authority>> \o subs :
              s \in {LetterS, 1}, revision \in {1, 2, Junk},
              authority \in {0, 5, 255, 256, 261, Junk}, subs \in Texts({0, 21, Junk}, 4)}
            \cup {LongSID(n) : n \in 0 .. 263}

\* Around each length at which the form or the number of bytes changes.
MCLengths == 0 .. 600 \cup 65500 .. 65560 \cup 16777190 .. 16777220
=============================================================================
