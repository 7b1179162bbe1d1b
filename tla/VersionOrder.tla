----------------------------- MODULE VersionOrder -----------------------------
(* How versions are compared (domain.CompareVersions), and the key under which  *)
(* SQL sorts them (releaseVersionOrder): a text that databases compare          *)
(* character by character.  A text is the sequence of its characters' codes,    *)
(* a number the text of its digits, without leading zeros.                      *)
EXTENDS Naturals, SequencesExt

\* A version is [core, pre, text]: three numbers, the identifiers of the
\* prerelease, and the build metadata.  A text that is no semantic version, which
\* may come from upstream, has no core.
Digit      == 48..57
Letter     == {45} \cup 65..90 \cup 97..122
Number     == Seq(Digit) \ {<<>>}
Identifier == Seq(Digit \cup Letter) \ {<<>>}
Core       == Number \X Number \X Number
ParsedVersion == [core : Core \cup {<<>>}, pre : Seq(Identifier), text : Seq(Nat)]
IsSemantic(v) == v.core # <<>>

\* s and t agree in their first n elements; t goes on, and s does or ends there.
Agree(s, t, n) == n <= Len(s) /\ n < Len(t) /\ SubSeq(s, 1, n) = SubSeq(t, 1, n)
TextLess(s, t) == \E n \in 0..Len(s) : Agree(s, t, n) /\ (n = Len(s) \/ s[n + 1] < t[n + 1])

(* semver.Compare *)
NumberLess(m, n) == Len(m) < Len(n) \/ (Len(m) = Len(n) /\ TextLess(m, n))
IsNumber(id)     == \A i \in DOMAIN id : id[i] \in Digit
IdentifierLess(a, b) ==
    \/ IsNumber(a) /\ ~IsNumber(b)
    \/ IsNumber(a) /\ IsNumber(b) /\ NumberLess(a, b)
    \/ ~IsNumber(a) /\ ~IsNumber(b) /\ TextLess(a, b)
CoreLess(c, d) == \E n \in 0..2 : Agree(c, d, n) /\ NumberLess(c[n + 1], d[n + 1])
PrereleaseLess(p, q) ==
    \E n \in 0..Len(p) : Agree(p, q, n) /\ (n = Len(p) \/ IdentifierLess(p[n + 1], q[n + 1]))
SemverLess(v, w) ==
    \/ CoreLess(v.core, w.core)
    \/ /\ v.core = w.core /\ v.pre # <<>>
       /\ w.pre = <<>> \/ PrereleaseLess(v.pre, w.pre)

\* CompareVersions(v, w) < 0
VersionLess(v, w) ==
    \/ IsSemantic(v) /\ IsSemantic(w) /\ SemverLess(v, w)
    \/ ~IsSemantic(v) /\ IsSemantic(w)
    \/ ~IsSemantic(v) /\ ~IsSemantic(w) /\ TextLess(v.text, w.text)
Equivalent(v, w) == ~VersionLess(v, w) /\ ~VersionLess(w, v)

(* The key.  The length of a number, ten digits of the key, is one character    *)
(* here; it is only ever compared with another length.                          *)
Bang == <<33>>
Zero == <<48>>
One  == <<49>>

\* (Mutant: a number without its length.)
DigitsOnly(digits) == digits \o Bang
NumberKey(digits)  == <<Len(digits)>> \o digits \o Bang
IdentifierKey(id)  == IF IsNumber(id) THEN Zero \o NumberKey(id) ELSE One \o id \o Bang

PrereleaseKey(p) ==
    IF p = <<>> THEN One ELSE Zero \o FlattenSeq([i \in DOMAIN p |-> IdentifierKey(p[i])])

OrderKey(v) ==
    IF ~IsSemantic(v) THEN Zero \o v.text
    ELSE One \o NumberKey(v.core[1]) \o NumberKey(v.core[2]) \o NumberKey(v.core[3])
             \o PrereleaseKey(v.pre)
===============================================================================
